------------------------------- MODULE Outbox -------------------------------
(***************************************************************************)
(* The transactional outbox of user-service.  Whoever creates or updates a *)
(* user writes an event row in the same transaction; a run of              *)
(* OutboxWorker.RunOnce takes a batch of pending rows, hands each to       *)
(* RabbitMQ and marks it; the cleaner archives and deletes old published   *)
(* rows.                                                                   *)
(*                                                                         *)
(* A Runner is something that calls RunOnce, never twice at the same time: *)
(* the loop of a replica, or an administrator's flush request, which takes *)
(* place next to the loop in the same process.  Time is left out: a row    *)
(* that waits for its next attempt becomes due at some moment, a published *)
(* row grows older than the retention at some moment.                      *)
(***************************************************************************)
EXTENDS Naturals, Sequences, FiniteSets

CONSTANTS
    Event,        \* changes of users, each with its outbox row
    Process,      \* replicas of user-service
    Runner,       \* loops and flush requests that call RunOnce
    HostOf,       \* HostOf[r]: the replica that runs r
    Loop,         \* the runners that are loops: they call RunOnce for ever
    BatchSize,    \* rows of one FetchPendingOutbox
    MaxAttempts,  \* OUTBOX_MAX_ATTEMPTS
    Archive       \* OUTBOX_ARCHIVE_ENABLED

ASSUME OutboxAssumption ==
    /\ HostOf \in [Runner -> Process]
    /\ Loop \subseteq Runner
    /\ BatchSize \in Nat \ {0} /\ MaxAttempts \in Nat \ {0}
    /\ Archive \in BOOLEAN

VARIABLES
    status,     \* status[e] of the row; "none" before it, "deleted" after it
    attempts,   \* attempt_count of the row
    due,        \* next_attempt_at <= NOW(), or published_at is out of retention
    created,    \* the rows in the order of created_at
    hand,       \* hand[r]: rows that the run of r fetched and has not settled
    fetched,    \* fetched[r][e]: attempt_count in the message r holds
    sending,    \* sending[r]: what r has just published and how it went
    linked,     \* linked[p]: the AMQP channel of p is open
    chosen,     \* chosen[p]: ids that the cleaner of p selected
    archived,   \* ids in outbox_events_archive
    sends,      \* sends[e]: calls of the publisher for e (history)
    accepted    \* events that the publisher took without an error (history)

rows == <<status, attempts, due, created>>
runs == <<hand, fetched, sending>>
cleaner == <<chosen, archived>>
history == <<sends, accepted>>
vars == <<rows, runs, linked, cleaner, history>>

Status == {"none", "pending", "processing", "published", "dead", "deleted"}
NoMessage == [of |-> {}, ok |-> FALSE]
Message == [of : SUBSET Event, ok : BOOLEAN]

Init ==
    /\ status = [e \in Event |-> "none"]
    /\ attempts = [e \in Event |-> 0]
    /\ due = [e \in Event |-> FALSE]
    /\ created = <<>>
    /\ hand = [r \in Runner |-> {}]
    /\ fetched = [r \in Runner |-> [e \in Event |-> 0]]
    /\ sending = [r \in Runner |-> NoMessage]
    /\ linked = [p \in Process |-> TRUE]
    /\ chosen = [p \in Process |-> {}]
    /\ archived = {}
    /\ sends = [e \in Event |-> 0]
    /\ accepted = {}

-----------------------------------------------------------------------------
\* Create or Update of a user: the row is committed with the change or not at all.
WriteUser(e) ==
    /\ status[e] = "none"
    /\ status' = [status EXCEPT ![e] = "pending"]
    /\ due' = [due EXCEPT ![e] = TRUE]
    /\ created' = Append(created, e)
    /\ UNCHANGED <<attempts, runs, linked, cleaner, history>>

\* The clock passes next_attempt_at, or published_at plus the retention.
BecomeDue(e) ==
    /\ status[e] \in {"pending", "published"} /\ ~due[e]
    /\ due' = [due EXCEPT ![e] = TRUE]
    /\ UNCHANGED <<status, attempts, created, runs, linked, cleaner, history>>

-----------------------------------------------------------------------------
(* A run of RunOnce.                                                       *)

\* The rows that FetchPendingOutbox may take.  (The variants also take the rows
\* that are being processed; never take up a row that has failed.)
FetchableAgain(e) == status[e] \in {"pending", "processing"} /\ due[e]
FetchableOnce(e) == status[e] = "pending" /\ due[e] /\ attempts[e] = 0
Fetchable(e) == status[e] = "pending" /\ due[e]

\* ORDER BY created_at LIMIT batchSize.  Rows locked by another fetch are
\* skipped; that fetch makes them "processing" when it commits.
Older(d, e) ==
    \E i, j \in DOMAIN created : i < j /\ created[i] = d /\ created[j] = e
Batch ==
    {e \in Event : /\ Fetchable(e)
                   /\ Cardinality({d \in Event : Fetchable(d) /\ Older(d, e)}) < BatchSize}

\* The update of the fetch; the variant leaves the rows pending.
Untaken(S) == status
Taken(S) == [e \in Event |-> IF e \in S THEN "processing" ELSE status[e]]

\* The transaction of the fetch.  When the answer to its COMMIT is lost, the run
\* ends with an error and an empty hand.
Fetch(r) ==
    /\ hand[r] = {} /\ Batch # {}
    /\ hand' = [hand EXCEPT ![r] = Batch] \/ UNCHANGED hand
    /\ fetched' = [fetched EXCEPT ![r] = attempts]
    /\ status' = Taken(Batch)
    /\ UNCHANGED <<attempts, due, created, sending, linked, cleaner, history>>

\* publishMessage: the publisher writes to its channel, which fails for good when
\* the connection is lost, possibly after the broker got the message.
PublishMessage(r) ==
    /\ sending[r] = NoMessage
    /\ \E e \in hand[r] : \E ok \in BOOLEAN :
          /\ ok => linked[HostOf[r]]
          /\ sending' = [sending EXCEPT ![r] = [of |-> {e}, ok |-> ok]]
          /\ linked' = [linked EXCEPT ![HostOf[r]] = ok]
          /\ sends' = [sends EXCEPT ![e] = @ + 1]
          /\ accepted' = IF ok THEN accepted \cup {e} ELSE accepted
    /\ UNCHANGED <<rows, hand, fetched, cleaner>>

\* What the row becomes after the call.
GivesUp(n) == n + 1 >= MaxAttempts

Outcome(r, e) ==
    IF sending[r].ok THEN "published"
    ELSE IF GivesUp(fetched[r][e]) THEN "dead" ELSE "pending"

\* MarkOutboxPublished, MarkOutboxDead, MarkOutboxFailed: by id, whatever the row
\* is by then.  A retry waits, and counts in the table.
Mark(r, e) ==
    /\ status' = [status EXCEPT ![e] = IF @ = "deleted" THEN @ ELSE Outcome(r, e)]
    /\ attempts' = [attempts EXCEPT ![e] = IF Outcome(r, e) = "pending" THEN @ + 1 ELSE @]
    /\ due' = [due EXCEPT ![e] = FALSE]

\* An error of the mark is logged or ignored, and the row stays as it is: nobody
\* will take it again.  A flush whose client went away fails like that.
Settle(r) ==
    /\ \E e \in sending[r].of :
          /\ Mark(r, e) \/ UNCHANGED <<status, attempts, due>>
          /\ hand' = [hand EXCEPT ![r] = @ \ {e}]
    /\ sending' = [sending EXCEPT ![r] = NoMessage]
    /\ UNCHANGED <<created, fetched, linked, cleaner, history>>

-----------------------------------------------------------------------------
(* CleanupPublishedOutbox: the ids are selected without a lock, the rows   *)
(* are copied and deleted, all in one transaction.                         *)

Cleanable(e) == status[e] = "published" /\ due[e]

SelectOld(p) ==
    /\ chosen[p] = {} /\ \E e \in Event : Cleanable(e)
    /\ chosen' = [chosen EXCEPT ![p] = {e \in Event : Cleanable(e)}]
    /\ UNCHANGED <<rows, runs, linked, archived, history>>

\* What the INSERT ... SELECT copies.  (The variant forgets it.)
Left(p) == {e \in chosen[p] : status[e] # "deleted"}
CopiedNone(p) == {}
Copied(p) == IF Archive THEN Left(p) ELSE {}

\* The transaction commits, or is rolled back and the tick ends.
DeleteOld(p) ==
    /\ chosen[p] # {}
    /\ \/ /\ status' = [e \in Event |-> IF e \in chosen[p] THEN "deleted" ELSE status[e]]
          /\ archived' = archived \cup Copied(p)
       \/ UNCHANGED <<status, archived>>
    /\ chosen' = [chosen EXCEPT ![p] = {}]
    /\ UNCHANGED <<attempts, due, created, runs, linked, history>>

-----------------------------------------------------------------------------
\* The process dies and starts again: what its runs hold is forgotten, the
\* publisher connects anew, an open transaction is rolled back.
Restart(p) ==
    /\ hand' = [r \in Runner |-> IF HostOf[r] = p THEN {} ELSE hand[r]]
    /\ sending' = [r \in Runner |-> IF HostOf[r] = p THEN NoMessage ELSE sending[r]]
    /\ linked' = [linked EXCEPT ![p] = TRUE]
    /\ chosen' = [chosen EXCEPT ![p] = {}]
    /\ UNCHANGED <<rows, fetched, archived, history>>

RunnerStep(r) == Fetch(r) \/ PublishMessage(r) \/ Settle(r)

Next ==
    \/ \E e \in Event : WriteUser(e) \/ BecomeDue(e)
    \/ \E r \in Runner : Fetch(r) \/ PublishMessage(r) \/ Settle(r)
    \/ \E p \in Process : SelectOld(p) \/ DeleteOld(p) \/ Restart(p)

\* A loop goes on and its batch comes to an end; time passes.  Nothing forces a
\* flush to be requested, a user to be changed or a process to die, and the link
\* may be lost at any call.
Fairness ==
    /\ \A r \in Runner : WF_vars(PublishMessage(r)) /\ WF_vars(Settle(r))
    /\ \A r \in Loop : WF_vars(Fetch(r))
    /\ \A e \in Event : WF_vars(BecomeDue(e))

Spec == Init /\ [][Next]_vars
FairSpec == Spec /\ Fairness

-----------------------------------------------------------------------------
TypeOK ==
    /\ status \in [Event -> Status]
    /\ attempts \in [Event -> 0 .. MaxAttempts - 1]
    /\ due \in [Event -> BOOLEAN]
    /\ created \in Seq(Event)
    /\ hand \in [Runner -> SUBSET Event]
    /\ fetched \in [Runner -> [Event -> 0 .. MaxAttempts - 1]]
    /\ sending \in [Runner -> Message]
    /\ linked \in [Process -> BOOLEAN]
    /\ chosen \in [Process -> SUBSET Event]
    /\ archived \subseteq Event
    /\ sends \in [Event -> Nat]
    /\ accepted \subseteq Event

\* A row is in the hands of one run only, replicas and flushes included, and while
\* it is the table says so and counts the attempts that the run counts.
OneOwner ==
    \A r \in Runner : \A e \in hand[r] :
        /\ status[e] = "processing" /\ attempts[e] = fetched[r][e]
        /\ \A s \in Runner \ {r} : e \notin hand[s]

\* The broker is called once per attempt the table knows of and at most once more,
\* and never more often than the configuration allows.
SendsAreCounted ==
    \A e \in Event : sends[e] <= attempts[e] + 1 /\ sends[e] <= MaxAttempts

\* A row that says "published", and one that the cleaner removed, was taken by the
\* publisher; and what was removed is in the archive.
NothingVanishes ==
    \A e \in Event :
        /\ status[e] \in {"published", "deleted"} => e \in accepted
        /\ status[e] = "deleted" /\ Archive => e \in archived

\* What is settled stays settled: a published, dead or deleted row is never sent
\* again and changes no more, except that the cleaner deletes a published one.
SettledIsFinal ==
    [][\A e \in Event : status[e] \in {"published", "dead", "deleted"} =>
          /\ sends'[e] = sends[e]
          /\ status'[e] = status[e]
             \/ (status[e] = "published" /\ status'[e] = "deleted")]_vars

\* Nobody holds the row and nobody will fetch it: its run died or could not mark it.
Stranded(e) == status[e] = "processing" /\ \A r \in Runner : e \notin hand[r]

\* Every event gets out of the queue, whatever the broker does: it is published,
\* dead or, after a crash or a failed mark, left behind.
EventsAreSettled ==
    \A e \in Event :
        status[e] = "pending" ~>
            status[e] \in {"published", "dead", "deleted"} \/ Stranded(e)

-----------------------------------------------------------------------------
(* The inductive invariant.                                                *)

\* Nobody has seen a row that is not written yet; a row that waits was sent once
\* for each attempt it counts.
CountOf(e) ==
    /\ status[e] = "none" => sends[e] = 0 /\ attempts[e] = 0
    /\ status[e] = "pending" => sends[e] <= attempts[e]
    /\ sends[e] <= attempts[e] + 1

\* A run sends one row of its hand at a time; what it has not sent yet was sent once
\* for each attempt it counts; what went well is accepted.
SendingOf(r) ==
    /\ sending[r].of \subseteq hand[r]
    /\ \A d, e \in sending[r].of : d = e
    /\ \A e \in hand[r] \ sending[r].of : sends[e] <= attempts[e]
    /\ sending[r].ok => sending[r].of \subseteq accepted

\* A cleaner only ever holds rows that are published, or that another one deleted.
ChosenOf(p) == \A e \in chosen[p] : status[e] \in {"published", "deleted"}

IInv ==
    /\ TypeOK
    /\ OneOwner
    /\ NothingVanishes
    /\ \A e \in Event : CountOf(e)
    /\ \A r \in Runner : SendingOf(r)
    /\ \A p \in Process : ChosenOf(p)
=============================================================================
