---------------------------- MODULE OutboxProofs ----------------------------
(***************************************************************************)
(* Why the outbox is safe, for any number of rows, replicas and runs: the  *)
(* inductive invariant of Outbox, and the promises that follow from it.    *)
(*                                                                         *)
(* And why it implements Delivery: RInv is preserved by every step that    *)
(* preserves IInv, and under the two each step is a step of the promise or *)
(* leaves its variables alone.                                             *)
(***************************************************************************)
EXTENDS OutboxDelivery, TLAPS

USE OutboxAssumption

LEMMA NoMessageType == NoMessage \in Message /\ NoMessage.of = {} /\ ~NoMessage.ok
  BY DEF NoMessage, Message

LEMMA SendingFields ==
  ASSUME TypeOK, NEW r \in Runner
  PROVE  sending[r].of \subseteq Event /\ sending[r].ok \in BOOLEAN
  <1>1. sending[r] \in Message
    BY DEF TypeOK
  <1>2. QED
    BY <1>1 DEF Message

\* A batch is made of rows that wait, and nobody holds those.
LEMMA BatchWaits ==
  ASSUME IInv, NEW e \in Batch
  PROVE  e \in Event /\ status[e] = "pending" /\ \A r \in Runner : e \notin hand[r]
  <1>1. e \in Event /\ status[e] = "pending"
    BY DEF Batch, Fetchable
  <1>2. QED
    BY <1>1 DEF IInv, OneOwner

LEMMA InitInv == Init => IInv
  <1> SUFFICES ASSUME Init PROVE IInv
    OBVIOUS
  <1>1. TypeOK
    <2>1. 0 \in 0 .. MaxAttempts - 1
      OBVIOUS
    <2>2. QED
      BY <2>1, NoMessageType DEF Init, TypeOK, Status
  <1>2. OneOwner /\ NothingVanishes
    BY DEF Init, OneOwner, NothingVanishes
  <1>3. \A e \in Event : CountOf(e)
    BY DEF Init, CountOf
  <1>4. \A r \in Runner : SendingOf(r)
    BY NoMessageType DEF Init, SendingOf
  <1>5. \A p \in Process : ChosenOf(p)
    BY DEF Init, ChosenOf
  <1>6. QED
    BY <1>1, <1>2, <1>3, <1>4, <1>5 DEF IInv

-----------------------------------------------------------------------------
(* One lemma per action.                                                   *)

LEMMA WriteUserInv == ASSUME IInv, NEW e \in Event, WriteUser(e) PROVE IInv'
  <1> USE DEF WriteUser, rows, runs, cleaner, history
  <1>1. TypeOK'
    BY DEF IInv, TypeOK, Status
  <1>2. OneOwner'
    BY DEF IInv, TypeOK, OneOwner
  <1>3. NothingVanishes'
    BY DEF IInv, TypeOK, NothingVanishes
  <1>4. \A d \in Event : CountOf(d)'
    BY DEF IInv, TypeOK, CountOf
  <1>5. \A r \in Runner : SendingOf(r)'
    BY DEF IInv, TypeOK, SendingOf
  <1>6. \A p \in Process : ChosenOf(p)'
    BY DEF IInv, TypeOK, ChosenOf
  <1>7. QED
    BY <1>1, <1>2, <1>3, <1>4, <1>5, <1>6 DEF IInv

LEMMA BecomeDueInv == ASSUME IInv, NEW e \in Event, BecomeDue(e) PROVE IInv'
  <1> USE DEF BecomeDue, runs, cleaner, history
  <1>1. TypeOK'
    BY DEF IInv, TypeOK
  <1>2. OneOwner' /\ NothingVanishes'
    BY DEF IInv, OneOwner, NothingVanishes
  <1>3. \A d \in Event : CountOf(d)'
    BY DEF IInv, CountOf
  <1>4. \A r \in Runner : SendingOf(r)'
    BY DEF IInv, SendingOf
  <1>5. \A p \in Process : ChosenOf(p)'
    BY DEF IInv, ChosenOf
  <1>6. QED
    BY <1>1, <1>2, <1>3, <1>4, <1>5 DEF IInv

\* A fetch takes rows from nobody's hand into an empty one, or into none.
LEMMA FetchInv == ASSUME IInv, NEW r \in Runner, Fetch(r) PROVE IInv'
  <1> USE DEF Fetch, cleaner, history
  <1>1. \A e \in Event : status'[e] = IF e \in Batch THEN "processing" ELSE status[e]
    BY DEF Taken
  <1>2. \A s \in Runner : s # r => hand'[s] = hand[s] /\ fetched'[s] = fetched[s]
    BY DEF IInv, TypeOK
  <1>3. hand'[r] \subseteq Batch /\ fetched'[r] = attempts /\ hand[r] = {}
    BY DEF IInv, TypeOK
  <1>4. TypeOK'
    <2>1. Batch \subseteq Event
      BY BatchWaits
    <2>2. status' \in [Event -> Status]
      BY <2>1 DEF IInv, TypeOK, Taken, Status
    <2>3. fetched' \in [Runner -> [Event -> 0 .. MaxAttempts - 1]]
      BY DEF IInv, TypeOK
    <2>4. hand' \in [Runner -> SUBSET Event]
      BY <2>1, ZenonT(40) DEF IInv, TypeOK
    <2>5. QED
      BY <2>2, <2>3, <2>4 DEF IInv, TypeOK
  <1>5. OneOwner'
    <2> SUFFICES ASSUME NEW s \in Runner, NEW e \in hand'[s]
                 PROVE  /\ status'[e] = "processing" /\ attempts'[e] = fetched'[s][e]
                        /\ \A q \in Runner \ {s} : e \notin hand'[q]
      BY DEF OneOwner
    <2>1. CASE s = r
      <3>1. e \in Batch
        BY <1>3, <2>1
      <3>2. QED
        BY <1>1, <1>2, <1>3, <2>1, <3>1, BatchWaits
    <2>2. CASE s # r
      <3>1. e \in hand[s] /\ e \in Event
        BY <1>2, <2>2 DEF IInv, TypeOK
      <3>2. /\ status[e] = "processing" /\ attempts[e] = fetched[s][e]
            /\ \A q \in Runner \ {s} : e \notin hand[q]
        BY <3>1 DEF IInv, OneOwner
      <3>3. e \notin Batch
        BY <3>2 DEF Batch, Fetchable
      <3>4. QED
        BY <1>1, <1>2, <1>3, <2>2, <3>1, <3>2, <3>3
    <2>3. QED
      BY <2>1, <2>2
  <1>6. NothingVanishes'
    BY <1>1 DEF IInv, NothingVanishes
  <1>7. \A e \in Event : CountOf(e)'
    BY <1>1, BatchWaits DEF IInv, CountOf
  <1>8. ASSUME NEW s \in Runner PROVE SendingOf(s)'
    <2>1. CASE s = r
      <3>1. sending[r].of = {}
        BY <1>3 DEF IInv, SendingOf
      <3>2. \A e \in Batch : sends[e] <= attempts[e]
        BY BatchWaits DEF IInv, CountOf
      <3>3. QED
        BY <1>3, <2>1, <3>1, <3>2 DEF SendingOf
    <2>2. CASE s # r
      BY <1>2, <2>2 DEF IInv, SendingOf
    <2>3. QED
      BY <2>1, <2>2
  <1>9. \A p \in Process : ChosenOf(p)'
    BY <1>1, BatchWaits DEF IInv, TypeOK, ChosenOf
  <1>10. QED
    BY <1>4, <1>5, <1>6, <1>7, <1>8, <1>9 DEF IInv

\* The one step that calls the broker: for a row in hand that was not sent yet.
LEMMA PublishMessageInv ==
  ASSUME IInv, NEW r \in Runner, PublishMessage(r) PROVE IInv'
  <1> USE DEF PublishMessage, rows, cleaner
  <1>1. PICK e \in hand[r], ok \in BOOLEAN :
          /\ sending' = [sending EXCEPT ![r] = [of |-> {e}, ok |-> ok]]
          /\ linked' = [linked EXCEPT ![HostOf[r]] = ok]
          /\ sends' = [sends EXCEPT ![e] = @ + 1]
          /\ accepted' = IF ok THEN accepted \cup {e} ELSE accepted
    OBVIOUS
  <1>2. e \in Event /\ sending[r].of = {}
    BY NoMessageType DEF IInv, TypeOK
  <1>3. /\ status[e] = "processing" /\ sends[e] <= attempts[e]
        /\ \A s \in Runner \ {r} : e \notin hand[s]
    BY <1>2 DEF IInv, OneOwner, SendingOf
  <1>4. TypeOK'
    <2>1. [of |-> {e}, ok |-> ok] \in Message
      BY <1>2 DEF Message
    <2>2. sending' \in [Runner -> Message]
      BY <1>1, <2>1 DEF IInv, TypeOK
    <2>3. sends' \in [Event -> Nat] /\ linked' \in [Process -> BOOLEAN]
      BY <1>1 DEF IInv, TypeOK
    <2>4. accepted' \subseteq Event
      BY <1>1, <1>2 DEF IInv, TypeOK
    <2>5. QED
      BY <2>2, <2>3, <2>4 DEF IInv, TypeOK
  <1>5. OneOwner'
    BY DEF IInv, OneOwner
  <1>6. NothingVanishes'
    BY <1>1 DEF IInv, NothingVanishes
  <1>7. \A d \in Event : CountOf(d)'
    BY <1>1, <1>3, SMTT(30) DEF IInv, TypeOK, CountOf
  <1>8. ASSUME NEW s \in Runner PROVE SendingOf(s)'
    <2>1. CASE s = r
      <3>1. sending'[r].of = {e} /\ sending'[r].ok = ok
        BY <1>1 DEF IInv, TypeOK
      <3>2. \A d \in hand[r] \ {e} : sends'[d] <= attempts[d]
        BY <1>1, <1>2 DEF IInv, TypeOK, SendingOf
      <3>3. ok => e \in accepted'
        BY <1>1
      <3>4. QED
        BY <2>1, <3>1, <3>2, <3>3 DEF SendingOf
    <2>2. CASE s # r
      <3>1. sending'[s] = sending[s] /\ accepted \subseteq accepted'
        BY <1>1, <2>2 DEF IInv, TypeOK
      <3>2. \A d \in hand[s] : sends'[d] = sends[d]
        BY <1>1, <1>3, <2>2 DEF IInv, TypeOK
      <3>3. QED
        BY <3>1, <3>2 DEF IInv, SendingOf
    <2>3. QED
      BY <2>1, <2>2
  <1>9. \A p \in Process : ChosenOf(p)'
    BY DEF IInv, ChosenOf
  <1>10. QED
    BY <1>4, <1>5, <1>6, <1>7, <1>8, <1>9 DEF IInv

\* The row leaves the hand of its run with the outcome of the call, or unmarked.
LEMMA SettleInv == ASSUME IInv, NEW r \in Runner, Settle(r) PROVE IInv'
  <1> USE DEF Settle, cleaner, history
  <1>1. PICK e \in sending[r].of :
          /\ Mark(r, e) \/ UNCHANGED <<status, attempts, due>>
          /\ hand' = [hand EXCEPT ![r] = @ \ {e}]
    OBVIOUS
  <1>2. /\ e \in Event /\ e \in hand[r] /\ status[e] = "processing"
        /\ attempts[e] = fetched[r][e]
        /\ \A s \in Runner \ {r} : e \notin hand[s]
        /\ sending[r].of = {e}
        /\ sending[r].ok => e \in accepted
    BY <1>1, SendingFields DEF IInv, SendingOf, OneOwner
  <1>3. \A d \in Event \ {e} : status'[d] = status[d] /\ attempts'[d] = attempts[d]
    BY <1>1, <1>2 DEF IInv, TypeOK, Mark
  <1>4. \/ status'[e] = "processing" /\ attempts'[e] = attempts[e]
        \/ status'[e] = "published" /\ e \in accepted /\ attempts'[e] = attempts[e]
        \/ status'[e] = "dead" /\ attempts'[e] = attempts[e]
        \/ /\ status'[e] = "pending" /\ attempts'[e] = attempts[e] + 1
           /\ attempts[e] + 1 < MaxAttempts
    <2>1. attempts[e] \in 0 .. MaxAttempts - 1
      BY <1>2 DEF IInv, TypeOK
    <2>2. CASE UNCHANGED <<status, attempts, due>>
      BY <1>2, <2>2
    <2>3. CASE Mark(r, e)
      <3>1. status'[e] = Outcome(r, e)
        BY <1>2, <2>3 DEF Mark, IInv, TypeOK
      <3>2. attempts'[e] = IF Outcome(r, e) = "pending" THEN attempts[e] + 1 ELSE attempts[e]
        BY <1>2, <2>3 DEF Mark, IInv, TypeOK
      <3>3. QED
        BY <1>2, <2>1, <3>1, <3>2 DEF Outcome, GivesUp
    <2>4. QED
      BY <1>1, <2>2, <2>3
  <1>5. hand'[r] = hand[r] \ {e} /\ \A s \in Runner \ {r} : hand'[s] = hand[s]
    BY <1>1 DEF IInv, TypeOK
  <1>6. TypeOK'
    <2>1. status' \in [Event -> Status]
      <3>1. DOMAIN status' = Event /\ status' = [d \in Event |-> status'[d]]
        BY <1>1 DEF IInv, TypeOK, Mark
      <3>2. \A d \in Event : status'[d] \in Status
        BY <1>3, <1>4 DEF IInv, TypeOK, Status
      <3>3. QED
        BY <3>1, <3>2
    <2>2. attempts' \in [Event -> 0 .. MaxAttempts - 1]
      <3>1. attempts' = [d \in Event |-> attempts'[d]]
        BY <1>1 DEF IInv, TypeOK, Mark
      <3>2. \A d \in Event : attempts[d] \in 0 .. MaxAttempts - 1
        BY DEF IInv, TypeOK
      <3>3. \A d \in Event \ {e} : attempts'[d] \in 0 .. MaxAttempts - 1
        BY <1>3, <3>2
      <3>4. attempts'[e] \in 0 .. MaxAttempts - 1
        BY <1>2, <1>4, <3>2
      <3>5. QED
        BY <3>1, <3>3, <3>4
    <2>3. due' \in [Event -> BOOLEAN]
      BY <1>1 DEF IInv, TypeOK, Mark
    <2>4. hand' \in [Runner -> SUBSET Event]
      BY <1>1 DEF IInv, TypeOK
    <2>5. sending' \in [Runner -> Message]
      BY NoMessageType DEF IInv, TypeOK
    <2>6. QED
      BY <2>1, <2>2, <2>3, <2>4, <2>5 DEF IInv, TypeOK
  <1>7. OneOwner'
    <2> SUFFICES ASSUME NEW s \in Runner, NEW d \in hand'[s]
                 PROVE  /\ status'[d] = "processing" /\ attempts'[d] = fetched[s][d]
                        /\ \A q \in Runner \ {s} : d \notin hand'[q]
      BY DEF OneOwner
    <2>1. d \in hand[s] /\ d # e /\ d \in Event
      BY <1>2, <1>5 DEF IInv, TypeOK
    <2>2. /\ status[d] = "processing" /\ attempts[d] = fetched[s][d]
          /\ \A q \in Runner \ {s} : d \notin hand[q]
      BY <2>1 DEF IInv, OneOwner
    <2>3. QED
      BY <1>3, <1>5, <2>1, <2>2
  <1>8. NothingVanishes'
    BY <1>2, <1>3, <1>4 DEF IInv, NothingVanishes
  <1>9. \A d \in Event : CountOf(d)'
    <2>1. sends[e] <= attempts[e] + 1 /\ sends[e] \in Nat /\ attempts[e] \in Nat
      BY <1>2 DEF IInv, CountOf, TypeOK
    <2>2. CountOf(e)'
      BY <1>4, <2>1 DEF CountOf
    <2>3. \A d \in Event \ {e} : CountOf(d)'
      BY <1>3 DEF IInv, CountOf
    <2>4. QED
      BY <2>2, <2>3
  <1>10. ASSUME NEW s \in Runner PROVE SendingOf(s)'
    <2>1. \A d \in hand'[s] : d \in hand[s] /\ d # e /\ d \in Event
      BY <1>2, <1>5 DEF IInv, TypeOK
    <2>2. CASE s = r
      <3>1. sending'[r].of = {} /\ ~sending'[r].ok
        BY NoMessageType DEF IInv, TypeOK
      <3>2. \A d \in hand'[r] : sends[d] <= attempts'[d]
        BY <1>2, <1>3, <2>1, <2>2 DEF IInv, SendingOf
      <3>3. QED
        BY <2>2, <3>1, <3>2 DEF SendingOf
    <2>3. CASE s # r
      <3>1. sending'[s] = sending[s] /\ hand'[s] = hand[s]
        BY <1>5, <2>3 DEF IInv, TypeOK
      <3>2. \A d \in hand[s] : attempts'[d] = attempts[d]
        BY <1>3, <2>1, <3>1
      <3>3. QED
        BY <3>1, <3>2 DEF IInv, SendingOf
    <2>4. QED
      BY <2>2, <2>3
  <1>11. \A p \in Process : ChosenOf(p)'
    BY <1>2, <1>3 DEF IInv, TypeOK, ChosenOf
  <1>12. QED
    BY <1>6, <1>7, <1>8, <1>9, <1>10, <1>11 DEF IInv

LEMMA SelectOldInv == ASSUME IInv, NEW p \in Process, SelectOld(p) PROVE IInv'
  <1> USE DEF SelectOld, rows, runs, history
  <1>1. TypeOK'
    BY DEF IInv, TypeOK
  <1>2. OneOwner' /\ NothingVanishes'
    BY DEF IInv, OneOwner, NothingVanishes
  <1>3. \A d \in Event : CountOf(d)'
    BY DEF IInv, CountOf
  <1>4. \A r \in Runner : SendingOf(r)'
    BY DEF IInv, SendingOf
  <1>5. \A q \in Process : ChosenOf(q)'
    BY DEF IInv, TypeOK, ChosenOf, Cleanable
  <1>6. QED
    BY <1>1, <1>2, <1>3, <1>4, <1>5 DEF IInv

\* What another cleaner has deleted in between is in the archive already.
LEMMA DeleteOldInv == ASSUME IInv, NEW p \in Process, DeleteOld(p) PROVE IInv'
  <1> USE DEF DeleteOld, runs, history
  <1>1. \A e \in chosen[p] : e \in Event /\ status[e] \in {"published", "deleted"}
    BY DEF IInv, TypeOK, ChosenOf
  <1>2. \A e \in Event :
           \/ status'[e] = status[e]
           \/ e \in chosen[p] /\ status'[e] = "deleted"
    BY DEF IInv, TypeOK
  <1>3. archived \subseteq archived'
    OBVIOUS
  <1>4. TypeOK'
    <2>1. Copied(p) \subseteq Event
      BY <1>1 DEF Copied, Left
    <2>2. status' \in [Event -> Status] /\ archived' \subseteq Event
      BY <2>1 DEF IInv, TypeOK, Status
    <2>3. chosen' \in [Process -> SUBSET Event]
      BY DEF IInv, TypeOK
    <2>4. QED
      BY <2>2, <2>3 DEF IInv, TypeOK
  <1>5. OneOwner'
    BY <1>1, <1>2 DEF IInv, TypeOK, OneOwner
  <1>6. NothingVanishes'
    <2> SUFFICES ASSUME NEW e \in Event
                 PROVE  /\ status'[e] \in {"published", "deleted"} => e \in accepted
                        /\ status'[e] = "deleted" /\ Archive => e \in archived'
      BY DEF NothingVanishes
    <2>1. CASE status'[e] = status[e]
      BY <1>3, <2>1 DEF IInv, NothingVanishes
    <2>2. CASE status'[e] # status[e]
      <3>1. e \in chosen[p] /\ status[e] = "published" /\ status'[e] = "deleted"
        BY <1>1, <1>2, <2>2
      <3>2. archived' = archived \cup Copied(p)
        BY <2>2
      <3>3. Archive => e \in Copied(p)
        BY <3>1 DEF Copied, Left
      <3>4. QED
        BY <3>1, <3>2, <3>3 DEF IInv, NothingVanishes
    <2>3. QED
      BY <2>1, <2>2
  <1>7. \A e \in Event : CountOf(e)'
    BY <1>1, <1>2 DEF IInv, CountOf
  <1>8. \A r \in Runner : SendingOf(r)'
    BY DEF IInv, SendingOf
  <1>9. \A q \in Process : ChosenOf(q)'
    BY <1>2 DEF IInv, TypeOK, ChosenOf
  <1>10. QED
    BY <1>4, <1>5, <1>6, <1>7, <1>8, <1>9 DEF IInv

LEMMA RestartInv == ASSUME IInv, NEW p \in Process, Restart(p) PROVE IInv'
  <1> USE DEF Restart, rows, history
  <1>1. \A r \in Runner :
           \/ hand'[r] = hand[r] /\ sending'[r] = sending[r]
           \/ hand'[r] = {} /\ sending'[r] = NoMessage
    OBVIOUS
  <1>2. TypeOK'
    BY NoMessageType DEF IInv, TypeOK
  <1>3. OneOwner'
    BY <1>1 DEF IInv, OneOwner
  <1>4. NothingVanishes'
    BY DEF IInv, NothingVanishes
  <1>5. \A d \in Event : CountOf(d)'
    BY DEF IInv, CountOf
  <1>6. \A r \in Runner : SendingOf(r)'
    BY <1>1, NoMessageType DEF IInv, SendingOf
  <1>7. \A q \in Process : ChosenOf(q)'
    BY DEF IInv, TypeOK, ChosenOf
  <1>8. QED
    BY <1>2, <1>3, <1>4, <1>5, <1>6, <1>7 DEF IInv

LEMMA NextInv == IInv /\ [Next]_vars => IInv'
  <1> SUFFICES ASSUME IInv, [Next]_vars PROVE IInv'
    OBVIOUS
  <1>1. CASE Next
    BY <1>1, WriteUserInv, BecomeDueInv, FetchInv, PublishMessageInv, SettleInv,
       SelectOldInv, DeleteOldInv, RestartInv DEF Next
  <1>2. CASE UNCHANGED vars
    BY <1>2 DEF vars, rows, runs, cleaner, history, IInv, TypeOK, OneOwner,
       NothingVanishes, CountOf, SendingOf, ChosenOf
  <1>3. QED
    BY <1>1, <1>2

-----------------------------------------------------------------------------
(* The promises.                                                           *)

\* The inductive invariant holds, however many replicas and flushes run at once.
THEOREM OutboxInvariance == Spec => []IInv
  BY InitInv, NextInv, PTL DEF Spec

\* A row is in the hands of one run at most, and the table says so.
THEOREM RowsHaveOneOwner == Spec => []OneOwner
  <1>1. IInv => OneOwner
    BY DEF IInv
  <1>2. QED
    BY <1>1, OutboxInvariance, PTL

\* The broker is called at most MaxAttempts times for a row.
THEOREM SendsAreBounded == Spec => []SendsAreCounted
  <1>1. IInv => SendsAreCounted
    BY DEF IInv, TypeOK, CountOf, SendsAreCounted
  <1>2. QED
    BY <1>1, OutboxInvariance, PTL

\* Published rows were sent, deleted rows are in the archive.
THEOREM NothingIsLost == Spec => []NothingVanishes
  <1>1. IInv => NothingVanishes
    BY DEF IInv
  <1>2. QED
    BY <1>1, OutboxInvariance, PTL

\* A settled row is never sent again and changes only by being cleaned up.
THEOREM SettledStays == Spec => SettledIsFinal
  <1> DEFINE Final == \A e \in Event :
                 status[e] \in {"published", "dead", "deleted"} =>
                    /\ sends'[e] = sends[e]
                    /\ status'[e] = status[e]
                       \/ (status[e] = "published" /\ status'[e] = "deleted")
  <1>1. ASSUME IInv, Next PROVE Final
    <2> SUFFICES ASSUME NEW e \in Event, status[e] \in {"published", "dead", "deleted"}
                 PROVE  /\ sends'[e] = sends[e]
                        /\ status'[e] = status[e]
                           \/ (status[e] = "published" /\ status'[e] = "deleted")
      OBVIOUS
    <2>1. \A r \in Runner : e \notin hand[r] /\ e \notin sending[r].of
      BY <1>1 DEF IInv, OneOwner, SendingOf
    <2>2. ASSUME NEW d \in Event, WriteUser(d) \/ BecomeDue(d)
          PROVE  sends'[e] = sends[e] /\ status'[e] = status[e]
      BY <1>1, <2>2 DEF WriteUser, BecomeDue, history, IInv, TypeOK
    <2>3. ASSUME NEW r \in Runner, Fetch(r) PROVE sends'[e] = sends[e] /\ status'[e] = status[e]
      <3>1. e \notin Batch
        BY DEF Batch, Fetchable
      <3>2. QED
        BY <2>3, <3>1 DEF Fetch, Taken, history
    <2>4. ASSUME NEW r \in Runner, PublishMessage(r)
          PROVE  sends'[e] = sends[e] /\ status'[e] = status[e]
      BY <1>1, <2>1, <2>4 DEF PublishMessage, rows, IInv, TypeOK
    <2>5. ASSUME NEW r \in Runner, Settle(r) PROVE sends'[e] = sends[e] /\ status'[e] = status[e]
      BY <1>1, <2>1, <2>5 DEF Settle, Mark, history, IInv, TypeOK
    <2>6. ASSUME NEW p \in Process, SelectOld(p) \/ Restart(p)
          PROVE  sends'[e] = sends[e] /\ status'[e] = status[e]
      BY <2>6 DEF SelectOld, Restart, rows, history
    <2>7. ASSUME NEW p \in Process, DeleteOld(p)
          PROVE  /\ sends'[e] = sends[e]
                 /\ status'[e] = status[e]
                    \/ (status[e] = "published" /\ status'[e] = "deleted")
      BY <1>1, <2>7 DEF DeleteOld, history, IInv, ChosenOf
    <2>8. QED
      BY <1>1, <2>2, <2>3, <2>4, <2>5, <2>6, <2>7 DEF Next
  <1>2. IInv /\ [Next]_vars => [Final]_vars
    BY <1>1
  <1>3. QED
    BY <1>2, OutboxInvariance, PTL DEF Spec, SettledIsFinal

-----------------------------------------------------------------------------
(* The outbox implements Delivery.                                         *)

LEMMA InitRInv == Init => RInv
  BY DEF Init, RInv, WaitingOf, HandOf, AcceptedWasWritten

-----------------------------------------------------------------------------
(* RInv, one lemma per action that it notices.                             *)

LEMMA WriteUserRInv == ASSUME IInv, RInv, NEW e \in Event, WriteUser(e) PROVE RInv'
  <1> USE DEF WriteUser, runs, cleaner, history
  <1>1. sends[e] = 0 /\ attempts[e] = 0 /\ e \notin accepted
    BY DEF IInv, CountOf, RInv, AcceptedWasWritten
  <1>2. \A d \in Event : WaitingOf(d)'
    BY <1>1 DEF IInv, TypeOK, RInv, WaitingOf
  <1>3. \A r \in Runner : HandOf(r)'
    BY DEF RInv, HandOf
  <1>4. AcceptedWasWritten'
    BY DEF IInv, TypeOK, RInv, AcceptedWasWritten
  <1>5. QED
    BY <1>2, <1>3, <1>4 DEF RInv

LEMMA FetchRInv == ASSUME IInv, RInv, NEW r \in Runner, Fetch(r) PROVE RInv'
  <1> USE DEF Fetch, history
  <1>1. \A e \in Event : status'[e] = IF e \in Batch THEN "processing" ELSE status[e]
    BY DEF Taken
  <1>2. hand'[r] \subseteq Batch /\ \A s \in Runner : s # r => hand'[s] = hand[s]
    BY DEF IInv, TypeOK
  <1>3. sending[r].of = {}
    BY DEF IInv, SendingOf
  <1>4. \A e \in Event : WaitingOf(e)'
    BY <1>1 DEF RInv, WaitingOf
  <1>5. \A e \in Batch : sends[e] = attempts[e] /\ e \notin accepted
    BY BatchWaits DEF RInv, WaitingOf
  <1>6. ASSUME NEW s \in Runner PROVE HandOf(s)'
    <2>1. CASE s = r
      BY <1>2, <1>3, <1>5, <2>1 DEF HandOf
    <2>2. CASE s # r
      BY <1>2, <2>2 DEF RInv, HandOf
    <2>3. QED
      BY <2>1, <2>2
  <1>7. AcceptedWasWritten'
    BY <1>1 DEF IInv, TypeOK, RInv, AcceptedWasWritten
  <1>8. QED
    BY <1>4, <1>6, <1>7 DEF RInv

\* What PublishMessage does to the row it sends.
LEMMA OneIsSent ==
  ASSUME IInv, RInv, NEW r \in Runner, PublishMessage(r)
  PROVE  \E e \in Event, ok \in BOOLEAN :
            /\ e \in hand[r] /\ sending[r].of = {}
            /\ status[e] = "processing" /\ attempts[e] < MaxAttempts
            /\ sends[e] = attempts[e] /\ e \notin accepted
            /\ \A s \in Runner \ {r} : e \notin hand[s]
            /\ sending' = [sending EXCEPT ![r] = [of |-> {e}, ok |-> ok]]
            /\ sends' = [sends EXCEPT ![e] = @ + 1]
            /\ accepted' = IF ok THEN accepted \cup {e} ELSE accepted
  <1>1. PICK e \in hand[r], ok \in BOOLEAN :
          /\ sending' = [sending EXCEPT ![r] = [of |-> {e}, ok |-> ok]]
          /\ sends' = [sends EXCEPT ![e] = @ + 1]
          /\ accepted' = IF ok THEN accepted \cup {e} ELSE accepted
    BY DEF PublishMessage
  <1>2. e \in Event /\ sending[r].of = {}
    BY NoMessageType DEF PublishMessage, IInv, TypeOK
  <1>3. status[e] = "processing" /\ \A s \in Runner \ {r} : e \notin hand[s]
    BY <1>2 DEF IInv, OneOwner
  <1>4. sends[e] = attempts[e] /\ e \notin accepted
    BY <1>2 DEF RInv, HandOf
  <1>5. attempts[e] < MaxAttempts
    BY <1>2 DEF IInv, TypeOK
  <1>6. QED
    BY <1>1, <1>2, <1>3, <1>4, <1>5

LEMMA PublishMessageRInv ==
  ASSUME IInv, RInv, NEW r \in Runner, PublishMessage(r) PROVE RInv'
  <1> USE DEF PublishMessage, rows
  <1>1. PICK e \in Event, ok \in BOOLEAN :
            /\ e \in hand[r] /\ sending[r].of = {}
            /\ status[e] = "processing" /\ attempts[e] < MaxAttempts
            /\ sends[e] = attempts[e] /\ e \notin accepted
            /\ \A s \in Runner \ {r} : e \notin hand[s]
            /\ sending' = [sending EXCEPT ![r] = [of |-> {e}, ok |-> ok]]
            /\ sends' = [sends EXCEPT ![e] = @ + 1]
            /\ accepted' = IF ok THEN accepted \cup {e} ELSE accepted
    BY OneIsSent
  <1>2. \A d \in Event \ {e} :
           sends'[d] = sends[d] /\ (d \in accepted' <=> d \in accepted)
    BY <1>1 DEF IInv, TypeOK
  <1>3. sends'[e] = attempts[e] + 1 /\ (e \in accepted' <=> ok)
    BY <1>1 DEF IInv, TypeOK
  <1>4. \A d \in Event : WaitingOf(d)'
    BY <1>1, <1>2 DEF RInv, WaitingOf
  <1>5. ASSUME NEW s \in Runner PROVE HandOf(s)'
    <2>1. CASE s = r
      <3>1. sending'[r].of = {e} /\ sending'[r].ok = ok
        BY <1>1 DEF IInv, TypeOK
      <3>2. \A d \in hand[r] \ {e} : sends[d] = attempts[d] /\ d \notin accepted /\ d \in Event
        BY <1>1 DEF RInv, HandOf, IInv, TypeOK
      <3>3. QED
        BY <1>2, <1>3, <2>1, <3>1, <3>2 DEF HandOf
    <2>2. CASE s # r
      <3>1. sending'[s] = sending[s] /\ e \notin hand[s] /\ hand[s] \subseteq Event
        BY <1>1, <2>2 DEF IInv, TypeOK
      <3>2. QED
        BY <1>2, <3>1 DEF RInv, HandOf
    <2>3. QED
      BY <2>1, <2>2
  <1>6. AcceptedWasWritten'
    BY <1>1, <1>2 DEF IInv, TypeOK, RInv, AcceptedWasWritten
  <1>7. QED
    BY <1>4, <1>5, <1>6 DEF RInv

\* What Settle does to the row whose call is over: unmarked, it stays as it was.
LEMMA OneIsSettled ==
  ASSUME IInv, RInv, NEW r \in Runner, Settle(r)
  PROVE  \E e \in Event :
            /\ e \in hand[r] /\ status[e] = "processing"
            /\ sending[r].of = {e} /\ sends[e] = attempts[e] + 1
            /\ \A s \in Runner \ {r} : e \notin hand[s]
            /\ hand' = [hand EXCEPT ![r] = @ \ {e}]
            /\ \A d \in Event \ {e} : status'[d] = status[d] /\ attempts'[d] = attempts[d]
            /\ \/ UNCHANGED <<status, attempts>>
               \/ /\ e \in accepted
                  /\ status' = [status EXCEPT ![e] = "published"]
               \/ /\ e \notin accepted /\ sends[e] = MaxAttempts
                  /\ status' = [status EXCEPT ![e] = "dead"]
               \/ /\ e \notin accepted /\ attempts'[e] = sends[e]
                  /\ status' = [status EXCEPT ![e] = "pending"]
  <1> USE DEF Settle
  <1>1. PICK e \in sending[r].of :
          /\ Mark(r, e) \/ UNCHANGED <<status, attempts, due>>
          /\ hand' = [hand EXCEPT ![r] = @ \ {e}]
    OBVIOUS
  <1>2. /\ e \in Event /\ e \in hand[r] /\ status[e] = "processing"
        /\ attempts[e] = fetched[r][e] /\ attempts[e] \in 0 .. MaxAttempts - 1
        /\ \A s \in Runner \ {r} : e \notin hand[s]
        /\ sending[r].of = {e}
    BY <1>1, SendingFields DEF IInv, TypeOK, SendingOf, OneOwner
  <1>3. sends[e] = attempts[e] + 1 /\ (e \in accepted <=> sending[r].ok)
    BY <1>2 DEF RInv, HandOf
  <1>4. \A d \in Event \ {e} : status'[d] = status[d] /\ attempts'[d] = attempts[d]
    BY <1>1, <1>2 DEF IInv, TypeOK, Mark
  <1>5. CASE UNCHANGED <<status, attempts, due>>
    BY <1>1, <1>2, <1>3, <1>4, <1>5
  <1>6. CASE Mark(r, e)
    <2>1. status' = [status EXCEPT ![e] = Outcome(r, e)]
      BY <1>2, <1>6 DEF Mark, IInv, TypeOK
    <2>2. Outcome(r, e) = "pending" => attempts'[e] = attempts[e] + 1
      BY <1>2, <1>6 DEF Mark, IInv, TypeOK
    <2>3. CASE sending[r].ok
      <3>1. Outcome(r, e) = "published"
        BY <2>3 DEF Outcome
      <3>2. QED
        BY <1>1, <1>2, <1>3, <1>4, <2>1, <2>3, <3>1
    <2>4. CASE ~sending[r].ok /\ attempts[e] + 1 >= MaxAttempts
      <3>1. Outcome(r, e) = "dead" /\ sends[e] = MaxAttempts
        BY <1>2, <1>3, <2>4 DEF Outcome, GivesUp
      <3>2. QED
        BY <1>1, <1>2, <1>3, <1>4, <2>1, <2>4, <3>1
    <2>5. CASE ~sending[r].ok /\ ~(attempts[e] + 1 >= MaxAttempts)
      <3>1. Outcome(r, e) = "pending"
        BY <1>2, <2>5 DEF Outcome, GivesUp
      <3>2. QED
        BY <1>1, <1>2, <1>3, <1>4, <2>1, <2>2, <2>5, <3>1
    <2>6. QED
      BY <2>3, <2>4, <2>5
  <1>7. QED
    BY <1>1, <1>5, <1>6

LEMMA SettleRInv == ASSUME IInv, RInv, NEW r \in Runner, Settle(r) PROVE RInv'
  <1> USE DEF Settle, history
  <1>1. PICK e \in Event :
            /\ e \in hand[r] /\ status[e] = "processing"
            /\ sending[r].of = {e} /\ sends[e] = attempts[e] + 1
            /\ \A s \in Runner \ {r} : e \notin hand[s]
            /\ hand' = [hand EXCEPT ![r] = @ \ {e}]
            /\ \A d \in Event \ {e} : status'[d] = status[d] /\ attempts'[d] = attempts[d]
            /\ \/ UNCHANGED <<status, attempts>>
               \/ /\ e \in accepted
                  /\ status' = [status EXCEPT ![e] = "published"]
               \/ /\ e \notin accepted /\ sends[e] = MaxAttempts
                  /\ status' = [status EXCEPT ![e] = "dead"]
               \/ /\ e \notin accepted /\ attempts'[e] = sends[e]
                  /\ status' = [status EXCEPT ![e] = "pending"]
    BY OneIsSettled
  <1>2. WaitingOf(e)'
    BY <1>1 DEF IInv, TypeOK, WaitingOf
  <1>3. \A d \in Event : WaitingOf(d)'
    BY <1>1, <1>2 DEF RInv, WaitingOf
  <1>4. hand'[r] = hand[r] \ {e} /\ \A s \in Runner \ {r} : hand'[s] = hand[s]
    BY <1>1 DEF IInv, TypeOK
  <1>5. ASSUME NEW s \in Runner PROVE HandOf(s)'
    <2>1. \A d \in hand'[s] : d \in hand[s] /\ d # e /\ d \in Event
      BY <1>1, <1>4 DEF IInv, TypeOK
    <2>2. CASE s = r
      <3>1. sending'[r].of = {}
        BY NoMessageType DEF IInv, TypeOK
      <3>2. \A d \in hand'[r] : sends[d] = attempts'[d] /\ d \notin accepted
        BY <1>1, <2>1, <2>2 DEF RInv, HandOf
      <3>3. QED
        BY <2>2, <3>1, <3>2 DEF HandOf
    <2>3. CASE s # r
      <3>1. sending'[s] = sending[s] /\ hand'[s] = hand[s]
        BY <1>4, <2>3 DEF IInv, TypeOK
      <3>2. \A d \in hand[s] : attempts'[d] = attempts[d]
        BY <1>1, <2>1, <3>1
      <3>3. QED
        BY <3>1, <3>2 DEF RInv, HandOf
    <2>4. QED
      BY <2>2, <2>3
  <1>6. \A d \in Event : status'[d] = "none" => status[d] = "none"
    BY <1>1 DEF IInv, TypeOK
  <1>7. AcceptedWasWritten'
    BY <1>6 DEF IInv, TypeOK, RInv, AcceptedWasWritten
  <1>8. QED
    BY <1>3, <1>5, <1>7 DEF RInv

LEMMA DeleteOldRInv == ASSUME IInv, RInv, NEW p \in Process, DeleteOld(p) PROVE RInv'
  <1> USE DEF DeleteOld, runs, history
  <1>1. \A e \in Event : status'[e] \in {status[e], "deleted"}
    OBVIOUS
  <1>2. \A e \in Event : WaitingOf(e)'
    BY <1>1 DEF RInv, WaitingOf
  <1>3. \A r \in Runner : HandOf(r)'
    BY DEF RInv, HandOf
  <1>4. AcceptedWasWritten'
    BY <1>1 DEF IInv, TypeOK, RInv, AcceptedWasWritten
  <1>5. QED
    BY <1>2, <1>3, <1>4 DEF RInv

LEMMA RestartRInv == ASSUME IInv, RInv, NEW p \in Process, Restart(p) PROVE RInv'
  <1> USE DEF Restart, rows, history
  <1>1. \A r \in Runner :
           hand'[r] = {} \/ (hand'[r] = hand[r] /\ sending'[r] = sending[r])
    OBVIOUS
  <1>2. \A r \in Runner : HandOf(r)'
    BY <1>1 DEF RInv, HandOf
  <1>3. QED
    BY <1>2 DEF RInv, WaitingOf, AcceptedWasWritten

LEMMA NextRInv == IInv /\ RInv /\ [Next]_vars => RInv'
  <1> SUFFICES ASSUME IInv, RInv, [Next]_vars PROVE RInv'
    OBVIOUS
  <1>1. ASSUME NEW e \in Event, BecomeDue(e) PROVE RInv'
    BY <1>1 DEF BecomeDue, runs, history, RInv, WaitingOf, HandOf, AcceptedWasWritten
  <1>2. ASSUME NEW p \in Process, SelectOld(p) PROVE RInv'
    BY <1>2 DEF SelectOld, rows, runs, history, RInv, WaitingOf, HandOf, AcceptedWasWritten
  <1>3. CASE UNCHANGED vars
    BY <1>3 DEF vars, rows, runs, history, RInv, WaitingOf, HandOf, AcceptedWasWritten
  <1>4. CASE Next
    BY <1>1, <1>2, <1>4, WriteUserRInv, FetchRInv, PublishMessageRInv, SettleRInv,
       DeleteOldRInv, RestartRInv DEF Next
  <1>5. QED
    BY <1>3, <1>4

-----------------------------------------------------------------------------
(* The refinement.                                                         *)

LEMMA StageIs ==
  ASSUME NEW e \in Event
  PROVE  /\ status[e] = "none" => StageOf[e] = "none"
         /\ status[e] \in {"pending", "processing"} => StageOf[e] = "queued"
         /\ status[e] \in {"published", "deleted"} => StageOf[e] = "delivered"
         /\ status[e] = "dead" => StageOf[e] = "given up"
  BY DEF StageOf, Meaning

\* When one row changes, what is read of it changes and nothing else.
LEMMA OneStage ==
  ASSUME TypeOK, NEW e \in Event, NEW s \in Status,
         status' = [status EXCEPT ![e] = s]
  PROVE  StageOf' = [StageOf EXCEPT ![e] = Meaning(s)]
  BY DEF TypeOK, StageOf

\* A step that leaves what is read of the rows, the calls and the answers alone.
LEMMA NothingIsSeen ==
  ASSUME \A e \in Event : Meaning(status'[e]) = Meaning(status[e]),
         sends' = sends, accepted' = accepted
  PROVE  UNCHANGED Promise!deliveryVars
  BY DEF StageOf, Promise!deliveryVars

LEMMA InitDelivers == Init => Promise!Init
  BY DEF Init, Promise!Init, StageOf, Meaning

LEMMA WriteUserDelivers ==
  ASSUME IInv, NEW e \in Event, WriteUser(e) PROVE Promise!Next
  <1>1. StageOf[e] = "none"
    BY DEF WriteUser, StageOf, Meaning
  <1>2. StageOf' = [StageOf EXCEPT ![e] = "queued"]
    BY OneStage DEF WriteUser, IInv, Status, Meaning
  <1>3. Promise!Record(e)
    BY <1>1, <1>2 DEF WriteUser, history, Promise!Record
  <1>4. QED
    BY <1>3 DEF Promise!Next

LEMMA FetchDelivers ==
  ASSUME IInv, NEW r \in Runner, Fetch(r) PROVE UNCHANGED Promise!deliveryVars
  <1>1. \A e \in Event : Meaning(status'[e]) = Meaning(status[e])
    BY BatchWaits DEF Fetch, Taken, Meaning
  <1>2. QED
    BY <1>1, NothingIsSeen DEF Fetch, history

LEMMA PublishMessageDelivers ==
  ASSUME IInv, RInv, NEW r \in Runner, PublishMessage(r) PROVE Promise!Next
  <1>1. PICK e \in Event, ok \in BOOLEAN :
            /\ status[e] = "processing" /\ attempts[e] < MaxAttempts
            /\ sends[e] = attempts[e] /\ e \notin accepted
            /\ sends' = [sends EXCEPT ![e] = @ + 1]
            /\ accepted' = IF ok THEN accepted \cup {e} ELSE accepted
    BY OneIsSent
  <1>2. StageOf[e] = "queued"
    BY <1>1, StageIs
  <1>3. UNCHANGED StageOf
    BY DEF PublishMessage, rows, StageOf
  <1>4. Promise!Offer(e)
    BY <1>1, <1>2, <1>3 DEF Promise!Offer
  <1>5. QED
    BY <1>4 DEF Promise!Next

LEMMA SettleDelivers ==
  ASSUME IInv, RInv, NEW r \in Runner, Settle(r)
  PROVE  Promise!Next \/ UNCHANGED Promise!deliveryVars
  <1>1. PICK e \in Event :
            /\ status[e] = "processing"
            /\ \/ UNCHANGED <<status, attempts>>
               \/ /\ e \in accepted
                  /\ status' = [status EXCEPT ![e] = "published"]
               \/ /\ e \notin accepted /\ sends[e] = MaxAttempts
                  /\ status' = [status EXCEPT ![e] = "dead"]
               \/ /\ e \notin accepted /\ attempts'[e] = sends[e]
                  /\ status' = [status EXCEPT ![e] = "pending"]
    BY OneIsSettled
  <1>2. StageOf[e] = "queued"
    BY <1>1, StageIs
  <1>3. sends' = sends /\ accepted' = accepted
    BY DEF Settle, history
  <1>4. CASE UNCHANGED status
    BY <1>3, <1>4, NothingIsSeen
  <1>5. CASE e \in accepted /\ status' = [status EXCEPT ![e] = "published"]
    <2>1. StageOf' = [StageOf EXCEPT ![e] = "delivered"]
      BY <1>5, OneStage DEF IInv, Status, Meaning
    <2>2. Promise!Report(e)
      BY <1>2, <1>3, <1>5, <2>1 DEF Promise!Report
    <2>3. QED
      BY <2>2 DEF Promise!Next
  <1>6. CASE /\ e \notin accepted /\ sends[e] = MaxAttempts
             /\ status' = [status EXCEPT ![e] = "dead"]
    <2>1. StageOf' = [StageOf EXCEPT ![e] = "given up"]
      BY <1>6, OneStage DEF IInv, Status, Meaning
    <2>2. Promise!GiveUp(e)
      BY <1>2, <1>3, <1>6, <2>1 DEF Promise!GiveUp
    <2>3. QED
      BY <2>2 DEF Promise!Next
  <1>7. CASE status' = [status EXCEPT ![e] = "pending"]
    <2>1. \A d \in Event : Meaning(status'[d]) = Meaning(status[d])
      BY <1>1, <1>7 DEF IInv, TypeOK, Meaning
    <2>2. QED
      BY <1>3, <2>1, NothingIsSeen
  <1>8. QED
    BY <1>1, <1>4, <1>5, <1>6, <1>7

LEMMA DeleteOldDelivers ==
  ASSUME IInv, NEW p \in Process, DeleteOld(p) PROVE UNCHANGED Promise!deliveryVars
  <1>1. \A e \in chosen[p] : status[e] \in {"published", "deleted"}
    BY DEF IInv, ChosenOf
  <1>2. \A e \in Event : Meaning(status'[e]) = Meaning(status[e])
    BY <1>1 DEF DeleteOld, Meaning
  <1>3. QED
    BY <1>2, NothingIsSeen DEF DeleteOld, history

LEMMA NextDelivers ==
  IInv /\ RInv /\ [Next]_vars => [Promise!Next]_Promise!deliveryVars
  <1> SUFFICES ASSUME IInv, RInv, [Next]_vars
               PROVE  Promise!Next \/ UNCHANGED Promise!deliveryVars
    OBVIOUS
  <1>1. ASSUME UNCHANGED status, UNCHANGED history PROVE UNCHANGED Promise!deliveryVars
    BY <1>1, NothingIsSeen DEF history
  <1>2. ASSUME NEW e \in Event, BecomeDue(e) PROVE UNCHANGED Promise!deliveryVars
    BY <1>1, <1>2 DEF BecomeDue
  <1>3. ASSUME NEW p \in Process, SelectOld(p) \/ Restart(p)
        PROVE  UNCHANGED Promise!deliveryVars
    BY <1>1, <1>3 DEF SelectOld, Restart, rows
  <1>4. CASE UNCHANGED vars
    BY <1>1, <1>4 DEF vars, rows
  <1>5. CASE Next
    BY <1>2, <1>3, <1>5, WriteUserDelivers, FetchDelivers, PublishMessageDelivers,
       SettleDelivers, DeleteOldDelivers DEF Next
  <1>6. QED
    BY <1>4, <1>5

\* Every behaviour of the outbox is one that Delivery allows: an event is offered at
\* most MaxAttempts times, never again once taken, called delivered only when it was
\* taken and given up only when it was refused each time.
THEOREM OutboxDelivers == Spec => ImplementsDelivery
  <1>1. IInv /\ RInv /\ [Next]_vars => IInv' /\ RInv'
    BY NextInv, NextRInv
  <1>2. Init => IInv /\ RInv
    BY InitInv, InitRInv
  <1>3. QED
    BY <1>1, <1>2, InitDelivers, NextDelivers, PTL DEF Spec, ImplementsDelivery, Promise!Spec
=============================================================================
