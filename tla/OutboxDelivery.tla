--------------------------- MODULE OutboxDelivery ---------------------------
(* The outbox implements Delivery: the refinement mapping, and the invariant *)
(* that its proof needs on top of IInv.                                      *)
EXTENDS Outbox

\* What the row of an event means for whoever recorded it: a row that waits, and
\* one that is being processed or was left behind, is queued; the cleaner hides
\* nothing.
Meaning(s) ==
    IF s \in {"pending", "processing"} THEN "queued"
    ELSE IF s \in {"published", "deleted"} THEN "delivered"
    ELSE IF s = "dead" THEN "given up" ELSE "none"
StageOf == [e \in Event |-> Meaning(status[e])]

Promise == INSTANCE Delivery WITH stage <- StageOf, calls <- sends, taken <- accepted

\* Every step of the outbox (RunOnce of several replicas and flushes, the cleaner, a
\* crash, a mark that fails) is a step that the promise allows, or none.
ImplementsDelivery == Promise!Spec

-----------------------------------------------------------------------------
\* A row that waits was offered as often as it counts, and was never taken.
WaitingOf(e) ==
    status[e] = "pending" => sends[e] = attempts[e] /\ e \notin accepted

\* So was a row in a hand that has not been sent yet; the one that is being sent
\* was offered once more, and taken if and only if the run knows it.
HandOf(r) ==
    \A e \in hand[r] :
        IF e \in sending[r].of
        THEN sends[e] = attempts[e] + 1 /\ (e \in accepted <=> sending[r].ok)
        ELSE sends[e] = attempts[e] /\ e \notin accepted

\* Only what was written can have been taken.
AcceptedWasWritten == \A e \in accepted : status[e] # "none"

RInv ==
    /\ \A e \in Event : WaitingOf(e)
    /\ \A r \in Runner : HandOf(r)
    /\ AcceptedWasWritten
=============================================================================
