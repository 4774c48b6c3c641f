------------------------------ MODULE Delivery ------------------------------
(***************************************************************************)
(* What an outbox promises about the events that are recorded in it,       *)
(* whatever becomes of rows, batches, replicas and links: the broker is    *)
(* offered a recorded event again and again until it takes it, once it did *)
(* never again, and at most MaxAttempts times; "delivered" is said of an   *)
(* event that was taken, "given up" of one that was refused each time.     *)
(* An event may stay queued for ever.                                      *)
(***************************************************************************)
EXTENDS Naturals

CONSTANTS Event, MaxAttempts

VARIABLES
    stage,   \* stage[e]: what may be read of the event
    calls,   \* calls[e]: how often the broker was offered it
    taken    \* the events that the broker took

deliveryVars == <<stage, calls, taken>>

Init ==
    /\ stage = [e \in Event |-> "none"]
    /\ calls = [e \in Event |-> 0]
    /\ taken = {}

Record(e) ==
    /\ stage[e] = "none"
    /\ stage' = [stage EXCEPT ![e] = "queued"]
    /\ UNCHANGED <<calls, taken>>

Offer(e) ==
    /\ stage[e] = "queued" /\ e \notin taken /\ calls[e] < MaxAttempts
    /\ calls' = [calls EXCEPT ![e] = @ + 1]
    /\ taken' \in {taken, taken \cup {e}}
    /\ UNCHANGED stage

Report(e) ==
    /\ stage[e] = "queued" /\ e \in taken
    /\ stage' = [stage EXCEPT ![e] = "delivered"]
    /\ UNCHANGED <<calls, taken>>

GiveUp(e) ==
    /\ stage[e] = "queued" /\ e \notin taken /\ calls[e] = MaxAttempts
    /\ stage' = [stage EXCEPT ![e] = "given up"]
    /\ UNCHANGED <<calls, taken>>

Next == \E e \in Event : Record(e) \/ Offer(e) \/ Report(e) \/ GiveUp(e)

Spec == Init /\ [][Next]_deliveryVars
=============================================================================
