------------------------------ MODULE MCOutbox ------------------------------
(* An instance of Outbox for TLC: two replicas with their loops, and a flush *)
(* requested at the first one.                                               *)
EXTENDS OutboxDelivery, TLC

CONSTANTS e1, e2, p1, p2, loop1, loop2, flush1

MCHostOf == loop1 :> p1 @@ flush1 :> p1 @@ loop2 :> p2
=============================================================================
