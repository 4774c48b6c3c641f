----------------------------- MODULE MCBoardHub -----------------------------
(* An instance of BoardHub for TLC: two instances of the service; two tabs   *)
(* of ann, one of them open from the start; two changes by bob.              *)
EXTENDS BoardHub, TLC

CONSTANTS n1, n2, e1, e2, c1, c2, ann, bob

MCUserOf == e1 :> bob @@ e2 :> bob @@ c1 :> ann @@ c2 :> ann
\* bob's changes are made at n1; ann's tabs are one at each instance or both at
\* the other one.
Tabs == [{c1, c2} -> Node]
MCPlacements ==
    {e1 :> n1 @@ e2 :> n1 @@ tabs : tabs \in {f \in Tabs : n2 \in Range(f)}}
Symmetry == Permutations(Change)
=============================================================================
