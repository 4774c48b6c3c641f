-------------------------- MODULE SessionsRotation --------------------------
(* Sessions implements TokenRotation: the refinement mapping.                *)
EXTENDS Sessions

TokensOf == [l \in Pair |-> {n \in stored : login[n] = l}]

\* A call takes effect when its transaction, or the statement of a login, is
\* committed.
Meaning(pc) == IF pc = "idle" THEN "none"
               ELSE IF pc = "granted" \/ pc = "refused" THEN pc ELSE "asked"
StageOf == [k \in Call |-> Meaning(call[k].pc)]
OldOf == [k \in Call |-> call[k].old]
GotOf == [k \in Call |-> IF call[k].pc = "granted" THEN call[k].new ELSE 0]

Promise ==
    INSTANCE TokenRotation WITH
        Login <- Pair, Token <- Pair, tokens <- TokensOf,
        stage <- StageOf, old <- OldOf, got <- GotOf

\* Every statement of a login or a refresh, and whatever the browser does, is a step
\* that the promise allows, or none.
ImplementsRotation == Promise!Spec

-----------------------------------------------------------------------------
\* What the proof needs on top of the other invariants: every pair has a login.
LoginsHaveNumbers == \A n \in 1 .. made : login[n] # 0
=============================================================================
