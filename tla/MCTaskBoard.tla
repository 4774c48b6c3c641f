----------------------------- MODULE MCTaskBoard -----------------------------
(* Instances of TaskBoard for TLC.                                           *)
EXTENDS TaskBoard, TLC

CONSTANTS t1, t2, t3, r1, r2, r3, a, b, todo, done

RequestSymmetry == Permutations(Req)

\* PATCH bodies: a field, a move, a move together with a field, and the
\* completion flag both ways.
Plain == [title |-> Keep, status |-> Keep, completed |-> "keep"]
EditsAndMoves == {[Plain EXCEPT !.title = b],
                  [Plain EXCEPT !.title = a, !.status = done],
                  [Plain EXCEPT !.status = todo, !.completed = "clear"],
                  [Plain EXCEPT !.completed = "set"]}
Moves == {[Plain EXCEPT !.status = done]}
AllPatches == EditsAndMoves \cup Moves
===============================================================================
