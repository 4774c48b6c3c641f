---------------------------- MODULE MCBoardTasks -----------------------------
(* TaskBoard in two scenarios: each combines the operations that disturb     *)
(* each other, and together they take every action.                          *)
EXTENDS MCTaskBoard, TaskBoardHistory

\* Edits of one task, the first of the column, of which two begin at version 1.
Edit(o) == o.task = t1 /\ o.kind \in {"update", "delete"} /\ o.patch \notin Moves
\* Changes of the order and of the columns, without edits.
Rearrangement(o) ==
    /\ o.kind = "update" => o.expected = 0 /\ o.patch \in Moves
    /\ o.kind = "create" => o.patch.title = a

\* The requests of a run all belong to one scenario.
OneScenario ==
    LET asked == {op'[r] : r \in {q \in Req : pc'[q] # "idle"}} IN
    \/ tasks[t2].pos = 1 /\ \A o \in asked : Edit(o)
    \/ \A o \in asked : Rearrangement(o)
===============================================================================
