-------------------------- MODULE TaskBoardHistory --------------------------
(* TaskBoard implements TaskHistory: the refinement mapping, and the         *)
(* invariant that its proof needs on top of IInv.                            *)
EXTENDS TaskBoard

ContentOf(row) == [title |-> row.title, status |-> row.status, pos |-> row.pos,
                   completed |-> row.completed]

\* The row that was committed as version v of task t.
RowAt(t, v) == CHOOSE x \in committed[t] : x.state = "live" /\ x.version = v
HistoryMap == [t \in Task |-> [v \in 1 .. tasks[t].version |-> ContentOf(RowAt(t, v))]]

\* A request has taken effect when its statement, or its transaction, is committed.
StageOf(r) ==
    CASE pc[r] = "idle" -> "none"
      [] pc[r] \in {"begin", "read", "ready", "conflict", "moving"} -> "asked"
      [] pc[r] \in {"written", "moved"} -> "applied"
      [] pc[r] = "done" /\ reply[r] = 200 -> "granted"
      [] pc[r] = "done" /\ reply[r] # 200 -> "refused"
      [] pc[r] = "lost" -> "lost"

StageMap == [r \in Req |-> StageOf(r)]

GoneTasks == {t \in Task : tasks[t].state = "deleted"}
ShownAs(s) == [task |-> s[1], version |-> s[2].version, content |-> ContentOf(s[2])]
ShownMap == {ShownAs(s) : s \in told}

Promise ==
    INSTANCE TaskHistory WITH
        Demand <- Op,
        history <- HistoryMap,
        gone <- GoneTasks,
        asked <- op,
        stage <- StageMap,
        shown <- ShownMap

\* Each statement of each request, whatever the others do between two of them, is a
\* step that the promise allows, or none.
ImplementsHistory == Promise!Spec

-----------------------------------------------------------------------------
\* No version is left out, and only a reorder reads its rows back.
CompleteOf(t) ==
    \A v \in 1 .. tasks[t].version : \E x \in committed[t] : x.state = "live" /\ x.version = v
StandsAt(r) == pc[r] = "moved" => op[r].kind = "reorder"

HistoryInv == (\A t \in Task : CompleteOf(t)) /\ \A r \in Req : StandsAt(r)
=============================================================================
