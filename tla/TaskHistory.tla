---------------------------- MODULE TaskHistory ----------------------------
(***************************************************************************)
(* What task-service promises about the tasks of a board, whatever its     *)
(* requests read, compute and write between each other's statements: a     *)
(* request takes effect at one moment between its arrival and its answer,  *)
(* or not at all.  A PATCH with If-Match then changes the newest content   *)
(* of its task, in the fields that it names; one without may undo what was *)
(* written since the content that it started from.  A request that is      *)
(* refused changed nothing, but for a reorder of which a task has gone     *)
(* since.                                                                  *)
(*                                                                         *)
(* The history of a task is what it contained; its version is the number   *)
(* of the newest content.  A request may stay unanswered for ever.         *)
(***************************************************************************)
EXTENDS Integers, Sequences

CONSTANTS Task, Req, Column, Done, Keep, Demand

VARIABLES
    history, \* history[t]: the contents of task t, one after the other
    gone,    \* the tasks that are deleted
    asked,   \* asked[r]: what request r asks for
    stage,   \* stage[r]: what has become of it
    shown    \* versions with their contents, as clients were told of them

historyVars == <<history, gone, asked, stage, shown>>

There(t) == history[t] # <<>> /\ t \notin gone
Newest(t) == history[t][Len(history[t])]

\* The tasks of S get a content, and nothing else does.
Added(t) == history'[t][Len(history'[t])]
Grow(S) ==
    history' = [t \in Task |-> IF t \in S THEN Append(history[t], Added(t)) ELSE history[t]]

\* Content d is c with the fields that the patch names; in another column it has
\* whichever place was the end.
IsPatched(d, c, patch) ==
    /\ d.title = IF patch.title = Keep THEN c.title ELSE patch.title
    /\ d.status = IF patch.status = Keep THEN c.status ELSE patch.status
    /\ d.status = c.status => d.pos = c.pos
    /\ d.completed <=> \/ patch.completed = "set"
                       \/ patch.completed = "keep" /\ (c.completed \/ d.status = Done)

Init ==
    /\ \A t \in Task : Len(history[t]) <= 1
    /\ gone = {}
    /\ asked \in [Req -> Demand]
    /\ stage = [r \in Req |-> "none"]
    /\ shown = {}

Go(r, from, to) == stage[r] \in from /\ stage' = [stage EXCEPT ![r] = to]

Ask(r) ==
    /\ Go(r, {"none"}, "asked")
    /\ asked' \in [Req -> Demand] /\ \A q \in Req \ {r} : asked'[q] = asked[q]
    /\ UNCHANGED <<history, gone, shown>>

Create(r) ==
    LET t == asked[r].task IN
    /\ asked[r].kind = "create" /\ history[t] = <<>>
    /\ Grow({t}) /\ UNCHANGED gone
    /\ Added(t).title = asked[r].patch.title /\ Added(t).status = asked[r].column
    /\ Added(t).completed <=> asked[r].column = Done

Update(r) ==
    LET t == asked[r].task IN
    /\ asked[r].kind = "update" /\ There(t)
    /\ Grow({t}) /\ UNCHANGED gone
    /\ \E v \in DOMAIN history[t] :
          /\ asked[r].expected # 0 => v = asked[r].expected /\ v = Len(history[t])
          /\ IsPatched(Added(t), history[t][v], asked[r].patch)

Delete(r) ==
    /\ asked[r].kind = "delete" /\ There(asked[r].task)
    /\ gone' = gone \cup {asked[r].task} /\ UNCHANGED history

Reorder(r) ==
    LET order == asked[r].order IN
    /\ asked[r].kind = "reorder"
    /\ Grow({order[i] : i \in DOMAIN order}) /\ UNCHANGED gone
    /\ \A i \in DOMAIN order :
          /\ There(order[i]) /\ Newest(order[i]).status = asked[r].column
          /\ Added(order[i]) = [Newest(order[i]) EXCEPT !.pos = i - 1]

DropColumn(r) == asked[r].kind = "dropColumn" /\ UNCHANGED <<history, gone>>

Apply(r) ==
    /\ Go(r, {"asked"}, "applied")
    /\ Create(r) \/ Update(r) \/ Delete(r) \/ Reorder(r) \/ DropColumn(r)
    /\ UNCHANGED <<asked, shown>>

\* The answer, and the event: whoever is told of a version is told its content.
Answer(r, from, to) ==
    /\ Go(r, from, to)
    /\ shown \subseteq shown'
    /\ \A s \in shown' \ shown :
          s.version \in DOMAIN history[s.task] /\ s.content = history[s.task][s.version]
    /\ UNCHANGED <<history, gone, asked>>

Grant(r) == Answer(r, {"applied"}, "granted")
Refuse(r) == \/ Answer(r, {"asked"}, "refused")
             \/ asked[r].kind = "reorder" /\ Answer(r, {"applied"}, "refused")
Lose(r) == Answer(r, {"asked", "applied"}, "lost") /\ UNCHANGED shown

Next == \E r \in Req : Ask(r) \/ Apply(r) \/ Grant(r) \/ Refuse(r) \/ Lose(r)

Spec == Init /\ [][Next]_historyVars
=============================================================================
