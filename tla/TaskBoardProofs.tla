--------------------------- MODULE TaskBoardProofs ---------------------------
(***************************************************************************)
(* Proofs about TaskBoard for every set of tasks, columns and requests.    *)
(***************************************************************************)
EXTENDS TaskBoardHistory, FiniteSetTheorems, SequenceTheorems, TLAPS

USE BoardAssumption

-----------------------------------------------------------------------------
(* Types.                                                                  *)

LEMMA RequestType ==
  ASSUME NEW k \in OpKind, NEW t \in Task, NEW e \in Nat, NEW p \in Patch,
         NEW c \in Column, NEW o \in Seq(Task)
  PROVE  Request(k, t, e, p, c, o) \in Op
  BY DEF Request, Op

LEMMA TitleOnlyType == \A v \in Value \cup {Keep} : TitleOnly(v) \in Patch
  BY DEF TitleOnly, Patch

LEMMA LiveRowType ==
  ASSUME NEW title \in Value \cup {Keep}, NEW status \in Column, NEW pos \in Int,
         NEW completed \in BOOLEAN, NEW version \in Nat
  PROVE  LiveRow(title, status, pos, completed, version) \in Row
  BY DEF LiveRow, Row

LEMMA RowFields ==
  ASSUME NEW row \in Row
  PROVE  /\ row.title \in Value \cup {Keep}
         /\ row.status \in Column
         /\ row.pos \in Int
         /\ row.completed \in BOOLEAN
         /\ row.version \in Nat
  BY DEF Row

LEMMA AnyTaskType == AnyTask \in Task
  BY DEF AnyTask

LEMMA NoOpType == NoOp \in Op
  <1>1. <<>> \in Seq(Task)
    OBVIOUS
  <1>2. "update" \in OpKind
    BY DEF OpKind
  <1>3. QED
    BY <1>1, <1>2, RequestType, TitleOnlyType, AnyTaskType DEF NoOp

LEMMA AbsentType == Absent \in Row
  BY DEF Absent, Row

LEMMA InitType == Init => TypeOK
  <1> SUFFICES ASSUME Init PROVE TypeOK
    OBVIOUS
  <1>1. tasks \in [Task -> Row]
    <2>1. PICK place \in [Existing -> 0 .. (Cardinality(Existing) - 1)] :
            tasks = [t \in Task |->
                        IF t \in Existing
                        THEN LiveRow(CHOOSE v \in Value : TRUE, Home, place[t],
                                     Home = Done, 1)
                        ELSE Absent]
      BY DEF Init
    <2>2. \A t \in Existing : place[t] \in Int
      OBVIOUS
    <2>3. (CHOOSE v \in Value : TRUE) \in Value
      OBVIOUS
    <2>4. \A t \in Existing :
             LiveRow(CHOOSE v \in Value : TRUE, Home, place[t], Home = Done, 1) \in Row
      BY <2>2, <2>3, LiveRowType
    <2>5. QED
      BY <2>1, <2>4, AbsentType
  <1>2. columns \subseteq Column /\ rowLock \in [Task -> Req \cup {NoReq}]
    BY DEF Init
  <1>3. pc \in [Req -> PC] /\ op \in [Req -> Op] /\ snap \in [Req -> Row]
    BY NoOpType, AbsentType DEF Init, PC
  <1>4. maxPos \in [Req -> Int] /\ moved \in [Req -> Nat] /\ reply \in [Req -> Code]
    BY DEF Init, Code
  <1>5. told \subseteq Task \X Row /\ committed \in [Task -> SUBSET Row]
    BY <1>1, SMTT(30) DEF Init
  <1>6. QED
    BY <1>1, <1>2, <1>3, <1>4, <1>5 DEF TypeOK

\* The row a PATCH computes is a row.
LEMMA PatchedType ==
  ASSUME NEW row \in Row, NEW p \in Patch, NEW last \in Int, NEW version \in Nat
  PROVE  Patched(row, p, last, version) \in Row
  <1> DEFINE status == IF p.status = Keep THEN row.status ELSE p.status
             title == IF p.title = Keep THEN row.title ELSE p.title
             pos == IF MovesColumn(row, p) THEN last + 1 ELSE row.pos
             completed == \/ p.completed = "set"
                          \/ p.completed = "keep" /\ (row.completed \/ status = Done)
  <1>1. status \in Column /\ title \in Value \cup {Keep} /\ pos \in Int
    BY RowFields DEF Patch
  <1>2. completed \in BOOLEAN
    OBVIOUS
  <1> HIDE DEF status, title, pos, completed
  <1>3. LiveRow(title, status, pos, completed, version) \in Row
    BY <1>1, <1>2, LiveRowType
  <1>4. QED
    BY <1>3 DEF Patched, status, title, pos, completed

\* A client's order of a set of tasks is a sequence without repetition.
LEMMA OrdersType ==
  ASSUME NEW S \in SUBSET Task, NEW s \in Orders(S)
  PROVE  /\ s \in Seq(Task)
         /\ \A i, j \in DOMAIN s : s[i] = s[j] => i = j
  <1>1. Cardinality(S) \in Nat
    BY FS_Subset, FS_CardinalityType
  <1>2. QED
    BY <1>1 DEF Orders

\* What a request that has just arrived looks like.
Fresh(o) ==
    /\ o \in Op
    /\ o.kind = "update" => /\ tasks[o.task].state # "absent"
                            /\ o.expected <= tasks[o.task].version
    /\ o.kind = "create" => /\ tasks[o.task].state = "absent"
                            /\ \A q \in Req : op[q].kind = "create" => op[q].task # o.task
    /\ \A i, j \in DOMAIN o.order : o.order[i] = o.order[j] => i = j

\* Every request that arrives is well formed, and the rest is untouched.
LEMMA StartEffect ==
  ASSUME TypeOK, NEW r \in Req, Start(r)
  PROVE  /\ pc[r] = "idle"
         /\ pc' = [pc EXCEPT ![r] = "begin"]
         /\ UNCHANGED <<tasks, columns, rowLock, snap, maxPos, moved, reply, told,
                        committed>>
         /\ \E o \in Op : Fresh(o) /\ op' = [op EXCEPT ![r] = o]
  <1>0. <<>> \in Seq(Task) /\ \A i, j \in DOMAIN <<>> : i = j
    OBVIOUS
  <1>00. TitleOnly(Keep) \in Patch /\ AnyTask \in Task
    BY TitleOnlyType, AnyTaskType
  <1>1. CASE StartUpdate(r)
    <2>1. PICK t \in Task, p \in PatchInputs : \E e \in 0 .. tasks[t].version :
             /\ tasks[t].state # "absent"
             /\ op' = [op EXCEPT ![r] = Request("update", t, e, p, Home, <<>>)]
      BY <1>1 DEF StartUpdate
    <2>2. PICK e \in 0 .. tasks[t].version :
             /\ tasks[t].state # "absent"
             /\ op' = [op EXCEPT ![r] = Request("update", t, e, p, Home, <<>>)]
      BY <2>1
    <2>3. tasks[t].version \in Nat
      BY RowFields DEF TypeOK
    <2> DEFINE o == Request("update", t, e, p, Home, <<>>)
    <2>31. e \in Nat /\ e <= tasks[t].version
      BY <2>3
    <2>32. p \in Patch /\ Home \in Column
      OBVIOUS
    <2>4. o \in Op
      BY <1>0, <2>31, <2>32, RequestType DEF OpKind
    <2>5. Fresh(o)
      BY <1>0, <2>2, <2>31, <2>4 DEF Fresh, Request
    <2>6. QED
      BY <1>1, <2>2, <2>4, <2>5 DEF StartUpdate, Goto
  <1>2. CASE StartCreate(r)
    <2>1. PICK t \in Task, v \in Value, c \in Column :
             /\ tasks[t].state = "absent"
             /\ \A q \in Req : ~(op[q].kind = "create" /\ op[q].task = t)
             /\ op' = [op EXCEPT ![r] = Request("create", t, 0, TitleOnly(v), c, <<>>)]
      BY <1>2 DEF StartCreate
    <2> DEFINE o == Request("create", t, 0, TitleOnly(v), c, <<>>)
    <2>2. o \in Op
      BY <1>0, RequestType, TitleOnlyType DEF OpKind
    <2>3. Fresh(o)
      BY <1>0, <2>1, <2>2 DEF Fresh, Request
    <2>4. QED
      BY <1>2, <2>1, <2>2, <2>3 DEF StartCreate, Goto
  <1>3. CASE StartDelete(r)
    <2>1. PICK t \in Task :
             op' = [op EXCEPT ![r] = Request("delete", t, 0, TitleOnly(Keep), Home, <<>>)]
      BY <1>3 DEF StartDelete
    <2> DEFINE o == Request("delete", t, 0, TitleOnly(Keep), Home, <<>>)
    <2>2. o \in Op
      BY <1>0, <1>00, RequestType DEF OpKind
    <2>3. Fresh(o)
      BY <1>0, <2>2 DEF Fresh, Request
    <2>4. QED
      BY <1>3, <2>1, <2>2, <2>3 DEF StartDelete, Goto
  <1>4. CASE StartReorder(r)
    <2>1. PICK c \in Column, S \in SUBSET Task :
             \E s \in Orders(S) :
                op' = [op EXCEPT ![r] =
                         Request("reorder", AnyTask, 0, TitleOnly(Keep), c, s)]
      BY <1>4 DEF StartReorder
    <2>2. PICK s \in Orders(S) :
                op' = [op EXCEPT ![r] =
                         Request("reorder", AnyTask, 0, TitleOnly(Keep), c, s)]
      BY <2>1
    <2>3. /\ s \in Seq(Task)
          /\ \A i, j \in DOMAIN s : s[i] = s[j] => i = j
      BY OrdersType
    <2> DEFINE o == Request("reorder", AnyTask, 0, TitleOnly(Keep), c, s)
    <2>4. o \in Op
      BY <1>00, <2>3, RequestType DEF OpKind
    <2>5. Fresh(o)
      BY <2>3, <2>4 DEF Fresh, Request
    <2>6. QED
      BY <1>4, <2>2, <2>4, <2>5 DEF StartReorder, Goto
  <1>5. CASE StartDropColumn(r)
    <2>1. PICK c \in Column :
             op' = [op EXCEPT ![r] =
                      Request("dropColumn", AnyTask, 0, TitleOnly(Keep), c, <<>>)]
      BY <1>5 DEF StartDropColumn
    <2> DEFINE o == Request("dropColumn", AnyTask, 0, TitleOnly(Keep), c, <<>>)
    <2>2. o \in Op
      BY <1>0, <1>00, RequestType DEF OpKind
    <2>3. Fresh(o)
      BY <1>0, <2>2 DEF Fresh, Request
    <2>4. QED
      BY <1>5, <2>1, <2>2, <2>3 DEF StartDropColumn, Goto
  <1>6. QED
    BY <1>1, <1>2, <1>3, <1>4, <1>5 DEF Start

\* A statement that commits keeps the table and its history well typed.
LEMMA CommitType ==
  ASSUME TypeOK, NEW f \in [Task -> Row], Commit(f)
  PROVE  tasks' \in [Task -> Row] /\ committed' \in [Task -> SUBSET Row]
  BY DEF TypeOK, Commit

LEMMA GotoType ==
  ASSUME TypeOK, NEW r \in Req, NEW label \in PC, Goto(r, label)
  PROVE  pc' \in [Req -> PC]
  BY DEF TypeOK, Goto

LEMMA AnswerType ==
  ASSUME TypeOK, NEW r \in Req, NEW code \in Code, Answer(r, code)
  PROVE  pc' \in [Req -> PC] /\ reply' \in [Req -> Code]
  BY DEF TypeOK, Answer, Goto, PC

LEMMA MissingRowType == MissingRow \in Code
  BY DEF MissingRow, Code

LEMMA ReleaseType ==
  ASSUME TypeOK, NEW r \in Req, Release(r)
  PROVE  rowLock' \in [Task -> Req \cup {NoReq}]
  BY DEF TypeOK, Release

LEMMA OpFields ==
  ASSUME NEW o \in Op
  PROVE  /\ o.kind \in OpKind /\ o.task \in Task /\ o.expected \in Nat
         /\ o.patch \in Patch /\ o.column \in Column /\ o.order \in Seq(Task)
  BY DEF Op

LEMMA StepType ==
  ASSUME TypeOK, NEW r \in Req, Step(r)
  PROVE  TypeOK'
  <1> DEFINE t == op[r].task
  <1>1. /\ op[r] \in Op /\ snap[r] \in Row /\ maxPos[r] \in Int /\ moved[r] \in Nat
        /\ t \in Task /\ op[r].order \in Seq(Task) /\ op[r].patch \in Patch
        /\ op[r].column \in Column
        /\ \A u \in Task : tasks[u] \in Row
    BY OpFields DEF TypeOK
  <1>2. CASE ReadTask(r)
    <2>1. CASE Live(t)
      <3>1. /\ snap' = [snap EXCEPT ![r] = tasks[t]]
            /\ \E label \in {"read", "ready"} : Goto(r, label)
            /\ UNCHANGED reply
        BY <1>2, <2>1 DEF ReadTask
      <3>2. snap' \in [Req -> Row] /\ pc' \in [Req -> PC]
        BY <1>1, <3>1 DEF TypeOK, Goto, PC
      <3>3. QED
        BY <1>2, <3>1, <3>2 DEF TypeOK, ReadTask
    <2>2. CASE ~Live(t)
      <3>1. pc' \in [Req -> PC] /\ reply' \in [Req -> Code]
        BY <1>2, <2>2, MissingRowType, AnswerType DEF ReadTask
      <3>2. QED
        BY <1>2, <2>2, <3>1 DEF TypeOK, ReadTask
    <2>3. QED
      BY <2>1, <2>2
  <1>3. CASE ReadEndOfColumn(r)
    <2>1. PICK c : ReadMax(r, c)
      BY <1>3 DEF ReadEndOfColumn
    <2>2. \A u \in Task : tasks[u].pos \in Int
      BY <1>1, RowFields
    <2>3. maxPos' \in [Req -> Int]
      BY <2>1, <2>2 DEF TypeOK, ReadMax, InColumn
    <2>4. pc' \in [Req -> PC]
      BY <1>3, GotoType DEF ReadEndOfColumn, PC
    <2>5. QED
      BY <1>3, <2>3, <2>4 DEF TypeOK, ReadEndOfColumn
  <1>4. CASE RejectAssignees(r)
    <2>1. pc' \in [Req -> PC] /\ reply' \in [Req -> Code]
      BY <1>4, AnswerType DEF RejectAssignees, Code
    <2>2. QED
      BY <1>4, <2>1 DEF TypeOK, RejectAssignees
  <1>5. CASE WriteTask(r)
    <2> DEFINE new == Patched(snap[r], op[r].patch, maxPos[r], NextVersion(r))
    <2>1. new \in Row
      <3>1. NextVersion(r) \in Nat
        BY <1>1, RowFields DEF NextVersion
      <3>2. QED
        BY <1>1, <3>1, PatchedType
    <2>2. CASE Live(t) /\ VersionMatches(r)
      <3>1. Commit([tasks EXCEPT ![t] = new])
        BY <1>5, <2>2 DEF WriteTask
      <3>2. [tasks EXCEPT ![t] = new] \in [Task -> Row]
        BY <1>1, <2>1 DEF TypeOK
      <3>3. tasks' \in [Task -> Row] /\ committed' \in [Task -> SUBSET Row]
        BY <3>1, <3>2, CommitType
      <3>4. snap' \in [Req -> Row]
        BY <1>5, <2>1, <2>2 DEF WriteTask, TypeOK
      <3>5. pc' \in [Req -> PC]
        BY <1>5, <2>2, GotoType DEF WriteTask, PC
      <3>6. QED
        BY <1>5, <2>2, <3>3, <3>4, <3>5 DEF TypeOK, WriteTask
    <2>3. CASE ~(Live(t) /\ VersionMatches(r))
      <3>1. pc' \in [Req -> PC] /\ reply' \in [Req -> Code]
        BY <1>5, <2>3 DEF WriteTask, TypeOK, Answer, Goto, PC, Code
      <3>2. QED
        BY <1>5, <2>3, <3>1 DEF TypeOK, WriteTask
    <2>4. QED
      BY <2>2, <2>3
  <1>6. CASE AnswerConflict(r)
    <2>1. CASE Live(t)
      <3>1. pc' \in [Req -> PC] /\ reply' \in [Req -> Code]
        BY <1>6, <2>1, AnswerType DEF AnswerConflict, Code
      <3>2. snap' \in [Req -> Row]
        BY <1>1, <1>6, <2>1 DEF TypeOK, AnswerConflict
      <3>3. told' \subseteq Task \X Row
        BY <1>1, <1>6, <2>1 DEF TypeOK, AnswerConflict
      <3>4. QED
        BY <1>6, <3>1, <3>2, <3>3 DEF TypeOK, AnswerConflict
    <2>2. CASE ~Live(t)
      <3>1. pc' \in [Req -> PC] /\ reply' \in [Req -> Code]
        BY <1>6, <2>2, MissingRowType, AnswerType DEF AnswerConflict
      <3>2. QED
        BY <1>6, <2>2, <3>1 DEF TypeOK, AnswerConflict
    <2>3. QED
      BY <2>1, <2>2
  <1>7. CASE InsertTask(r)
    <2> DEFINE new == LiveRow(op[r].patch.title, op[r].column, maxPos[r] + 1,
                              op[r].column = Done, 1)
    <2>0. /\ op[r].patch.title \in Value \cup {Keep} /\ maxPos[r] + 1 \in Int
          /\ (op[r].column = Done) \in BOOLEAN /\ 1 \in Nat
      BY <1>1 DEF Patch
    <2>1. new \in Row
      BY <1>1, <2>0, LiveRowType
    <2>2. [tasks EXCEPT ![t] = new] \in [Task -> Row] /\ Commit([tasks EXCEPT ![t] = new])
      BY <1>1, <1>7, <2>1 DEF TypeOK, InsertTask
    <2>3. tasks' \in [Task -> Row] /\ committed' \in [Task -> SUBSET Row]
      BY <2>2, CommitType
    <2>4. snap' \in [Req -> Row]
      BY <1>7, <2>1 DEF TypeOK, InsertTask
    <2>5. pc' \in [Req -> PC]
      BY <1>7, GotoType DEF InsertTask, PC
    <2>6. QED
      BY <1>7, <2>3, <2>4, <2>5 DEF TypeOK, InsertTask
  <1>8. CASE DeleteTask(r)
    <2>1. pc' \in [Req -> PC] /\ reply' \in [Req -> Code]
      BY <1>8 DEF TypeOK, DeleteTask, Answer, Goto, PC, Code
    <2>2. tasks' \in [Task -> Row] /\ committed' \in [Task -> SUBSET Row]
      <3>1. CASE Live(t)
        <4>1. Deleted(tasks[t]) \in Row
          BY <1>1 DEF Deleted, Row
        <4>2. [tasks EXCEPT ![t] = Deleted(tasks[t])] \in [Task -> Row]
          BY <4>1 DEF TypeOK
        <4>3. Commit([tasks EXCEPT ![t] = Deleted(tasks[t])])
          BY <1>8, <3>1 DEF DeleteTask
        <4>4. QED
          BY <4>2, <4>3, CommitType
      <3>2. CASE ~Live(t)
        BY <1>8, <3>2 DEF DeleteTask, TypeOK
      <3>3. QED
        BY <3>1, <3>2
    <2>3. QED
      BY <1>8, <2>1, <2>2 DEF TypeOK, DeleteTask
  <1>9. CASE ListColumn(r)
    BY <1>9 DEF TypeOK, ListColumn, Answer, Goto, PC, Code
  <1>10. CASE MoveTask(r)
    <2>1. CASE Movable(r, NextMove(r))
      <3>1. rowLock' = [rowLock EXCEPT ![NextMove(r)] = r]
        BY <1>10, <2>1 DEF MoveTask
      <3>2. rowLock' \in [Task -> Req \cup {NoReq}]
        BY <3>1 DEF TypeOK
      <3>3. moved' = [moved EXCEPT ![r] = moved[r] + 1]
        BY <1>10, <2>1 DEF MoveTask
      <3>4. moved' \in [Req -> Nat]
        BY <1>1, <3>3 DEF TypeOK
      <3>5. QED
        BY <1>10, <2>1, <3>2, <3>4 DEF TypeOK, MoveTask
    <2>2. CASE ~Movable(r, NextMove(r))
      <3>1. rowLock' \in [Task -> Req \cup {NoReq}]
        BY <1>10, <2>2, ReleaseType DEF MoveTask
      <3>2. pc' \in [Req -> PC] /\ reply' \in [Req -> Code]
        BY <1>10, <2>2, AnswerType DEF MoveTask, Code
      <3>3. QED
        BY <1>10, <2>2, <3>1, <3>2 DEF TypeOK, MoveTask
    <2>3. QED
      BY <2>1, <2>2
  <1>11. CASE CommitReorder(r)
    <2> DEFINE f == [u \in Task |-> IF u \in Listed(r) THEN Placed(r, u) ELSE tasks[u]]
    <2>1. \A u \in Listed(r) : u \in Task /\ Placed(r, u) \in Row
      <3> SUFFICES ASSUME NEW u \in Listed(r)
                   PROVE  u \in Task /\ Placed(r, u) \in Row
        OBVIOUS
      <3>1. u \in Task /\ \E i \in DOMAIN op[r].order : op[r].order[i] = u
        BY <1>1 DEF Listed
      <3>2. PlaceOf(r, u) \in Int
        BY <1>1, <3>1 DEF PlaceOf
      <3>3. Placed(r, u) \in Row
        <4>1. /\ tasks[u].title \in Value \cup {Keep} /\ tasks[u].status \in Column
              /\ tasks[u].completed \in BOOLEAN /\ tasks[u].version + 1 \in Nat
          BY <1>1, <3>1, RowFields
        <4>2. QED
          BY <3>2, <4>1, LiveRowType DEF Placed, Moved
      <3>4. QED
        BY <3>1, <3>3
    <2>2. f \in [Task -> Row]
      BY <1>1, <2>1
    <2>3. Commit(f)
      BY <1>11 DEF CommitReorder
    <2> HIDE DEF f
    <2>4. tasks' \in [Task -> Row] /\ committed' \in [Task -> SUBSET Row]
      BY <2>2, <2>3, CommitType
    <2>5. rowLock' \in [Task -> Req \cup {NoReq}] /\ pc' \in [Req -> PC]
      BY <1>11, ReleaseType, GotoType DEF CommitReorder, PC
    <2>6. QED
      BY <1>11, <2>4, <2>5 DEF TypeOK, CommitReorder
  <1>12. CASE AbortDeadlock(r)
    <2>1. /\ rowLock' \in [Task -> Req \cup {NoReq}]
          /\ pc' \in [Req -> PC] /\ reply' \in [Req -> Code]
      BY <1>12, ReleaseType, AnswerType DEF AbortDeadlock, Code
    <2>2. QED
      BY <1>12, <2>1 DEF TypeOK, AbortDeadlock
  <1>13. CASE ReadOrder(r)
    <2>1. pc' \in [Req -> PC] /\ reply' \in [Req -> Code]
      BY <1>13, MissingRowType DEF TypeOK, ReadOrder, Answer, Goto, PC, Code
    <2>2. told' \subseteq Task \X Row
      <3>1. Listed(r) \subseteq Task
        BY <1>1 DEF Listed
      <3>2. QED
        BY <1>1, <1>13, <3>1 DEF TypeOK, ReadOrder
    <2>3. QED
      BY <1>13, <2>1, <2>2 DEF TypeOK, ReadOrder
  <1>14. CASE ReadColumn(r)
    BY <1>14, MissingRowType DEF TypeOK, ReadColumn, Answer, Goto, PC, Code
  <1>15. CASE CountColumn(r)
    BY <1>15 DEF TypeOK, CountColumn, Answer, Goto, PC, Code
  <1>16. CASE DropColumn(r)
    BY <1>16 DEF TypeOK, DropColumn, Answer, Goto, PC, Code
  <1>17. CASE Publish(r)
    <2>1. pc' \in [Req -> PC] /\ reply' \in [Req -> Code]
      BY <1>17, AnswerType DEF Publish, Code
    <2>2. told' \subseteq Task \X Row
      BY <1>1, <1>17 DEF TypeOK, Publish
    <2>3. QED
      BY <1>17, <2>1, <2>2 DEF TypeOK, Publish
  <1>18. QED
    BY <1>2, <1>3, <1>4, <1>5, <1>6, <1>7, <1>8, <1>9, <1>10, <1>11, <1>12, <1>13,
       <1>14, <1>15, <1>16, <1>17 DEF Step

LEMMA NextType == TypeOK /\ [Next]_vars => TypeOK'
  <1>1. ASSUME TypeOK, NEW r \in Req, Start(r) PROVE TypeOK'
    <2>1. \E o \in Op : op' = [op EXCEPT ![r] = o]
      BY <1>1, StartEffect DEF Fresh
    <2>2. QED
      BY <1>1, <2>1, StartEffect DEF TypeOK, PC
  <1>2. ASSUME TypeOK, NEW r \in Req, Vanish(r) PROVE TypeOK'
    BY <1>2, ReleaseType, GotoType DEF TypeOK, Vanish, PC
  <1>3. ASSUME TypeOK, UNCHANGED vars PROVE TypeOK'
    BY <1>3 DEF TypeOK, vars
  <1>4. QED
    BY <1>1, <1>2, <1>3, StepType DEF Next

\* Every reachable state of every instance is well typed: in particular the
\* positions and versions the handlers compute stay integers and naturals.
THEOREM TypeCorrect == Spec => []TypeOK
  BY InitType, NextType, PTL DEF Spec

-----------------------------------------------------------------------------
(* The safety promises, each of which follows from the inductive invariant  *)
(* IInv.  Its proof looks at a step from three sides: what it does to a row *)
(* and its history (Evolves), what it leaves to the other requests          *)
(* (SparesOthers), and what the request itself holds afterwards.            *)

(* What a step may do to the row of a task.                                *)

Evolves(t) ==
    /\ committed'[t] = committed[t] \cup {tasks'[t]}
    /\ \/ tasks'[t] = tasks[t]
       \/ tasks[t].state = "live" /\ tasks'[t] = Deleted(tasks[t])
       \/ /\ tasks[t].state # "deleted"
          /\ tasks'[t].state = "live"
          /\ tasks'[t].version = tasks[t].version + 1

\* A step of request r leaves the other requests as they are, and the rows that
\* they have locked.
SparesOthers(r) ==
    /\ \A q \in Req \ {r} :
          /\ pc'[q] = pc[q] /\ op'[q] = op[q] /\ snap'[q] = snap[q]
          /\ moved'[q] = moved[q] /\ reply'[q] = reply[q]
    /\ \A t \in Task :
          \/ rowLock'[t] = rowLock[t]
          \/ rowLock[t] \in {NoReq, r} /\ rowLock'[t] \in {NoReq, r}
    /\ \A t \in Task :
          rowLock[t] \in Req \ {r} /\ Live(t) => tasks'[t] = tasks[t]
    /\ \A t \in Task :
          tasks[t].state = "absent" =>
             \/ tasks'[t] = tasks[t]
             \/ pc[r] = "ready" /\ op[r].kind = "create" /\ op[r].task = t

LEMMA SameEvolves ==
  ASSUME IInv, UNCHANGED <<tasks, committed>>, NEW t \in Task
  PROVE  Evolves(t)
  BY DEF IInv, HistoryOf, Evolves

LEMMA CommitEvolves ==
  ASSUME TypeOK, NEW f \in [Task -> Row], Commit(f), NEW t \in Task,
         \/ f[t] = tasks[t]
         \/ tasks[t].state = "live" /\ f[t] = Deleted(tasks[t])
         \/ /\ tasks[t].state # "deleted"
            /\ f[t].state = "live"
            /\ f[t].version = tasks[t].version + 1
  PROVE  Evolves(t)
  BY DEF Commit, Evolves, TypeOK

\* Whatever a step does to a row, its history stays one, grows, and its version
\* does not go back.
LEMMA EvolvesHistory ==
  ASSUME TypeOK, TypeOK', NEW t \in Task, HistoryOf(t), Evolves(t)
  PROVE  /\ HistoryOf(t)'
         /\ committed[t] \subseteq committed'[t]
         /\ tasks[t].version <= tasks'[t].version
  <1>1. /\ tasks[t] \in Row /\ tasks'[t] \in Row
        /\ committed[t] \subseteq Row /\ committed'[t] \subseteq Row
    BY DEF TypeOK
  <1>2. /\ tasks[t].version \in Nat /\ tasks'[t].version \in Nat
        /\ \A x \in committed'[t] : x.version \in Nat
    BY <1>1, RowFields
  <1>3. CASE tasks'[t] = tasks[t]
    <2>1. committed'[t] = committed[t]
      BY <1>3 DEF Evolves, HistoryOf
    <2>2. QED
      BY <1>2, <1>3, <2>1 DEF HistoryOf
  <1>4. CASE tasks[t].state = "live" /\ tasks'[t] = Deleted(tasks[t])
    <2>1. tasks'[t].state = "deleted" /\ tasks'[t].version = tasks[t].version
      BY <1>1, <1>4 DEF Deleted, Row
    <2>2. committed'[t] = committed[t] \cup {tasks'[t]}
      BY DEF Evolves
    <2>3. \A x \in committed'[t] : x.state = "live" => x \in committed[t]
      BY <2>1, <2>2
    <2>4. QED
      BY <1>2, <1>4, <2>1, <2>2, <2>3 DEF HistoryOf
  <1>5. CASE /\ tasks[t].state # "deleted"
             /\ tasks'[t].state = "live"
             /\ tasks'[t].version = tasks[t].version + 1
    <2>1. committed'[t] = committed[t] \cup {tasks'[t]}
      BY DEF Evolves
    <2>2. \A x \in committed[t] : x.state = "live" => x.version < tasks'[t].version
      <3>1. \A x \in committed[t] : x.version \in Nat
        BY <1>1, RowFields
      <3>2. QED
        BY <1>2, <1>5, <3>1 DEF HistoryOf
    <2>3. \A x \in committed'[t] :
             x.state = "live" => 1 <= x.version /\ x.version <= tasks'[t].version
      BY <1>2, <1>5, <2>1, <2>2 DEF HistoryOf
    <2>4. \A x, y \in committed'[t] :
             x.state = "live" /\ y.state = "live" /\ x.version = y.version => x = y
      BY <1>2, <2>1, <2>2 DEF HistoryOf
    <2>5. QED
      BY <1>2, <1>5, <2>1, <2>3, <2>4 DEF HistoryOf
  <1>6. QED
    BY <1>3, <1>4, <1>5 DEF Evolves

-----------------------------------------------------------------------------
\* A reorder that is about to commit holds every row it names, in its column,
\* and names each of them once.
LEMMA OrderIsLocked ==
  ASSUME IInv, NEW r \in Req, pc[r] = "moving", moved[r] = Len(op[r].order)
  PROVE  /\ \A t \in Listed(r) :
               t \in Task /\ rowLock[t] = r /\ t \in InColumn(op[r].column)
         /\ \A i \in DOMAIN op[r].order : PlaceOf(r, op[r].order[i]) = i - 1
  <1>1. op[r].order \in Seq(Task)
    BY OpFields DEF IInv, TypeOK
  <1>2. DOMAIN op[r].order = 1 .. moved[r]
    BY <1>1
  <1>3. OrderOf(r)
    BY DEF IInv
  <1>4. \A t \in Listed(r) :
           t \in Task /\ rowLock[t] = r /\ t \in InColumn(op[r].column)
    BY <1>1, <1>2, <1>3 DEF Listed, OrderOf
  <1>5. \A i \in DOMAIN op[r].order : PlaceOf(r, op[r].order[i]) = i - 1
    <2>1. SUFFICES ASSUME NEW i \in DOMAIN op[r].order
                   PROVE  PlaceOf(r, op[r].order[i]) = i - 1
      OBVIOUS
    <2> DEFINE j == CHOOSE k \in DOMAIN op[r].order : op[r].order[k] = op[r].order[i]
    <2>2. j \in DOMAIN op[r].order /\ op[r].order[j] = op[r].order[i]
      OBVIOUS
    <2>3. j = i
      BY <1>3, <2>2 DEF OrderOf
    <2>4. QED
      BY <2>3 DEF PlaceOf
  <1>6. QED
    BY <1>4, <1>5

-----------------------------------------------------------------------------
(* Every step leaves the other requests alone.                             *)

LEMMA StartSpares ==
  ASSUME IInv, NEW r \in Req, Start(r)
  PROVE  SparesOthers(r)
  <1>1. PICK o \in Op : op' = [op EXCEPT ![r] = o]
    BY StartEffect DEF IInv
  <1>2. QED
    BY <1>1, StartEffect DEF IInv, TypeOK, SparesOthers

LEMMA VanishSpares ==
  ASSUME IInv, NEW r \in Req, Vanish(r)
  PROVE  SparesOthers(r)
  BY DEF IInv, TypeOK, SparesOthers, Vanish, Release, Goto

LEMMA StepSpares ==
  ASSUME IInv, NEW r \in Req, Step(r)
  PROVE  SparesOthers(r)
  <1>0. TypeOK
    BY DEF IInv
  <1>1. CASE ReadTask(r)
    BY <1>0, <1>1 DEF TypeOK, SparesOthers, ReadTask, Answer, Goto
  <1>2. CASE ReadEndOfColumn(r)
    <2>1. \E c : ReadMax(r, c)
      BY <1>2 DEF ReadEndOfColumn
    <2>2. QED
      BY <1>0, <1>2, <2>1 DEF TypeOK, SparesOthers, ReadEndOfColumn, Goto
  <1>3. CASE RejectAssignees(r)
    BY <1>0, <1>3 DEF TypeOK, SparesOthers, RejectAssignees, Answer, Goto
  <1>4. CASE WriteTask(r)
    <2>1. CASE Live(op[r].task) /\ VersionMatches(r)
      <3>1. PICK new : Commit([tasks EXCEPT ![op[r].task] = new])
                       /\ snap' = [snap EXCEPT ![r] = new]
        BY <1>4, <2>1 DEF WriteTask
      <3>2. /\ rowLock[op[r].task] = NoReq
            /\ tasks' = [tasks EXCEPT ![op[r].task] = new]
        BY <1>4, <3>1 DEF WriteTask, Commit
      <3>3. \A q \in Req \ {r} :
               /\ pc'[q] = pc[q] /\ op'[q] = op[q] /\ snap'[q] = snap[q]
               /\ moved'[q] = moved[q] /\ reply'[q] = reply[q]
        BY <1>0, <1>4, <2>1, <3>1 DEF TypeOK, WriteTask, Goto
      <3>4. \A t \in Task : t # op[r].task => tasks'[t] = tasks[t]
        BY <1>0, <3>2 DEF TypeOK
      <3>5. UNCHANGED rowLock
        BY <1>4 DEF WriteTask
      <3>6. tasks[op[r].task].state # "absent"
        BY <2>1 DEF Live
      <3>7. QED
        <4>1. \A t \in Task : rowLock[t] \in Req => tasks'[t] = tasks[t]
          BY <3>2, <3>4
        <4>2. \A t \in Task : tasks[t].state = "absent" => tasks'[t] = tasks[t]
          BY <3>4, <3>6
        <4>3. QED
          BY <3>3, <3>5, <4>1, <4>2 DEF SparesOthers
    <2>2. CASE ~(Live(op[r].task) /\ VersionMatches(r))
      BY <1>0, <1>4, <2>2 DEF TypeOK, SparesOthers, WriteTask, Answer, Goto
    <2>3. QED
      BY <2>1, <2>2
  <1>5. CASE AnswerConflict(r)
    BY <1>0, <1>5 DEF TypeOK, SparesOthers, AnswerConflict, Answer, Goto
  <1>6. CASE InsertTask(r)
    <2>1. PICK new : Commit([tasks EXCEPT ![op[r].task] = new])
                     /\ snap' = [snap EXCEPT ![r] = new]
      BY <1>6 DEF InsertTask
    <2>2. tasks[op[r].task].state = "absent"
      BY <1>6 DEF InsertTask, IInv, CreationOf
    <2>3. \A t \in Task : t # op[r].task => tasks'[t] = tasks[t]
      BY <1>0, <2>1 DEF TypeOK, Commit
    <2>4. \A q \in Req \ {r} :
             /\ pc'[q] = pc[q] /\ op'[q] = op[q] /\ snap'[q] = snap[q]
             /\ moved'[q] = moved[q] /\ reply'[q] = reply[q]
      BY <1>0, <1>6, <2>1 DEF TypeOK, InsertTask, Goto
    <2>5. UNCHANGED rowLock /\ pc[r] = "ready" /\ op[r].kind = "create"
      BY <1>6 DEF InsertTask
    <2>6. QED
      BY <2>2, <2>3, <2>4, <2>5 DEF SparesOthers, Live
  <1>7. CASE DeleteTask(r)
    <2>1. rowLock[op[r].task] = NoReq /\ UNCHANGED rowLock
      BY <1>7 DEF DeleteTask
    <2>2. \A q \in Req \ {r} :
             /\ pc'[q] = pc[q] /\ op'[q] = op[q] /\ snap'[q] = snap[q]
             /\ moved'[q] = moved[q] /\ reply'[q] = reply[q]
      BY <1>0, <1>7 DEF TypeOK, DeleteTask, Answer, Goto
    <2>3. \A t \in Task :
             tasks'[t] = tasks[t] \/ (t = op[r].task /\ Live(t))
      BY <1>0, <1>7 DEF TypeOK, DeleteTask, Commit
    <2>4. QED
      <3>1. \A t \in Task : rowLock[t] \in Req => tasks'[t] = tasks[t]
        BY <2>1, <2>3
      <3>2. \A t \in Task : tasks[t].state = "absent" => tasks'[t] = tasks[t]
        BY <2>3 DEF Live
      <3>3. QED
        BY <2>1, <2>2, <3>1, <3>2 DEF SparesOthers
  <1>8. CASE ListColumn(r)
    BY <1>0, <1>8 DEF TypeOK, SparesOthers, ListColumn, Answer, Goto
  <1>9. CASE MoveTask(r)
    BY <1>0, <1>9 DEF TypeOK, SparesOthers, MoveTask, Release, Answer, Goto
  <1>10. CASE CommitReorder(r)
    <2>1. \A t \in Listed(r) : rowLock[t] = r /\ Live(t)
      BY <1>10, OrderIsLocked DEF CommitReorder, InColumn
    <2>2. \A t \in Task : t \notin Listed(r) => tasks'[t] = tasks[t]
      BY <1>10 DEF CommitReorder, Commit
    <2>3. QED
      BY <1>0, <1>10, <2>1, <2>2
      DEF TypeOK, SparesOthers, CommitReorder, Release, Goto, Live
  <1>11. CASE AbortDeadlock(r)
    BY <1>0, <1>11 DEF TypeOK, SparesOthers, AbortDeadlock, Release, Answer, Goto
  <1>12. CASE ReadOrder(r)
    BY <1>0, <1>12 DEF TypeOK, SparesOthers, ReadOrder, Answer, Goto
  <1>13. CASE ReadColumn(r)
    BY <1>0, <1>13 DEF TypeOK, SparesOthers, ReadColumn, Answer, Goto
  <1>14. CASE CountColumn(r)
    BY <1>0, <1>14 DEF TypeOK, SparesOthers, CountColumn, Answer, Goto
  <1>15. CASE DropColumn(r)
    BY <1>0, <1>15 DEF TypeOK, SparesOthers, DropColumn, Answer, Goto
  <1>16. CASE Publish(r)
    BY <1>0, <1>16 DEF TypeOK, SparesOthers, Publish, Answer, Goto
  <1>17. QED
    BY <1>1, <1>2, <1>3, <1>4, <1>5, <1>6, <1>7, <1>8, <1>9, <1>10, <1>11, <1>12,
       <1>13, <1>14, <1>15, <1>16 DEF Step

-----------------------------------------------------------------------------
(* Every step moves every row along its history.                           *)

LEMMA StepEvolves ==
  ASSUME IInv, NEW r \in Req, Step(r)
  PROVE  \A t \in Task : Evolves(t)
  <1>0. TypeOK /\ op[r] \in Op /\ \A u \in Task : tasks[u] \in Row
    BY DEF IInv, TypeOK
  <1> DEFINE u == op[r].task
  <1>1. u \in Task /\ op[r].patch \in Patch
    BY <1>0, OpFields
  <1>2. CASE WriteTask(r)
    <2>1. CASE Live(u) /\ VersionMatches(r)
      <3> DEFINE new == Patched(snap[r], op[r].patch, maxPos[r], NextVersion(r))
                 f == [tasks EXCEPT ![u] = new]
      <3>1. Commit(f)
        BY <1>2, <2>1 DEF WriteTask
      <3>2. new \in Row
        <4>1. NextVersion(r) \in Nat
          BY <1>0, <1>1, RowFields DEF NextVersion
        <4>2. snap[r] \in Row /\ maxPos[r] \in Int
          BY <1>0 DEF TypeOK
        <4>3. QED
          BY <1>1, <4>1, <4>2, PatchedType
      <3>3. f \in [Task -> Row] /\ f[u] = new /\ \A t \in Task : t # u => f[t] = tasks[t]
        BY <1>0, <1>1, <3>2 DEF TypeOK
      <3>4. /\ new.state = "live" /\ new.version = tasks[u].version + 1
            /\ tasks[u].state # "deleted"
        BY <2>1 DEF Patched, LiveRow, NextVersion, Live
      <3> HIDE DEF f, new
      <3>5. QED
        BY <1>0, <3>1, <3>3, <3>4, CommitEvolves
    <2>2. CASE ~(Live(u) /\ VersionMatches(r))
      BY <1>2, <2>2, SameEvolves DEF WriteTask
    <2>3. QED
      BY <2>1, <2>2
  <1>3. CASE InsertTask(r)
    <2> DEFINE new == LiveRow(op[r].patch.title, op[r].column, maxPos[r] + 1,
                              op[r].column = Done, 1)
               f == [tasks EXCEPT ![u] = new]
    <2>1. Commit(f)
      BY <1>3 DEF InsertTask
    <2>2. tasks[u].state = "absent" /\ tasks[u].version = 0
      BY <1>1, <1>3 DEF InsertTask, IInv, CreationOf, HistoryOf
    <2>3. new.state = "live" /\ new.version = tasks[u].version + 1
      BY <2>2 DEF LiveRow
    <2>4. new \in Row
      <3>1. /\ op[r].patch.title \in Value \cup {Keep} /\ op[r].column \in Column
            /\ maxPos[r] + 1 \in Int /\ (op[r].column = Done) \in BOOLEAN /\ 1 \in Nat
        BY <1>0, <1>1, OpFields DEF TypeOK, Patch
      <3>2. QED
        BY <3>1, LiveRowType
    <2>5. f \in [Task -> Row] /\ f[u] = new /\ \A t \in Task : t # u => f[t] = tasks[t]
      BY <1>0, <1>1, <2>4 DEF TypeOK
    <2> HIDE DEF f, new
    <2>6. QED
      BY <1>0, <2>1, <2>2, <2>3, <2>5, CommitEvolves
  <1>4. CASE DeleteTask(r)
    <2>1. CASE Live(u)
      <3> DEFINE f == [tasks EXCEPT ![u] = Deleted(tasks[u])]
      <3>1. Commit(f)
        BY <1>4, <2>1 DEF DeleteTask
      <3>2. Deleted(tasks[u]) \in Row
        BY <1>0, <1>1 DEF Deleted, Row
      <3>3. /\ f \in [Task -> Row] /\ f[u] = Deleted(tasks[u])
            /\ \A t \in Task : t # u => f[t] = tasks[t]
        BY <1>0, <1>1, <3>2 DEF TypeOK
      <3> HIDE DEF f
      <3>4. QED
        BY <1>0, <2>1, <3>1, <3>3, CommitEvolves DEF Live
    <2>2. CASE ~Live(u)
      BY <1>4, <2>2, SameEvolves DEF DeleteTask
    <2>3. QED
      BY <2>1, <2>2
  <1>5. CASE CommitReorder(r)
    <2> DEFINE f == [t \in Task |-> IF t \in Listed(r) THEN Placed(r, t) ELSE tasks[t]]
    <2>1. Commit(f)
      BY <1>5 DEF CommitReorder
    <2>2. \A t \in Listed(r) :
             /\ Placed(r, t) \in Row
             /\ tasks[t].state # "deleted"
             /\ Placed(r, t).state = "live"
             /\ Placed(r, t).version = tasks[t].version + 1
      <3>1. SUFFICES ASSUME NEW t \in Listed(r)
                     PROVE  /\ Placed(r, t) \in Row
                            /\ tasks[t].state # "deleted"
                            /\ Placed(r, t).state = "live"
                            /\ Placed(r, t).version = tasks[t].version + 1
        OBVIOUS
      <3>2. t \in Task /\ Live(t) /\ \E i \in DOMAIN op[r].order : op[r].order[i] = t
        BY <1>5, OrderIsLocked DEF CommitReorder, InColumn, Listed
      <3>3. PlaceOf(r, t) \in Int
        BY <1>0, <3>2, OpFields DEF PlaceOf
      <3>4. /\ tasks[t].title \in Value \cup {Keep} /\ tasks[t].status \in Column
            /\ tasks[t].completed \in BOOLEAN /\ tasks[t].version + 1 \in Nat
        BY <1>0, <3>2, RowFields
      <3>5. Placed(r, t) \in Row
        BY <3>3, <3>4, LiveRowType DEF Placed, Moved
      <3>6. QED
        BY <3>2, <3>5 DEF Placed, Moved, LiveRow, Live
    <2>3. f \in [Task -> Row] /\ \A t \in Task : t \notin Listed(r) => f[t] = tasks[t]
      BY <1>0, <2>2
    <2>4. \A t \in Task : t \in Listed(r) => f[t] = Placed(r, t)
      OBVIOUS
    <2> HIDE DEF f
    <2>5. QED
      BY <1>0, <2>1, <2>2, <2>3, <2>4, CommitEvolves
  <1>6. CASE UNCHANGED <<tasks, committed>>
    BY <1>6, SameEvolves
  <1>7. QED
    BY <1>2, <1>3, <1>4, <1>5, <1>6
    DEF Step, ReadTask, ReadEndOfColumn, RejectAssignees, AnswerConflict, ListColumn,
        MoveTask, AbortDeadlock, ReadOrder, ReadColumn, CountColumn, DropColumn, Publish

-----------------------------------------------------------------------------
(* What the request of a step holds after it.                              *)

\* A step keeps every history, and only adds to it.
LEMMA StepGrows ==
  ASSUME IInv, NEW r \in Req, Step(r)
  PROVE  /\ TypeOK'
         /\ UNCHANGED op
         /\ \A t \in Task : /\ HistoryOf(t)'
                            /\ committed[t] \subseteq committed'[t]
                            /\ tasks[t].version <= tasks'[t].version
  <1>1. TypeOK /\ TypeOK'
    BY StepType DEF IInv
  <1>2. \A t \in Task : HistoryOf(t)
    BY DEF IInv
  <1>3. UNCHANGED op
    BY DEF Step, ReadTask, ReadEndOfColumn, RejectAssignees, WriteTask, AnswerConflict,
           InsertTask, DeleteTask, ListColumn, MoveTask, CommitReorder, AbortDeadlock,
           ReadOrder, ReadColumn, CountColumn, DropColumn, Publish
  <1>4. QED
    BY <1>1, <1>2, <1>3, StepEvolves, EvolvesHistory

LEMMA StepMemory ==
  ASSUME IInv, NEW r \in Req, Step(r)
  PROVE  MemoryOf(r)'
  <1> DEFINE t == op[r].task
  <1>0. /\ TypeOK /\ MemoryOf(r) /\ op[r] \in Op /\ t \in Task
        /\ HistoryOf(t) /\ UNCHANGED op
        /\ committed[t] \subseteq committed'[t]
        /\ tasks[t].version <= tasks'[t].version
    BY StepGrows, OpFields DEF IInv, TypeOK
  <1>1. /\ op[r].expected \in Nat /\ tasks[t].version \in Nat
        /\ tasks'[t].version \in Nat /\ snap[r] \in Row /\ snap[r].version \in Nat
    BY <1>0, StepGrows, OpFields, RowFields DEF TypeOK
  <1>2. op[r].kind = "update" => op[r].expected <= tasks'[t].version
    BY <1>0, <1>1 DEF MemoryOf
  <1>3. CASE ReadTask(r)
    <2>1. reply[r] # 412
      BY <1>0, <1>3 DEF ReadTask, MemoryOf
    <2>2. CASE Live(t)
      <3>1. /\ snap'[r] = tasks[t] /\ pc'[r] \in {"read", "ready"} /\ reply'[r] # 412
        BY <1>0, <1>3, <2>1, <2>2 DEF ReadTask, Goto, TypeOK
      <3>2. snap'[r] \in committed'[t] /\ snap'[r].state = "live"
        BY <1>0, <2>2, <3>1 DEF HistoryOf, Live
      <3>3. QED
        BY <1>0, <1>2, <3>1, <3>2 DEF MemoryOf
    <2>3. CASE ~Live(t)
      <3>1. pc'[r] = "done" /\ reply'[r] # 412
        BY <1>0, <1>3, <2>3 DEF ReadTask, Answer, Goto, TypeOK, MissingRow
      <3>2. QED
        BY <1>0, <1>2, <3>1 DEF MemoryOf
    <2>4. QED
      BY <2>2, <2>3
  <1>4. CASE ReadEndOfColumn(r)
    <2>1. pc[r] \in {"read", "begin"} /\ pc'[r] = "ready" /\ UNCHANGED <<snap, reply>>
      BY <1>0, <1>4 DEF ReadEndOfColumn, Goto, TypeOK
    <2>2. op[r].kind = "update" => pc[r] = "read"
      BY <1>4 DEF ReadEndOfColumn
    <2>3. QED
      BY <1>0, <1>2, <2>1, <2>2 DEF MemoryOf
  <1>5. CASE RejectAssignees(r)
    <2>1. pc'[r] = "done" /\ reply'[r] # 412
      BY <1>0, <1>5 DEF RejectAssignees, Answer, Goto, TypeOK
    <2>2. QED
      BY <1>0, <1>2, <2>1 DEF MemoryOf
  <1>6. CASE WriteTask(r)
    <2>0. reply[r] # 412
      BY <1>0, <1>6 DEF WriteTask, MemoryOf
    <2>1. CASE Live(t) /\ VersionMatches(r)
      <3> DEFINE new == Patched(snap[r], op[r].patch, maxPos[r], NextVersion(r))
      <3>1. /\ tasks' = [tasks EXCEPT ![t] = new] /\ snap'[r] = new
            /\ pc'[r] = "written" /\ UNCHANGED reply
        BY <1>0, <1>6, <2>1 DEF WriteTask, Commit, Goto, TypeOK
      <3>2. tasks'[t] = new
        BY <1>0, <3>1 DEF TypeOK
      <3>3. new.state = "live"
        BY DEF Patched, LiveRow
      <3>4. snap'[r] \in committed'[t]
        BY <1>0, <3>1, <3>2, StepGrows DEF HistoryOf
      <3>5. QED
        BY <1>0, <1>2, <2>0, <3>1, <3>3, <3>4 DEF MemoryOf
    <2>2. CASE ~(Live(t) /\ VersionMatches(r))
      <3>1. \/ pc'[r] = "done" /\ reply'[r] # 412
            \/ /\ pc'[r] = "conflict" /\ UNCHANGED <<reply, tasks>>
               /\ Live(t) /\ op[r].kind = "update" /\ ~VersionMatches(r)
        BY <1>0, <1>6, <2>2 DEF WriteTask, Answer, Goto, TypeOK
      <3>2. ~VersionMatches(r) /\ op[r].kind = "update" => op[r].expected < tasks[t].version
        BY <1>0, <1>1 DEF VersionMatches, MemoryOf
      <3>3. QED
        BY <1>0, <1>2, <2>0, <3>1, <3>2 DEF MemoryOf
    <2>3. QED
      BY <2>1, <2>2
  <1>7. CASE AnswerConflict(r)
    <2>1. op[r].kind = "update" /\ op[r].expected < tasks[t].version
      BY <1>0, <1>7 DEF AnswerConflict, MemoryOf
    <2>2. pc'[r] = "done" /\ (snap'[r] = tasks[t] \/ reply'[r] # 412)
      BY <1>0, <1>7 DEF AnswerConflict, Answer, Goto, TypeOK, MissingRow
    <2>3. QED
      BY <1>0, <1>2, <2>1, <2>2 DEF MemoryOf
  <1>8. CASE InsertTask(r)
    <2> DEFINE new == LiveRow(op[r].patch.title, op[r].column, maxPos[r] + 1,
                              op[r].column = Done, 1)
    <2>1. /\ tasks' = [tasks EXCEPT ![t] = new] /\ snap'[r] = new
          /\ pc[r] = "ready" /\ pc'[r] = "written" /\ UNCHANGED reply
      BY <1>0, <1>8 DEF InsertTask, Commit, Goto, TypeOK
    <2>2. tasks'[t] = new /\ new.state = "live"
      BY <1>0, <2>1 DEF TypeOK, LiveRow
    <2>3. snap'[r] \in committed'[t]
      BY <1>0, <2>1, <2>2, StepGrows DEF HistoryOf
    <2>4. QED
      BY <1>0, <1>2, <2>1, <2>2, <2>3 DEF MemoryOf
  <1>9. CASE DeleteTask(r)
    <2>1. /\ pc[r] = "ready" /\ op[r].kind = "delete" /\ UNCHANGED snap
          /\ pc'[r] \in {"written", "done"}
          /\ UNCHANGED reply \/ reply'[r] = 404
      BY <1>0, <1>9 DEF DeleteTask, Answer, Goto, TypeOK
    <2>2. QED
      BY <1>0, <2>1 DEF MemoryOf
  <1>10. CASE op[r].kind \notin {"update", "create"} /\ UNCHANGED snap
              /\ pc[r] # "done" /\ pc'[r] # "conflict" /\ reply'[r] \in {reply[r], 200, 400, 404, 500}
    BY <1>0, <1>10 DEF MemoryOf
  <1>11. CASE MoveTask(r) \/ CommitReorder(r) \/ AbortDeadlock(r)
    <2>1. op[r].kind = "reorder"
      BY <1>11 DEF MoveTask, CommitReorder, AbortDeadlock, IInv, OrderOf
    <2>2. /\ UNCHANGED snap /\ pc[r] = "moving" /\ pc'[r] # "conflict"
          /\ reply'[r] \in {reply[r], 400, 500}
      BY <1>0, <1>11 DEF MoveTask, CommitReorder, AbortDeadlock, Answer, Goto, TypeOK
    <2>3. QED
      BY <1>10, <2>1, <2>2
  <1>12. CASE ReadOrder(r)
    <2>1. /\ pc[r] = "moved" /\ UNCHANGED snap /\ pc'[r] = "done" /\ reply'[r] # 412
      BY <1>0, <1>12 DEF ReadOrder, Answer, Goto, TypeOK, MissingRow
    <2>2. QED
      BY <1>0, <1>2, <2>1 DEF MemoryOf
  <1>13. CASE ListColumn(r) \/ ReadColumn(r) \/ CountColumn(r) \/ DropColumn(r)
    <2>1. op[r].kind \in {"reorder", "dropColumn"} /\ UNCHANGED snap /\ pc[r] # "done"
      BY <1>13 DEF ListColumn, ReadColumn, CountColumn, DropColumn
    <2>2. pc'[r] # "conflict" /\ reply'[r] \in {reply[r], 400, 404, 500}
      BY <1>0, <1>13
      DEF ListColumn, ReadColumn, CountColumn, DropColumn, Answer, Goto, TypeOK, MissingRow
    <2>3. QED
      BY <1>10, <2>1, <2>2
  <1>14. CASE Publish(r)
    <2>1. pc'[r] = "done" /\ reply'[r] = 200
      BY <1>0, <1>14 DEF Publish, Answer, Goto, TypeOK
    <2>2. QED
      BY <1>0, <1>2, <2>1 DEF MemoryOf
  <1>15. QED
    BY <1>3, <1>4, <1>5, <1>6, <1>7, <1>8, <1>9, <1>11, <1>12, <1>13, <1>14 DEF Step

LEMMA StepCreation ==
  ASSUME IInv, NEW r \in Req, Step(r)
  PROVE  CreationOf(r)'
  <1> DEFINE t == op[r].task
  <1>0. /\ TypeOK /\ CreationOf(r) /\ t \in Task /\ UNCHANGED op
    BY StepGrows, OpFields DEF IInv, TypeOK
  <1>1. CASE op[r].kind # "create" \/ pc'[r] \notin {"begin", "ready"}
    BY <1>0, <1>1 DEF CreationOf
  <1>2. CASE ReadEndOfColumn(r)
    BY <1>0, <1>2 DEF ReadEndOfColumn, CreationOf
  <1>3. CASE UNCHANGED <<tasks, pc>>
    BY <1>0, <1>3 DEF CreationOf
  <1>4. CASE RejectAssignees(r) \/ InsertTask(r)
    BY <1>0, <1>1, <1>4 DEF RejectAssignees, InsertTask, Answer, Goto, TypeOK
  <1>5. CASE ~(ReadEndOfColumn(r) \/ RejectAssignees(r) \/ InsertTask(r))
    <2>1. op[r].kind = "create" => Publish(r) \/ MoveTask(r) \/ CommitReorder(r)
                                   \/ AbortDeadlock(r) \/ ReadOrder(r) \/ AnswerConflict(r)
      BY <1>5 DEF Step, ReadTask, WriteTask, DeleteTask, ListColumn, ReadColumn,
                  CountColumn, DropColumn
    <2>2. Publish(r) \/ ReadOrder(r) \/ AnswerConflict(r) \/ AbortDeadlock(r)
             => pc'[r] = "done"
      BY <1>0 DEF Publish, ReadOrder, AnswerConflict, AbortDeadlock, Answer, Goto, TypeOK
    <2>3. MoveTask(r) \/ CommitReorder(r) => op[r].kind # "create"
      BY DEF MoveTask, CommitReorder, IInv, OrderOf
    <2>4. QED
      BY <1>1, <2>1, <2>2, <2>3
  <1>6. QED
    BY <1>2, <1>4, <1>5

\* A step after which the request is in no transaction.
LEMMA NoOrder ==
  ASSUME IInv, NEW r \in Req, UNCHANGED op,
         pc'[r] \notin {"idle", "begin", "moving"},
         \A t \in Task : rowLock'[t] = r => rowLock[t] = r /\ pc[r] # "moving"
  PROVE  OrderOf(r)'
  BY DEF IInv, OrderOf

LEMMA StepOrder ==
  ASSUME IInv, NEW r \in Req, Step(r)
  PROVE  OrderOf(r)'
  <1>0. /\ TypeOK /\ OrderOf(r) /\ op[r] \in Op /\ UNCHANGED op
        /\ moved[r] \in Nat /\ op[r].order \in Seq(Task)
    BY StepGrows, OpFields DEF IInv, TypeOK
  <1>1. CASE ListColumn(r)
    <2>1. CASE pc'[r] = "moving"
      <3>1. /\ op[r].kind = "reorder" /\ moved'[r] = 0 /\ UNCHANGED rowLock
        BY <1>0, <1>1 DEF ListColumn, OrderOf
      <3>2. \A t \in Task : rowLock'[t] # r
        BY <1>0, <1>1, <3>1 DEF ListColumn, OrderOf
      <3>3. 0 <= Len(op[r].order) /\ 1 .. 0 = {}
        BY <1>0
      <3>4. QED
        BY <1>0, <2>1, <3>1, <3>2, <3>3 DEF OrderOf
    <2>2. CASE pc'[r] # "moving"
      BY <1>0, <1>1, <2>2, NoOrder DEF ListColumn, Answer, Goto, TypeOK
    <2>3. QED
      BY <2>1, <2>2
  <1>2. CASE MoveTask(r)
    <2> DEFINE n == moved[r] + 1
               u == op[r].order[n]
    <2>1. pc[r] = "moving" /\ moved[r] < Len(op[r].order) /\ u = NextMove(r)
      BY <1>2 DEF MoveTask, NextMove
    <2>2. n \in 1 .. Len(op[r].order) /\ u \in Task
      BY <1>0, <2>1
    <2>3. CASE Movable(r, NextMove(r))
      <3>1. /\ rowLock' = [rowLock EXCEPT ![u] = r]
            /\ moved' = [moved EXCEPT ![r] = n]
            /\ UNCHANGED <<pc, tasks>>
        BY <1>2, <2>1, <2>3 DEF MoveTask
      <3>2. moved'[r] = n /\ rowLock'[u] = r
        BY <1>0, <2>2, <3>1 DEF TypeOK
      <3>3. \A t \in Task : rowLock[t] = r => rowLock'[t] = r
        BY <1>0, <3>1 DEF TypeOK
      <3>4. u \in InColumn(op[r].column) /\ InColumn(op[r].column)' = InColumn(op[r].column)
        BY <1>0, <2>1, <2>3, <3>1 DEF Movable, InColumn, Live
      <3>5. ASSUME NEW i \in 1 .. n
            PROVE  rowLock'[op[r].order[i]] = r /\ op[r].order[i] \in InColumn(op[r].column)
        <4>1. CASE i = n
          BY <3>2, <3>4, <4>1
        <4>2. CASE i # n
          <5>1. i \in 1 .. moved[r] /\ op[r].order[i] \in Task
            BY <1>0, <2>2, <4>2
          <5>2. QED
            BY <1>0, <2>1, <3>3, <5>1 DEF OrderOf
        <4>3. QED
          BY <4>1, <4>2
      <3>6. op[r].kind = "reorder" /\ n <= Len(op[r].order)
        BY <1>0, <2>1, <2>2 DEF OrderOf
      <3>7. QED
        BY <1>0, <2>1, <3>1, <3>2, <3>4, <3>5, <3>6 DEF OrderOf
    <2>4. CASE ~Movable(r, NextMove(r))
      <3>1. pc'[r] = "done" /\ \A t \in Task : rowLock'[t] # r
        BY <1>0, <1>2, <2>4 DEF MoveTask, Release, Answer, Goto, TypeOK
      <3>2. QED
        BY <1>0, <3>1, NoOrder
    <2>5. QED
      BY <2>3, <2>4
  <1>3. CASE CommitReorder(r) \/ AbortDeadlock(r)
    <2>1. pc'[r] \in {"moved", "done"}
      BY <1>0, <1>3 DEF CommitReorder, AbortDeadlock, Answer, Goto, TypeOK
    <2>2. Release(r)
      BY <1>3 DEF CommitReorder, AbortDeadlock
    <2>3. \A t \in Task : rowLock'[t] # r
      BY <2>2 DEF Release
    <2>4. QED
      BY <1>0, <2>1, <2>3, NoOrder
  <1>4. CASE ~(ListColumn(r) \/ MoveTask(r) \/ CommitReorder(r) \/ AbortDeadlock(r))
    <2>1. UNCHANGED rowLock /\ pc[r] # "moving"
      BY <1>4 DEF Step, ReadTask, ReadEndOfColumn, RejectAssignees, WriteTask,
            AnswerConflict, InsertTask, DeleteTask, ReadOrder, ReadColumn, CountColumn,
            DropColumn, Publish
    <2>2. pc'[r] \notin {"idle", "begin", "moving"}
      BY <1>0, <1>4 DEF Step, ReadTask, ReadEndOfColumn, RejectAssignees, WriteTask,
            AnswerConflict, InsertTask, DeleteTask, ReadOrder, ReadColumn, CountColumn,
            DropColumn, Publish, Answer, Goto, TypeOK
    <2>3. QED
      BY <1>0, <2>1, <2>2, NoOrder
  <1>5. QED
    BY <1>1, <1>2, <1>3, <1>4

LEMMA StepTold ==
  ASSUME IInv, NEW r \in Req, Step(r)
  PROVE  ToldIsCommitted'
  <1>0. /\ TypeOK /\ ToldIsCommitted /\ op[r].task \in Task /\ op[r].order \in Seq(Task)
        /\ \A t \in Task : tasks[t] \in committed[t] /\ committed[t] \subseteq committed'[t]
    BY StepGrows, OpFields DEF IInv, TypeOK, HistoryOf
  <1>1. \A sent \in told : sent[1] \in Task
    BY <1>0 DEF TypeOK
  <1>2. \A sent \in told' \ told :
           sent[1] \in Task /\ sent[2] \in committed[sent[1]] /\ sent[2].state = "live"
    <2>1. CASE UNCHANGED told
      BY <2>1
    <2>2. CASE AnswerConflict(r)
      BY <1>0, <2>2 DEF AnswerConflict, Live
    <2>3. CASE ReadOrder(r)
      <3>1. Listed(r) \subseteq Task
        BY <1>0 DEF Listed
      <3>2. QED
        BY <1>0, <2>3, <3>1 DEF ReadOrder, Live
    <2>4. CASE Publish(r)
      BY <1>0, <2>4 DEF Publish, IInv, MemoryOf
    <2>5. QED
      BY <2>1, <2>2, <2>3, <2>4
      DEF Step, ReadTask, ReadEndOfColumn, RejectAssignees, WriteTask, InsertTask,
          DeleteTask, ListColumn, MoveTask, CommitReorder, AbortDeadlock, ReadColumn,
          CountColumn, DropColumn
  <1>3. QED
    BY <1>0, <1>1, <1>2 DEF ToldIsCommitted

-----------------------------------------------------------------------------
(* The other requests, the arrivals and the crashes.                       *)

\* A request that a step spares keeps its part of the invariant: its row's
\* history only grew, and its locks were not touched.
LEMMA OthersKeep ==
  ASSUME IInv, TypeOK', NEW r \in Req, SparesOthers(r),
         \A t \in Task : /\ committed[t] \subseteq committed'[t]
                         /\ tasks[t].version <= tasks'[t].version,
         NEW q \in Req \ {r}, op[r].kind = "create" => op[q].kind # "create" \/ op[q].task # op[r].task
  PROVE  /\ MemoryOf(q)'
         /\ OrderOf(q)'
         /\ op[q].kind = "create" /\ pc'[q] \in {"begin", "ready"} =>
               tasks'[op[q].task].state = "absent"
  <1> DEFINE t == op[q].task
  <1>0. /\ TypeOK /\ MemoryOf(q) /\ CreationOf(q) /\ OrderOf(q)
        /\ op[q] \in Op /\ t \in Task /\ op[q].expected \in Nat
        /\ moved[q] \in Nat /\ op[q].order \in Seq(Task)
    BY OpFields DEF IInv, TypeOK
  <1>1. /\ tasks[t].version \in Nat /\ tasks'[t].version \in Nat
        /\ \A u \in Task : tasks[u] \in Row
    BY <1>0, RowFields DEF TypeOK
  <1>2. /\ pc'[q] = pc[q] /\ op'[q] = op[q] /\ snap'[q] = snap[q]
        /\ moved'[q] = moved[q] /\ reply'[q] = reply[q]
    BY DEF SparesOthers
  <1>3. MemoryOf(q)'
    BY <1>0, <1>1, <1>2 DEF MemoryOf
  <1>4. \A u \in Task : (rowLock'[u] = q) <=> (rowLock[u] = q)
    BY DEF SparesOthers
  <1>5. \A u \in Task : rowLock[u] = q /\ Live(u) => tasks'[u] = tasks[u]
    BY DEF SparesOthers
  <1>6. OrderOf(q)'
    <2>1. ASSUME pc[q] = "moving", NEW i \in 1 .. moved[q]
          PROVE  /\ rowLock'[op[q].order[i]] = q
                 /\ op[q].order[i] \in InColumn(op[q].column)'
      <3>1. /\ rowLock[op[q].order[i]] = q
            /\ op[q].order[i] \in InColumn(op[q].column)
        BY <1>0, <2>1 DEF OrderOf
      <3>2. QED
        BY <1>2, <1>4, <1>5, <3>1 DEF InColumn, Live
    <2>2. QED
      BY <1>0, <1>2, <1>4, <2>1 DEF OrderOf
  <1>7. op[q].kind = "create" /\ pc'[q] \in {"begin", "ready"} => tasks'[t].state = "absent"
    BY <1>0, <1>2 DEF CreationOf, SparesOthers
  <1>8. QED
    BY <1>3, <1>6, <1>7

LEMMA StepInv == ASSUME IInv, NEW r \in Req, Step(r) PROVE IInv'
  <1>1. /\ TypeOK' /\ UNCHANGED op
        /\ \A t \in Task : /\ HistoryOf(t)'
                           /\ committed[t] \subseteq committed'[t]
                           /\ tasks[t].version <= tasks'[t].version
    BY StepGrows
  <1>2. MemoryOf(r)' /\ CreationOf(r)' /\ OrderOf(r)' /\ ToldIsCommitted'
    BY StepMemory, StepCreation, StepOrder, StepTold
  <1>3. ASSUME NEW q \in Req \ {r} PROVE MemoryOf(q)' /\ CreationOf(q)' /\ OrderOf(q)'
    <2>1. op[r].kind = "create" => op[q].kind # "create" \/ op[q].task # op[r].task
      BY DEF IInv, CreationOf
    <2>2. /\ MemoryOf(q)' /\ OrderOf(q)'
          /\ op[q].kind = "create" /\ pc'[q] \in {"begin", "ready"} =>
                tasks'[op[q].task].state = "absent"
      BY <1>1, <2>1, StepSpares, OthersKeep
    <2>3. CreationOf(q)'
      BY <1>1, <2>2 DEF IInv, CreationOf
    <2>4. QED
      BY <2>2, <2>3
  <1>4. QED
    BY <1>1, <1>2, <1>3 DEF IInv

LEMMA StartInv == ASSUME IInv, NEW r \in Req, Start(r) PROVE IInv'
  <1>0. TypeOK
    BY DEF IInv
  <1>1. /\ pc[r] = "idle" /\ pc' = [pc EXCEPT ![r] = "begin"]
        /\ UNCHANGED <<tasks, columns, rowLock, snap, maxPos, moved, reply, told,
                       committed>>
    BY <1>0, StartEffect
  <1>2. PICK o \in Op : Fresh(o) /\ op' = [op EXCEPT ![r] = o]
    BY <1>0, StartEffect
  <1>3. op'[r] = o /\ pc'[r] = "begin"
        /\ \A q \in Req \ {r} : op'[q] = op[q] /\ pc'[q] = pc[q]
    BY <1>0, <1>1, <1>2 DEF TypeOK
  <1>4. TypeOK'
    BY <1>0, <1>1, <1>2 DEF TypeOK, PC
  <1>5. (\A t \in Task : HistoryOf(t)') /\ ToldIsCommitted'
    BY <1>1 DEF IInv, HistoryOf, ToldIsCommitted
  <1>6. MemoryOf(r)'
    <2>1. reply[r] # 412
      BY <1>1 DEF IInv, MemoryOf
    <2>2. QED
      BY <1>1, <1>2, <1>3, <2>1 DEF MemoryOf, Fresh
  <1>7. OrderOf(r)'
    BY <1>1, <1>2, <1>3 DEF IInv, OrderOf, Fresh
  <1>8. ASSUME NEW q \in Req \ {r} PROVE MemoryOf(q)' /\ OrderOf(q)'
    BY <1>1, <1>3, <1>8 DEF IInv, MemoryOf, OrderOf, InColumn, Live
  <1>9. \A q \in Req : CreationOf(q)'
    <2>1. CreationOf(r)'
      BY <1>1, <1>2, <1>3 DEF CreationOf, Fresh
    <2>2. \A q \in Req \ {r} : CreationOf(q)'
      BY <1>1, <1>2, <1>3 DEF IInv, CreationOf, Fresh
    <2>3. QED
      BY <2>1, <2>2
  <1>10. QED
    BY <1>4, <1>5, <1>6, <1>7, <1>8, <1>9 DEF IInv

LEMMA VanishInv == ASSUME IInv, NEW r \in Req, Vanish(r) PROVE IInv'
  <1>0. TypeOK
    BY DEF IInv
  <1>1. /\ pc' = [pc EXCEPT ![r] = "lost"] /\ pc[r] # "done" /\ pc'[r] = "lost"
        /\ UNCHANGED <<tasks, op, snap, moved, reply, told, committed>>
    BY <1>0 DEF Vanish, Goto, TypeOK
  <1>2. TypeOK'
    BY <1>0, ReleaseType, GotoType DEF TypeOK, Vanish, PC
  <1>3. (\A t \in Task : HistoryOf(t)') /\ ToldIsCommitted'
    BY <1>1 DEF IInv, HistoryOf, ToldIsCommitted
  <1>4. MemoryOf(r)'
    BY <1>1 DEF IInv, MemoryOf
  <1>5. OrderOf(r)'
    <2>1. \A t \in Task : rowLock'[t] # r
      BY DEF Vanish, Release
    <2>2. QED
      BY <1>1, <2>1, NoOrder
  <1>6. ASSUME NEW q \in Req \ {r} PROVE MemoryOf(q)' /\ OrderOf(q)'
    <2>1. \A t \in Task : tasks[t].version <= tasks'[t].version
      BY <1>0, <1>1, RowFields DEF TypeOK
    <2>2. op[r].kind = "create" => op[q].kind # "create" \/ op[q].task # op[r].task
      BY DEF IInv, CreationOf
    <2>3. QED
      BY <1>1, <1>2, <2>1, <2>2, VanishSpares, OthersKeep
  <1>7. \A q \in Req : CreationOf(q)'
    <2>1. CreationOf(r)'
      BY <1>1 DEF IInv, CreationOf
    <2>2. \A q \in Req \ {r} : CreationOf(q)'
      BY <1>0, <1>1 DEF IInv, CreationOf, TypeOK
    <2>3. QED
      BY <2>1, <2>2
  <1>8. QED
    BY <1>2, <1>3, <1>4, <1>5, <1>6, <1>7 DEF IInv

LEMMA InitInv == Init => IInv
  <1> SUFFICES ASSUME Init PROVE IInv
    OBVIOUS
  <1>1. TypeOK
    BY InitType
  <1>2. \A t \in Task : committed[t] = {tasks[t]}
    BY DEF Init
  <1>3. \A t \in Task : tasks[t] = Absent \/ (tasks[t].state = "live" /\ tasks[t].version = 1)
    BY DEF Init, LiveRow
  <1>4. \A t \in Task : HistoryOf(t)
    BY <1>2, <1>3 DEF HistoryOf, Absent
  <1>5. ASSUME NEW r \in Req PROVE MemoryOf(r) /\ CreationOf(r) /\ OrderOf(r)
    <2>1. /\ op[r] = NoOp /\ pc[r] = "idle" /\ moved[r] = 0 /\ reply[r] = 0
      BY DEF Init
    <2>2. /\ NoOp.kind = "update" /\ NoOp.expected = 0 /\ NoOp.task \in Task
          /\ NoOp.order = <<>>
      BY AnyTaskType DEF NoOp, Request
    <2>3. tasks[NoOp.task].version \in Nat
      BY <1>1, <2>2, RowFields DEF TypeOK
    <2>4. \A t \in Task : rowLock[t] # r
      BY DEF Init
    <2>5. QED
      BY <2>1, <2>2, <2>3, <2>4 DEF MemoryOf, CreationOf, OrderOf
  <1>6. ToldIsCommitted
    BY DEF Init, ToldIsCommitted
  <1>7. QED
    BY <1>1, <1>4, <1>5, <1>6 DEF IInv

\* The invariant that everything else follows from.
THEOREM Invariance == Spec => []IInv
  <1>1. IInv /\ [Next]_vars => IInv'
    <2>1. ASSUME IInv, UNCHANGED vars PROVE IInv'
      <3>1. TypeOK'
        BY <2>1, NextType DEF IInv
      <3>2. QED
        BY <2>1, <3>1 DEF vars, IInv, HistoryOf, MemoryOf, CreationOf, OrderOf,
                          ToldIsCommitted, InColumn, Live
    <2>2. QED
      BY <2>1, StepInv, StartInv, VanishInv DEF Next
  <1>2. QED
    BY <1>1, InitInv, PTL DEF Spec

-----------------------------------------------------------------------------
(* The promises.                                                           *)

\* Every row a client is ever shown, in an answer, a 412 or a board event, was
\* committed as shown and is the only content its version ever had.
THEOREM EtagsNameOneContent == Spec => []EtagNamesOneContent
  <1>1. IInv => EtagNamesOneContent
    <2>1. SUFFICES ASSUME IInv, NEW sent \in told
                   PROVE  /\ sent[2] \in committed[sent[1]]
                          /\ \A other \in committed[sent[1]] :
                                other.state = "live" /\ other.version = sent[2].version
                                   => other = sent[2]
      BY DEF EtagNamesOneContent
    <2>2. sent[1] \in Task
      BY <2>1 DEF IInv, TypeOK
    <2>3. sent[2] \in committed[sent[1]] /\ sent[2].state = "live"
      BY <2>1 DEF IInv, ToldIsCommitted
    <2>4. HistoryOf(sent[1])
      BY <2>1, <2>2 DEF IInv
    <2>5. QED
      BY <2>3, <2>4 DEF HistoryOf
  <1>2. QED
    BY <1>1, Invariance, PTL

\* A 412 always carries a row newer than the one the client had.
THEOREM ConflictsAreReal == Spec => []ConflictShowsNewerRow
  <1>1. IInv => ConflictShowsNewerRow
    <2>1. SUFFICES ASSUME IInv, NEW r \in Req, reply[r] = 412
                   PROVE  snap[r].version > op[r].expected
      BY DEF ConflictShowsNewerRow
    <2>2. snap[r].version \in Nat /\ op[r].expected \in Nat
      BY <2>1, RowFields, OpFields DEF IInv, TypeOK
    <2>3. QED
      BY <2>1, <2>2 DEF IInv, MemoryOf
  <1>2. QED
    BY <1>1, Invariance, PTL

\* The request that an accepted PATCH belongs to is the one that takes the step.
LEMMA WriterSteps ==
  ASSUME IInv, [Next]_vars, NEW r \in Req, pc[r] # pc'[r]
  PROVE  Start(r) \/ Step(r) \/ Vanish(r)
  <1>1. PICK q \in Req : Start(q) \/ Step(q) \/ Vanish(q)
    BY DEF Next, vars
  <1>2. SparesOthers(q)
    BY <1>1, StartSpares, StepSpares, VanishSpares
  <1>3. q = r
    BY <1>2 DEF SparesOthers
  <1>4. QED
    BY <1>1, <1>3

\* A PATCH with If-Match that is accepted was computed from the row it replaces.
THEOREM NoUpdateIsLost == Spec => NoLostUpdate
  <1>1. ASSUME IInv, [Next]_vars, NEW r \in Req,
               pc[r] = "ready", pc'[r] = "written",
               op[r].kind = "update", op[r].expected # 0
        PROVE  snap[r] = tasks[op[r].task]
    <2> DEFINE t == op[r].task
    <2>1. TypeOK
      BY <1>1 DEF IInv
    <2>2. ~Start(r) /\ ~Vanish(r)
      BY <1>1, <2>1, StartEffect DEF Vanish, Goto, TypeOK
    <2>3. Step(r)
      BY <1>1, <2>2, WriterSteps
    <2>4. WriteTask(r)
      <3>1. WriteTask(r) \/ RejectAssignees(r)
        BY <1>1, <2>3 DEF Step, ReadTask, ReadEndOfColumn, AnswerConflict, InsertTask,
           DeleteTask, ListColumn, MoveTask, CommitReorder, AbortDeadlock, ReadOrder,
           ReadColumn, CountColumn, DropColumn, Publish
      <3>2. ~RejectAssignees(r)
        BY <1>1, <2>1 DEF RejectAssignees, Answer, Goto, TypeOK
      <3>3. QED
        BY <3>1, <3>2
    <2>5. Live(t) /\ VersionMatches(r)
      BY <1>1, <2>1, <2>4 DEF WriteTask, Answer, Goto, TypeOK
    <2>6. t \in Task /\ HistoryOf(t) /\ MemoryOf(r)
      BY <1>1, <2>1, OpFields DEF IInv, TypeOK
    <2>7. /\ tasks[t].version \in Nat /\ snap[r].version \in Nat
          /\ op[r].expected \in Nat
      BY <2>1, <2>6, RowFields, OpFields DEF TypeOK
    <2>8. op[r].expected = tasks[t].version
      BY <1>1, <2>5 DEF VersionMatches
    <2>9. /\ snap[r] \in committed[t] /\ snap[r].state = "live"
          /\ op[r].expected <= snap[r].version
      BY <1>1, <2>6 DEF MemoryOf
    <2>10. snap[r].version = tasks[t].version
      BY <2>6, <2>7, <2>8, <2>9 DEF HistoryOf
    <2>11. QED
      BY <2>5, <2>6, <2>9, <2>10 DEF HistoryOf, Live
  <1> DEFINE Kept == \A r \in Req :
                 /\ pc[r] = "ready" /\ pc'[r] = "written"
                 /\ op[r].kind = "update" /\ op[r].expected # 0
                 => snap[r] = tasks[op[r].task]
  <1>2. IInv /\ [Next]_vars => [Kept]_vars
    BY <1>1
  <1>3. QED
    BY <1>2, Invariance, PTL DEF Spec, NoLostUpdate

\* Versions count the contents of a task one by one, and nothing writes a task
\* that has been deleted.
THEOREM VersionsCount == Spec => VersionCountsChanges
  <1>1. ASSUME IInv, [Next]_vars, NEW t \in Task, tasks'[t] # tasks[t]
        PROVE  /\ tasks[t].state # "deleted"
               /\ IF tasks'[t].state = "deleted"
                  THEN tasks'[t] = Deleted(tasks[t])
                  ELSE tasks'[t].version = tasks[t].version + 1
    <2>1. PICK r \in Req : Start(r) \/ Step(r) \/ Vanish(r)
      BY <1>1 DEF Next, vars
    <2>2. Step(r)
      BY <1>1, <2>1, StartEffect DEF IInv, Vanish
    <2>3. Evolves(t) /\ tasks[t] \in Row
      BY <1>1, <2>2, StepEvolves DEF IInv, TypeOK
    <2>4. Deleted(tasks[t]).state = "deleted"
      BY <2>3 DEF Deleted, Row
    <2>5. QED
      BY <1>1, <2>3, <2>4 DEF Evolves
  <1> DEFINE Counts == \A t \in Task :
                 tasks'[t] # tasks[t] =>
                    /\ tasks[t].state # "deleted"
                    /\ IF tasks'[t].state = "deleted"
                       THEN tasks'[t] = Deleted(tasks[t])
                       ELSE tasks'[t].version = tasks[t].version + 1
  <1>2. IInv /\ [Next]_vars => [Counts]_vars
    BY <1>1
  <1>3. QED
    BY <1>2, Invariance, PTL DEF Spec, VersionCountsChanges

\* A reorder that commits moves every task it names, all still in the column,
\* to its place in the requested order.
THEOREM ReordersAreAtomic == Spec => ReorderIsAtomic
  <1>1. ASSUME IInv, [Next]_vars, NEW r \in Req, pc[r] = "moving", pc'[r] = "moved",
               NEW i \in DOMAIN op[r].order
        PROVE  /\ op[r].order[i] \in InColumn(op[r].column)
               /\ tasks'[op[r].order[i]] =
                     Moved(tasks[op[r].order[i]], i - 1, tasks[op[r].order[i]].version + 1)
    <2>1. TypeOK
      BY <1>1 DEF IInv
    <2>2. ~Start(r) /\ ~Vanish(r)
      BY <1>1, <2>1, StartEffect DEF Vanish, Goto, TypeOK
    <2>3. Step(r)
      BY <1>1, <2>2, WriterSteps
    <2>4. CommitReorder(r)
      BY <1>1, <2>1, <2>3 DEF Step, ReadTask, ReadEndOfColumn, RejectAssignees, WriteTask,
         AnswerConflict, InsertTask, DeleteTask, ListColumn, MoveTask, AbortDeadlock,
         ReadOrder, ReadColumn, CountColumn, DropColumn, Publish, Answer, Goto, TypeOK
    <2>5. op[r].order[i] \in Listed(r)
      BY DEF Listed
    <2>6. /\ op[r].order[i] \in Task /\ op[r].order[i] \in InColumn(op[r].column)
          /\ PlaceOf(r, op[r].order[i]) = i - 1
      BY <1>1, <2>4, <2>5, OrderIsLocked DEF CommitReorder
    <2>7. tasks'[op[r].order[i]] = Placed(r, op[r].order[i])
      BY <2>4, <2>5, <2>6 DEF CommitReorder, Commit
    <2>8. QED
      BY <2>6, <2>7 DEF Placed
  <1> DEFINE Atomic == \A r \in Req :
                 pc[r] = "moving" /\ pc'[r] = "moved" =>
                    \A i \in DOMAIN op[r].order :
                        LET t == op[r].order[i] IN
                        /\ t \in InColumn(op[r].column)
                        /\ tasks'[t] = Moved(tasks[t], i - 1, tasks[t].version + 1)
  <1>2. IInv /\ [Next]_vars => [Atomic]_vars
    BY <1>1
  <1>3. QED
    BY <1>2, Invariance, PTL DEF Spec, ReorderIsAtomic

-----------------------------------------------------------------------------
(* The refinement: TaskBoard implements TaskHistory.                       *)

(* What the rows say of the history of their task.                         *)

Content == {ContentOf(x) : x \in Row}

\* A version of a task is the number of its content.
LEMMA HistoryType ==
  ASSUME IInv, HistoryInv, NEW t \in Task
  PROVE  /\ HistoryMap[t] = [v \in 1 .. tasks[t].version |-> ContentOf(RowAt(t, v))]
         /\ HistoryMap[t] \in Seq(Content)
         /\ DOMAIN HistoryMap[t] = 1 .. tasks[t].version
         /\ Len(HistoryMap[t]) = tasks[t].version
         /\ tasks[t].version \in Nat
  <1>1. tasks[t].version \in Nat
    BY RowFields DEF IInv, TypeOK
  <1>2. ASSUME NEW v \in 1 .. tasks[t].version PROVE ContentOf(RowAt(t, v)) \in Content
    <2>1. RowAt(t, v) \in committed[t]
      BY DEF RowAt, HistoryInv, CompleteOf
    <2>2. committed[t] \subseteq Row
      BY DEF IInv, TypeOK
    <2>3. QED
      BY <2>1, <2>2 DEF Content
  <1>3. HistoryMap[t] = [v \in 1 .. tasks[t].version |-> ContentOf(RowAt(t, v))]
    BY DEF HistoryMap
  <1>4. HistoryMap[t] \in Seq(Content)
    BY <1>1, <1>2, <1>3
  <1>5. QED
    BY <1>1, <1>3, <1>4

\* A row that was committed is the one of its version.
LEMMA RowIsIts ==
  ASSUME IInv, NEW t \in Task, NEW x \in committed[t], x.state = "live"
  PROVE  /\ x.version \in 1 .. tasks[t].version
         /\ RowAt(t, x.version) = x
  <1>1. HistoryOf(t) /\ x \in Row /\ tasks[t] \in Row
    BY DEF IInv, TypeOK
  <1>2. x.version \in Nat /\ tasks[t].version \in Nat
    BY <1>1, RowFields
  <1>3. QED
    BY <1>1, <1>2 DEF HistoryOf, RowAt

LEMMA ContentIsIts ==
  ASSUME IInv, HistoryInv, NEW t \in Task, NEW x \in committed[t], x.state = "live"
  PROVE  /\ x.version \in DOMAIN HistoryMap[t]
         /\ HistoryMap[t][x.version] = ContentOf(x)
  <1>1. x.version \in 1 .. tasks[t].version /\ RowAt(t, x.version) = x
    BY RowIsIts
  <1>2. HistoryMap[t] = [v \in 1 .. tasks[t].version |-> ContentOf(RowAt(t, v))]
    BY HistoryType
  <1>3. QED
    BY <1>1, <1>2

\* A task that is there has a content, its row's.
LEMMA LiveIsThere ==
  ASSUME IInv, HistoryInv, NEW t \in Task, Live(t)
  PROVE  Promise!There(t) /\ Promise!Newest(t) = ContentOf(tasks[t])
  <1>1. tasks[t] \in committed[t] /\ tasks[t].state = "live"
    BY DEF IInv, HistoryOf, Live
  <1>2. /\ Len(HistoryMap[t]) \in 1 .. Len(HistoryMap[t])
        /\ HistoryMap[t][Len(HistoryMap[t])] = ContentOf(tasks[t])
    <2>1. /\ tasks[t].version \in DOMAIN HistoryMap[t]
          /\ HistoryMap[t][tasks[t].version] = ContentOf(tasks[t])
      BY <1>1, ContentIsIts
    <2>2. /\ DOMAIN HistoryMap[t] = 1 .. tasks[t].version
          /\ Len(HistoryMap[t]) = tasks[t].version
      BY HistoryType
    <2>3. QED
      BY <2>1, <2>2
  <1>3. HistoryMap[t] # <<>>
    BY <1>2, HistoryType
  <1>4. t \notin GoneTasks
    BY <1>1 DEF GoneTasks
  <1>5. QED
    BY <1>2, <1>3, <1>4 DEF Promise!There, Promise!Newest

-----------------------------------------------------------------------------
(* What a step does to the history of a task.                              *)

LEMMA CompleteStays ==
  ASSUME IInv, TypeOK', NEW t \in Task, CompleteOf(t), Evolves(t)
  PROVE  CompleteOf(t)'
  <1>1. committed'[t] = committed[t] \cup {tasks'[t]} /\ tasks[t] \in Row
    BY DEF Evolves, IInv, TypeOK
  <1>2. tasks[t].version \in Nat /\ tasks'[t].version \in Nat
    BY RowFields DEF IInv, TypeOK
  <1>3. CASE tasks'[t].version = tasks[t].version
    BY <1>1, <1>3 DEF CompleteOf
  <1>4. CASE tasks'[t].state = "live" /\ tasks'[t].version = tasks[t].version + 1
    <2>1. ASSUME NEW v \in 1 .. tasks'[t].version
          PROVE  \E x \in committed'[t] : x.state = "live" /\ x.version = v
      <3>1. CASE v = tasks'[t].version
        BY <1>1, <1>4, <3>1
      <3>2. CASE v # tasks'[t].version
        <4>1. v \in 1 .. tasks[t].version
          BY <1>2, <1>4, <3>2
        <4>2. QED
          BY <1>1, <4>1 DEF CompleteOf
      <3>3. QED
        BY <3>1, <3>2
    <2>2. QED
      BY <2>1 DEF CompleteOf
  <1>5. QED
    BY <1>1, <1>3, <1>4 DEF Evolves, Deleted, Row

\* The contents that a task had stay what they were.
LEMMA ContentsStay ==
  ASSUME IInv, HistoryInv, IInv', NEW t \in Task, committed[t] \subseteq committed'[t],
         NEW v \in 1 .. tasks[t].version
  PROVE  RowAt(t, v)' = RowAt(t, v)
  <1>1. PICK x \in committed[t] : x.state = "live" /\ x.version = v
    BY DEF HistoryInv, CompleteOf
  <1>2. RowAt(t, v) = x
    BY <1>1, RowIsIts
  <1>3. RowAt(t, v)' = x
    BY <1>1 DEF RowAt, IInv, HistoryOf
  <1>4. QED
    BY <1>2, <1>3

LEMMA HistoryStays ==
  ASSUME IInv, HistoryInv, IInv', NEW t \in Task, committed[t] \subseteq committed'[t],
         tasks'[t].version = tasks[t].version
  PROVE  HistoryMap'[t] = HistoryMap[t]
  <1>1. HistoryMap'[t] = [v \in 1 .. tasks'[t].version |-> ContentOf(RowAt(t, v)')]
    BY DEF HistoryMap
  <1>2. QED
    BY <1>1, HistoryType, ContentsStay

LEMMA HistoryGrows ==
  ASSUME IInv, HistoryInv, IInv', HistoryInv', NEW t \in Task,
         committed'[t] = committed[t] \cup {tasks'[t]},
         tasks'[t].state = "live", tasks'[t].version = tasks[t].version + 1
  PROVE  /\ HistoryMap'[t] = Append(HistoryMap[t], ContentOf(tasks'[t]))
         /\ Promise!Added(t) = ContentOf(tasks'[t])
  <1> DEFINE n == tasks[t].version
             c == ContentOf(tasks'[t])
  <1>1. n \in Nat /\ HistoryMap[t] \in Seq(Content) /\ Len(HistoryMap[t]) = n
    BY HistoryType
  <1>2. c \in Content
    BY DEF Content, IInv, TypeOK
  <1>3. /\ HistoryMap'[t] = [v \in 1 .. n + 1 |-> ContentOf(RowAt(t, v)')]
        /\ Len(HistoryMap'[t]) = n + 1
        /\ DOMAIN HistoryMap'[t] = 1 .. n + 1
    <2>1. HistoryMap'[t] = [v \in 1 .. tasks'[t].version |-> ContentOf(RowAt(t, v)')]
      BY DEF HistoryMap
    <2>2. QED
      BY <1>1, <2>1
  <1>4. \A v \in 1 .. n + 1 : v = n + 1 => RowAt(t, v)' = tasks'[t]
    <2>1. HistoryOf(t)'
      BY DEF IInv
    <2>2. \A x \in committed'[t] : x.state = "live" /\ x.version = n + 1 => x = tasks'[t]
      BY <2>1 DEF HistoryOf
    <2>3. tasks'[t] \in committed'[t]
      OBVIOUS
    <2>4. QED
      BY <2>2, <2>3 DEF RowAt
  <1>5. HistoryMap'[t][n + 1] = c
    <2>1. n + 1 \in 1 .. n + 1
      BY <1>1
    <2>2. QED
      BY <1>3, <1>4, <2>1
  <1>6. \A v \in 1 .. n : HistoryMap'[t][v] = HistoryMap[t][v]
    <2>1. \A v \in 1 .. n : RowAt(t, v)' = RowAt(t, v)
      BY ContentsStay
    <2>2. HistoryMap[t] = [v \in 1 .. n |-> ContentOf(RowAt(t, v))]
      BY HistoryType
    <2>3. \A v \in 1 .. n : v \in 1 .. n + 1
      BY <1>1
    <2>4. QED
      BY <1>3, <2>1, <2>2, <2>3
  <1> HIDE DEF n, c
  <1>7. HistoryMap'[t] = Append(HistoryMap[t], c)
    <2>1. HistoryMap'[t] = [v \in 1 .. n + 1 |-> HistoryMap'[t][v]]
      BY <1>3
    <2>2. \A v \in 1 .. n + 1 : HistoryMap'[t][v] = Append(HistoryMap[t], c)[v]
      BY <1>1, <1>2, <1>5, <1>6, AppendProperties
    <2>3. Append(HistoryMap[t], c) = [v \in 1 .. n + 1 |-> Append(HistoryMap[t], c)[v]]
      BY <1>1, <1>2
    <2>4. QED
      BY <2>1, <2>2, <2>3
  <1>8. Promise!Added(t) = c
    BY <1>3, <1>5 DEF Promise!Added
  <1>9. QED
    BY <1>7, <1>8 DEF c

-----------------------------------------------------------------------------
(* What a step shows of its request, and of what it tells.                 *)

Underway == {"begin", "read", "ready", "conflict", "moving"}

\* A step moves the stage of its own request only.
LEMMA OneStage ==
  ASSUME IInv, NEW r \in Req, SparesOthers(r)
  PROVE  /\ StageMap[r] = StageOf(r)
         /\ StageMap' = [StageMap EXCEPT ![r] = StageOf(r)']
  <1>1. \A q \in Req \ {r} : StageOf(q)' = StageOf(q)
    <2>1. \A q \in Req \ {r} : pc'[q] = pc[q] /\ reply'[q] = reply[q]
      BY DEF SparesOthers
    <2>2. QED
      BY <2>1 DEF StageOf
  <1>2. QED
    BY <1>1 DEF StageMap

LEMMA StageIs ==
  ASSUME NEW r \in Req
  PROVE  /\ pc[r] \in Underway => StageOf(r) = "asked"
         /\ pc[r] \in {"written", "moved"} => StageOf(r) = "applied"
         /\ pc[r] = "done" => StageOf(r) = IF reply[r] = 200 THEN "granted" ELSE "refused"
         /\ pc[r] = "idle" => StageOf(r) = "none"
         /\ pc[r] = "lost" => StageOf(r) = "lost"
  BY DEF StageOf, Underway

LEMMA StageGoes ==
  ASSUME IInv, NEW r \in Req, SparesOthers(r), NEW from, NEW to,
         StageOf(r) \in from, StageOf(r)' = to
  PROVE  Promise!Go(r, from, to)
  BY OneStage DEF Promise!Go

LEMMA SameRows ==
  ASSUME UNCHANGED <<tasks, committed>>
  PROVE  UNCHANGED HistoryMap /\ UNCHANGED GoneTasks
  BY DEF HistoryMap, RowAt, GoneTasks

LEMMA SameTold == ASSUME UNCHANGED told PROVE UNCHANGED ShownMap
  BY DEF ShownMap

\* Whoever is told of a version, in an answer or an event, is told its content.
LEMMA AnswerTells ==
  ASSUME IInv, HistoryInv, IInv', NEW r \in Req, SparesOthers(r),
         UNCHANGED <<tasks, committed, op>>, told \subseteq told',
         NEW from, NEW to, StageOf(r) \in from, StageOf(r)' = to
  PROVE  Promise!Answer(r, from, to)
  <1>1. UNCHANGED HistoryMap /\ UNCHANGED GoneTasks
    BY SameRows
  <1>2. ShownMap \subseteq ShownMap'
    BY DEF ShownMap
  <1>3. ASSUME NEW s \in ShownMap'
        PROVE  /\ s.version \in DOMAIN HistoryMap[s.task]
               /\ s.content = HistoryMap[s.task][s.version]
    <2>1. PICK x \in told' : s = ShownAs(x)
      BY DEF ShownMap, ShownAs
    <2>2. x[1] \in Task /\ x[2] \in committed[x[1]] /\ x[2].state = "live"
      BY DEF IInv, TypeOK, ToldIsCommitted
    <2>3. s.task = x[1] /\ s.version = x[2].version /\ s.content = ContentOf(x[2])
      BY <2>1 DEF ShownAs
    <2>4. QED
      BY <2>2, <2>3, ContentIsIts
  <1>4. Promise!Go(r, from, to)
    BY StageGoes
  <1>5. QED
    BY <1>1, <1>2, <1>3, <1>4 DEF Promise!Answer

\* A request that is refused before it has written.
LEMMA Refuses ==
  ASSUME IInv, HistoryInv, IInv', NEW r \in Req, SparesOthers(r),
         UNCHANGED <<tasks, committed, op>>, told \subseteq told',
         pc[r] \in Underway, pc'[r] = "done", reply'[r] # 200
  PROVE  Promise!Next
  <1>1. StageOf(r) \in {"asked"} /\ StageOf(r)' = "refused"
    BY DEF StageOf, Underway
  <1>2. Promise!Answer(r, {"asked"}, "refused")
    BY <1>1, AnswerTells
  <1>3. QED
    BY <1>2 DEF Promise!Next, Promise!Refuse

\* A request that only read, or is still in its transaction.
LEMMA GoesOn ==
  ASSUME IInv, NEW r \in Req, SparesOthers(r),
         UNCHANGED <<tasks, committed, op, told>>,
         pc[r] \in Underway, pc'[r] \in Underway
  PROVE  UNCHANGED Promise!historyVars
  <1>1. StageOf(r)' = StageOf(r)
    BY DEF StageOf, Underway
  <1>2. UNCHANGED StageMap
    BY <1>1, OneStage DEF StageMap
  <1>3. QED
    BY <1>2, SameRows, SameTold DEF Promise!historyVars

\* A request whose statement takes effect.
LEMMA Applies ==
  ASSUME IInv, NEW r \in Req, SparesOthers(r), UNCHANGED <<op, told>>,
         pc[r] \in Underway, pc'[r] \in {"written", "moved"},
         \/ Promise!Create(r) \/ Promise!Update(r) \/ Promise!Delete(r)
         \/ Promise!Reorder(r) \/ Promise!DropColumn(r)
  PROVE  Promise!Next
  <1>1. StageOf(r) \in {"asked"} /\ StageOf(r)' = "applied"
    BY DEF StageOf, Underway
  <1>2. Promise!Go(r, {"asked"}, "applied")
    BY <1>1, StageGoes
  <1>3. Promise!Apply(r)
    BY <1>2, SameTold DEF Promise!Apply
  <1>4. QED
    BY <1>3 DEF Promise!Next

\* One task gets the content of its new row.
LEMMA OneGrows ==
  ASSUME IInv, HistoryInv, IInv', HistoryInv', NEW S \in SUBSET Task,
         \A t \in Task : committed'[t] = committed[t] \cup {tasks'[t]},
         \A t \in Task \ S : tasks'[t] = tasks[t],
         \A t \in S : /\ tasks[t].state # "deleted" /\ tasks'[t].state = "live"
                      /\ tasks'[t].version = tasks[t].version + 1
  PROVE  /\ Promise!Grow(S)
         /\ \A t \in S : Promise!Added(t) = ContentOf(tasks'[t])
         /\ UNCHANGED GoneTasks
  <1>1. \A t \in Task \ S : HistoryMap'[t] = HistoryMap[t]
    <2>1. SUFFICES ASSUME NEW t \in Task \ S PROVE HistoryMap'[t] = HistoryMap[t]
      OBVIOUS
    <2>2. committed[t] \subseteq committed'[t] /\ tasks'[t].version = tasks[t].version
      OBVIOUS
    <2>3. QED
      BY <2>2, HistoryStays
  <1>2. \A t \in S :
           /\ HistoryMap'[t] = Append(HistoryMap[t], ContentOf(tasks'[t]))
           /\ Promise!Added(t) = ContentOf(tasks'[t])
    BY HistoryGrows
  <1>3. HistoryMap' = [t \in Task |-> HistoryMap'[t]]
    BY DEF HistoryMap
  <1>4. Promise!Grow(S)
    <2>1. \A t \in Task : HistoryMap'[t] =
             IF t \in S THEN Append(HistoryMap[t], Promise!Added(t)) ELSE HistoryMap[t]
      BY <1>1, <1>2
    <2>2. QED
      BY <1>3, <2>1 DEF Promise!Grow
  <1>5. UNCHANGED GoneTasks
    BY DEF GoneTasks
  <1>6. QED
    BY <1>2, <1>4, <1>5

LEMMA InitHistory == Init => Promise!Init /\ HistoryInv
  <1> SUFFICES ASSUME Init PROVE Promise!Init /\ HistoryInv
    OBVIOUS
  <1>1. IInv
    BY InitInv
  <1>2. \A t \in Task : /\ committed[t] = {tasks[t]}
                        /\ \/ tasks[t].state = "absent" /\ tasks[t].version = 0
                           \/ tasks[t].state = "live" /\ tasks[t].version = 1
    BY DEF Init, LiveRow, Absent
  <1>3. HistoryInv
    BY <1>2 DEF HistoryInv, CompleteOf, StandsAt, Init
  <1>4. \A t \in Task : Len(HistoryMap[t]) <= 1
    <2>1. \A t \in Task : Len(HistoryMap[t]) = tasks[t].version
      BY <1>1, <1>3, HistoryType
    <2>2. QED
      BY <1>2, <2>1
  <1>5. GoneTasks = {}
    BY <1>2 DEF GoneTasks
  <1>6. op \in [Req -> Op]
    BY <1>1 DEF IInv, TypeOK
  <1>7. StageMap = [r \in Req |-> "none"] /\ ShownMap = {}
    BY DEF Init, StageMap, StageOf, ShownMap
  <1>8. QED
    BY <1>3, <1>4, <1>5, <1>6, <1>7 DEF Promise!Init

-----------------------------------------------------------------------------
(* Each step is one of the promise.                                        *)

LEMMA StepHistoryInv ==
  ASSUME IInv, HistoryInv, NEW r \in Req, Step(r)
  PROVE  HistoryInv'
  <1>0. TypeOK /\ IInv' /\ UNCHANGED op /\ SparesOthers(r)
    BY StepInv, StepGrows, StepSpares DEF IInv
  <1>1. \A t \in Task : CompleteOf(t)'
    BY <1>0, StepEvolves, CompleteStays DEF HistoryInv, IInv
  <1>2. StandsAt(r)'
    <2>1. pc'[r] = "moved" => pc[r] = "moved" \/ CommitReorder(r)
      BY <1>0 DEF Step, ReadTask, ReadEndOfColumn, RejectAssignees, WriteTask,
         AnswerConflict, InsertTask, DeleteTask, ListColumn, MoveTask, AbortDeadlock,
         ReadOrder, ReadColumn, CountColumn, DropColumn, Publish, Answer, Goto, TypeOK
    <2>2. CommitReorder(r) => op[r].kind = "reorder"
      BY DEF CommitReorder, IInv, OrderOf
    <2>3. QED
      BY <1>0, <2>1, <2>2 DEF HistoryInv, StandsAt
  <1>3. \A q \in Req \ {r} : StandsAt(q)'
    BY <1>0 DEF HistoryInv, StandsAt, SparesOthers
  <1>4. QED
    BY <1>1, <1>2, <1>3 DEF HistoryInv

LEMMA StartHistory ==
  ASSUME IInv, HistoryInv, NEW r \in Req, Start(r)
  PROVE  HistoryInv' /\ Promise!Next
  <1>1. /\ TypeOK /\ pc[r] = "idle" /\ pc' = [pc EXCEPT ![r] = "begin"]
        /\ UNCHANGED <<tasks, told, committed>>
    BY StartEffect DEF IInv
  <1>2. PICK o \in Op : op' = [op EXCEPT ![r] = o]
    BY <1>1, StartEffect
  <1>3. /\ op' \in [Req -> Op] /\ \A q \in Req \ {r} : op'[q] = op[q] /\ pc'[q] = pc[q]
        /\ pc'[r] = "begin"
    BY <1>1, <1>2 DEF TypeOK
  <1>4. HistoryInv'
    BY <1>1, <1>3 DEF HistoryInv, CompleteOf, StandsAt
  <1>5. StageOf(r) \in {"none"} /\ StageOf(r)' = "asked"
    BY <1>1, <1>3 DEF StageOf
  <1>6. Promise!Go(r, {"none"}, "asked")
    BY <1>5, StartSpares, StageGoes
  <1>7. Promise!Ask(r)
    BY <1>1, <1>3, <1>6, SameRows, SameTold DEF Promise!Ask
  <1>8. QED
    BY <1>4, <1>7 DEF Promise!Next

LEMMA VanishHistory ==
  ASSUME IInv, HistoryInv, NEW r \in Req, Vanish(r)
  PROVE  HistoryInv' /\ Promise!Next
  <1>1. /\ TypeOK /\ pc[r] \notin {"idle", "done", "lost"}
        /\ pc' = [pc EXCEPT ![r] = "lost"] /\ pc'[r] = "lost"
        /\ UNCHANGED <<tasks, op, told, committed>>
    BY DEF IInv, TypeOK, Vanish, Goto
  <1>2. HistoryInv'
    BY <1>1 DEF HistoryInv, CompleteOf, StandsAt, TypeOK
  <1>3. pc[r] \in Underway \cup {"written", "moved"}
    BY <1>1 DEF TypeOK, PC, Underway
  <1>4. StageOf(r) \in {"asked", "applied"} /\ StageOf(r)' = "lost"
    BY <1>1, <1>3 DEF StageOf, Underway
  <1>5. Promise!Answer(r, {"asked", "applied"}, "lost")
    BY <1>1, <1>4, VanishInv, VanishSpares, AnswerTells
  <1>6. Promise!Lose(r)
    BY <1>1, <1>5, SameTold DEF Promise!Lose
  <1>7. QED
    BY <1>2, <1>6 DEF Promise!Next

LEMMA WriteTaskHistory ==
  ASSUME IInv, HistoryInv, NEW r \in Req, WriteTask(r),
         IInv', HistoryInv', SparesOthers(r)
  PROVE  Promise!Next \/ UNCHANGED Promise!historyVars
  <1> DEFINE t == op[r].task
             new == Patched(snap[r], op[r].patch, maxPos[r], NextVersion(r))
  <1>0. /\ TypeOK /\ t \in Task /\ op[r].expected \in Nat /\ op[r].patch \in Patch
        /\ snap[r] \in Row /\ HistoryOf(t) /\ MemoryOf(r)
        /\ pc[r] = "ready" /\ op[r].kind = "update" /\ UNCHANGED <<op, told>>
        /\ tasks[t].version \in Nat /\ pc[r] \in Underway
    BY OpFields, RowFields DEF IInv, TypeOK, WriteTask, Underway
  <1>1. CASE Live(t) /\ VersionMatches(r)
    <2>1. /\ Commit([tasks EXCEPT ![t] = new]) /\ pc'[r] = "written"
      BY <1>0, <1>1 DEF WriteTask, Goto, TypeOK
    <2>2. /\ tasks'[t] = new /\ \A u \in Task \ {t} : tasks'[u] = tasks[u]
          /\ \A u \in Task : committed'[u] = committed[u] \cup {tasks'[u]}
      BY <1>0, <2>1 DEF Commit, TypeOK
    <2>3. /\ new.state = "live" /\ new.version = tasks[t].version + 1
          /\ tasks[t].state # "deleted"
      BY <1>1 DEF Patched, LiveRow, NextVersion, Live
    <2>4. /\ Promise!Grow({t}) /\ Promise!Added(t) = ContentOf(new)
          /\ UNCHANGED GoneTasks
      <3>1. {t} \in SUBSET Task
        BY <1>0
      <3> HIDE DEF new
      <3>2. QED
        BY <2>2, <2>3, <3>1, OneGrows
    <2>5. Promise!There(t)
      BY <1>0, <1>1, LiveIsThere
    <2> DEFINE v == snap[r].version
    <2>6. /\ v \in DOMAIN HistoryMap[t] /\ HistoryMap[t][v] = ContentOf(snap[r])
          /\ op[r].expected <= v /\ v <= tasks[t].version /\ v \in Nat
      <3>1. /\ snap[r] \in committed[t] /\ snap[r].state = "live"
            /\ op[r].expected <= snap[r].version
        BY <1>0 DEF MemoryOf
      <3>2. v \in DOMAIN HistoryMap[t] /\ HistoryMap[t][v] = ContentOf(snap[r])
        BY <1>0, <3>1, ContentIsIts
      <3>3. v \in 1 .. tasks[t].version
        BY <1>0, <3>2, HistoryType
      <3>4. QED
        BY <1>0, <3>1, <3>2, <3>3
    <2>7. op[r].expected # 0 => v = op[r].expected /\ v = Len(HistoryMap[t])
      <3>1. op[r].expected # 0 => op[r].expected = tasks[t].version
        BY <1>1 DEF VersionMatches
      <3>2. Len(HistoryMap[t]) = tasks[t].version
        BY <1>0, HistoryType
      <3>3. QED
        BY <1>0, <2>6, <3>1, <3>2
    <2>8. Promise!IsPatched(ContentOf(new), ContentOf(snap[r]), op[r].patch)
      BY <1>0 DEF Promise!IsPatched, ContentOf, Patched, LiveRow, MovesColumn
    <2>9. Promise!Update(r)
      BY <1>0, <2>4, <2>5, <2>6, <2>7, <2>8 DEF Promise!Update
    <2>10. QED
      BY <1>0, <2>1, <2>9, Applies
  <1>2. CASE ~(Live(t) /\ VersionMatches(r))
    <2>1. UNCHANGED <<tasks, committed, op, told>>
      BY <1>2 DEF WriteTask
    <2>2. \/ pc'[r] = "done" /\ reply'[r] # 200
          \/ pc'[r] = "conflict"
      BY <1>0, <1>2 DEF WriteTask, Answer, Goto, TypeOK
    <2>3. CASE pc'[r] = "conflict"
      BY <1>0, <2>1, <2>3, GoesOn DEF Underway
    <2>4. QED
      BY <1>0, <2>1, <2>2, <2>3, Refuses
  <1>3. QED
    BY <1>1, <1>2

LEMMA InsertTaskHistory ==
  ASSUME IInv, HistoryInv, NEW r \in Req, InsertTask(r),
         IInv', HistoryInv', SparesOthers(r)
  PROVE  Promise!Next
  <1> DEFINE t == op[r].task
             new == LiveRow(op[r].patch.title, op[r].column, maxPos[r] + 1,
                            op[r].column = Done, 1)
  <1>0. /\ TypeOK /\ t \in Task /\ pc[r] = "ready" /\ op[r].kind = "create"
        /\ UNCHANGED <<op, told>> /\ pc'[r] = "written" /\ pc[r] \in Underway
        /\ Commit([tasks EXCEPT ![t] = new])
    BY OpFields DEF IInv, TypeOK, InsertTask, Goto, Underway
  <1>1. tasks[t].state = "absent" /\ tasks[t].version = 0
    BY <1>0 DEF IInv, CreationOf, HistoryOf
  <1>2. /\ tasks'[t] = new /\ \A u \in Task \ {t} : tasks'[u] = tasks[u]
        /\ \A u \in Task : committed'[u] = committed[u] \cup {tasks'[u]}
    BY <1>0 DEF Commit, TypeOK
  <1>3. new.state = "live" /\ new.version = tasks[t].version + 1
    BY <1>1 DEF LiveRow
  <1>4. /\ Promise!Grow({t}) /\ Promise!Added(t) = ContentOf(new)
        /\ UNCHANGED GoneTasks
    <2>1. tasks[t].state # "deleted" /\ {t} \in SUBSET Task
      BY <1>0, <1>1
    <2> HIDE DEF new
    <2>2. QED
      BY <1>2, <1>3, <2>1, OneGrows
  <1>5. HistoryMap[t] = <<>>
    BY <1>0, <1>1, HistoryType, EmptySeq
  <1>6. /\ ContentOf(new).title = op[r].patch.title
        /\ ContentOf(new).status = op[r].column
        /\ ContentOf(new).completed = (op[r].column = Done)
    BY DEF ContentOf, LiveRow
  <1>7. Promise!Create(r)
    BY <1>0, <1>4, <1>5, <1>6 DEF Promise!Create
  <1>8. QED
    BY <1>0, <1>7, Applies

LEMMA DeleteTaskHistory ==
  ASSUME IInv, HistoryInv, NEW r \in Req, DeleteTask(r),
         IInv', HistoryInv', SparesOthers(r)
  PROVE  Promise!Next
  <1> DEFINE t == op[r].task
  <1>0. /\ TypeOK /\ t \in Task /\ pc[r] = "ready" /\ op[r].kind = "delete"
        /\ UNCHANGED <<op, told>> /\ pc[r] \in Underway
        /\ \A u \in Task : tasks[u] \in Row
    BY OpFields DEF IInv, TypeOK, DeleteTask, Underway
  <1>1. CASE Live(t)
    <2>1. Commit([tasks EXCEPT ![t] = Deleted(tasks[t])]) /\ pc'[r] = "written"
      BY <1>0, <1>1 DEF DeleteTask, Goto, TypeOK
    <2>2. /\ tasks'[t] = Deleted(tasks[t]) /\ \A u \in Task \ {t} : tasks'[u] = tasks[u]
          /\ \A u \in Task : committed[u] \subseteq committed'[u]
      BY <1>0, <2>1 DEF Commit, TypeOK
    <2>3. tasks'[t].version = tasks[t].version /\ tasks'[t].state = "deleted"
      BY <1>0, <2>2 DEF Deleted, Row
    <2>4. UNCHANGED HistoryMap
      <3>1. \A u \in Task : HistoryMap'[u] = HistoryMap[u]
        BY <2>2, <2>3, HistoryStays
      <3>2. QED
        BY <3>1 DEF HistoryMap
    <2>5. GoneTasks' = GoneTasks \cup {t}
      BY <1>0, <2>2, <2>3 DEF GoneTasks
    <2>6. Promise!There(t)
      BY <1>0, <1>1, LiveIsThere
    <2>7. Promise!Delete(r)
      BY <1>0, <2>4, <2>5, <2>6 DEF Promise!Delete
    <2>8. QED
      BY <1>0, <2>1, <2>7, Applies
  <1>2. CASE ~Live(t)
    <2>1. UNCHANGED <<tasks, committed>> /\ pc'[r] = "done" /\ reply'[r] # 200
      BY <1>0, <1>2 DEF DeleteTask, Answer, Goto, TypeOK
    <2>2. QED
      BY <1>0, <2>1, Refuses
  <1>3. QED
    BY <1>1, <1>2

LEMMA CommitReorderHistory ==
  ASSUME IInv, HistoryInv, NEW r \in Req, CommitReorder(r),
         IInv', HistoryInv', SparesOthers(r)
  PROVE  Promise!Next
  <1> DEFINE S == {op[r].order[i] : i \in DOMAIN op[r].order}
  <1>0. /\ TypeOK /\ pc[r] = "moving" /\ op[r].kind = "reorder" /\ S = Listed(r)
        /\ UNCHANGED <<op, told>> /\ pc'[r] = "moved" /\ pc[r] \in Underway
        /\ Commit([t \in Task |-> IF t \in Listed(r) THEN Placed(r, t) ELSE tasks[t]])
        /\ moved[r] = Len(op[r].order)
    BY DEF IInv, TypeOK, CommitReorder, Goto, Underway, OrderOf, Listed
  <1>1. /\ \A t \in S : t \in Task /\ Live(t) /\ tasks[t].status = op[r].column
        /\ \A i \in DOMAIN op[r].order : PlaceOf(r, op[r].order[i]) = i - 1
    BY <1>0, OrderIsLocked DEF InColumn
  <1> HIDE DEF S
  <1>2. /\ \A t \in S : tasks'[t] = Placed(r, t)
        /\ \A t \in Task \ S : tasks'[t] = tasks[t]
        /\ \A t \in Task : committed'[t] = committed[t] \cup {tasks'[t]}
    BY <1>0, <1>1 DEF Commit
  <1>3. \A t \in S : /\ tasks[t].state # "deleted" /\ tasks'[t].state = "live"
                     /\ tasks'[t].version = tasks[t].version + 1
    <2>1. SUFFICES ASSUME NEW t \in S
                   PROVE  /\ tasks[t].state # "deleted" /\ tasks'[t].state = "live"
                          /\ tasks'[t].version = tasks[t].version + 1
      OBVIOUS
    <2>2. tasks'[t] = Placed(r, t) /\ tasks[t].state = "live"
      BY <1>1, <1>2 DEF Live
    <2>3. QED
      BY <2>2 DEF Placed, Moved, LiveRow
  <1>4. /\ Promise!Grow(S) /\ UNCHANGED GoneTasks
        /\ \A t \in S : Promise!Added(t) = ContentOf(tasks'[t])
    BY <1>1, <1>2, <1>3, OneGrows
  <1>5. ASSUME NEW i \in DOMAIN op[r].order
        PROVE  LET t == op[r].order[i] IN
               /\ Promise!There(t) /\ Promise!Newest(t).status = op[r].column
               /\ Promise!Added(t) = [Promise!Newest(t) EXCEPT !.pos = i - 1]
    <2> DEFINE t == op[r].order[i]
    <2>1. t \in S /\ PlaceOf(r, t) = i - 1
      BY <1>1 DEF S
    <2>2. Promise!There(t) /\ Promise!Newest(t) = ContentOf(tasks[t])
      BY <1>1, <2>1, LiveIsThere
    <2>3. ContentOf(tasks'[t]) = [ContentOf(tasks[t]) EXCEPT !.pos = i - 1]
      <3>1. tasks'[t] = LiveRow(tasks[t].title, tasks[t].status, i - 1,
                                tasks[t].completed, tasks[t].version + 1)
        BY <1>2, <2>1 DEF Placed, Moved
      <3> HIDE DEF t
      <3>2. QED
        BY <3>1 DEF LiveRow, ContentOf
    <2>4. QED
      <3>1. ContentOf(tasks[t]).status = tasks[t].status
        BY DEF ContentOf
      <3>2. Promise!Added(t) = ContentOf(tasks'[t]) /\ tasks[t].status = op[r].column
        BY <1>1, <1>4, <2>1
      <3>3. QED
        BY <2>2, <2>3, <3>1, <3>2
  <1>6. Promise!Reorder(r)
    BY <1>0, <1>4, <1>5 DEF Promise!Reorder, S
  <1>7. QED
    BY <1>0, <1>6, Applies

\* The steps that write no task.
LEMMA OtherStepHistory ==
  ASSUME IInv, HistoryInv, NEW r \in Req, Step(r), IInv', SparesOthers(r),
         ~(WriteTask(r) \/ InsertTask(r) \/ DeleteTask(r) \/ CommitReorder(r))
  PROVE  Promise!Next \/ UNCHANGED Promise!historyVars
  <1>0. /\ TypeOK /\ UNCHANGED <<tasks, committed, op>> /\ told \subseteq told'
    BY DEF IInv, Step, ReadTask, ReadEndOfColumn, RejectAssignees, AnswerConflict,
       ListColumn, MoveTask, AbortDeadlock, ReadOrder, ReadColumn, CountColumn,
       DropColumn, Publish
  <1>1. CASE ReadTask(r) \/ ReadEndOfColumn(r) \/ RejectAssignees(r) \/ AnswerConflict(r)
    <2>1. /\ pc[r] \in Underway
          /\ \/ pc'[r] = "done" /\ reply'[r] # 200
             \/ pc'[r] \in Underway /\ UNCHANGED told
      BY <1>0, <1>1 DEF ReadTask, ReadEndOfColumn, RejectAssignees, AnswerConflict,
         Answer, Goto, TypeOK, Underway, MissingRow
    <2>2. QED
      BY <1>0, <2>1, Refuses, GoesOn
  <1>2. CASE ListColumn(r) \/ MoveTask(r) \/ AbortDeadlock(r) \/ ReadColumn(r) \/ CountColumn(r)
    <2>1. /\ pc[r] \in Underway /\ UNCHANGED told
          /\ \/ pc'[r] = "done" /\ reply'[r] # 200
             \/ pc'[r] \in Underway
      BY <1>0, <1>2 DEF ListColumn, MoveTask, AbortDeadlock, ReadColumn, CountColumn,
         Answer, Goto, TypeOK, Underway, MissingRow
    <2>2. QED
      BY <1>0, <2>1, Refuses, GoesOn
  <1>3. CASE DropColumn(r)
    <2>1. /\ pc[r] \in Underway /\ UNCHANGED told /\ op[r].kind = "dropColumn"
          /\ \/ pc'[r] = "done" /\ reply'[r] # 200
             \/ pc'[r] = "written"
      BY <1>0, <1>3 DEF DropColumn, Answer, Goto, TypeOK, Underway
    <2>2. Promise!DropColumn(r)
      BY <1>0, <2>1, SameRows DEF Promise!DropColumn
    <2>3. QED
      BY <1>0, <2>1, <2>2, Refuses, Applies
  <1>4. CASE Publish(r) \/ ReadOrder(r)
    <2>1. /\ pc[r] \in {"written", "moved"} /\ pc'[r] = "done"
          /\ \/ reply'[r] = 200
             \/ reply'[r] # 200 /\ pc[r] = "moved"
      BY <1>0, <1>4 DEF Publish, ReadOrder, Answer, Goto, TypeOK
    <2>2. StageOf(r) \in {"applied"}
      BY <2>1 DEF StageOf
    <2>3. StageOf(r)' = IF reply'[r] = 200 THEN "granted" ELSE "refused"
      BY <2>1 DEF StageOf
    <2>4. CASE reply'[r] = 200
      <3>1. Promise!Grant(r)
        BY <1>0, <2>2, <2>3, <2>4, AnswerTells DEF Promise!Grant
      <3>2. QED
        BY <3>1 DEF Promise!Next
    <2>5. CASE reply'[r] # 200
      <3>1. op[r].kind = "reorder"
        BY <2>1, <2>5 DEF HistoryInv, StandsAt
      <3>2. Promise!Answer(r, {"applied"}, "refused")
        BY <1>0, <2>2, <2>3, <2>5, AnswerTells
      <3>3. QED
        BY <3>1, <3>2 DEF Promise!Next, Promise!Refuse
    <2>6. QED
      BY <2>4, <2>5
  <1>5. QED
    BY <1>1, <1>2, <1>3, <1>4 DEF Step

LEMMA NextHistory ==
  IInv /\ HistoryInv /\ [Next]_vars =>
     HistoryInv' /\ [Promise!Next]_Promise!historyVars
  <1>1. ASSUME IInv, HistoryInv, UNCHANGED vars
        PROVE  HistoryInv' /\ UNCHANGED Promise!historyVars
    <2>1. HistoryInv'
      BY <1>1 DEF vars, HistoryInv, CompleteOf, StandsAt
    <2>2. UNCHANGED StageMap
      BY <1>1 DEF vars, StageMap, StageOf
    <2>3. QED
      BY <1>1, <2>1, <2>2, SameRows, SameTold DEF vars, Promise!historyVars
  <1>2. ASSUME IInv, HistoryInv, NEW r \in Req, Step(r)
        PROVE  HistoryInv' /\ (Promise!Next \/ UNCHANGED Promise!historyVars)
    <2>1. IInv' /\ HistoryInv' /\ SparesOthers(r)
      BY <1>2, StepInv, StepHistoryInv, StepSpares
    <2>2. QED
      BY <1>2, <2>1, WriteTaskHistory, InsertTaskHistory, DeleteTaskHistory,
         CommitReorderHistory, OtherStepHistory
  <1>3. QED
    BY <1>1, <1>2, StartHistory, VanishHistory DEF Next

\* Every behaviour of the tasks is one that TaskHistory allows: each request takes
\* effect at one moment or not at all, a PATCH with If-Match on the newest content of
\* its task, and what a client is told of a version is its content.
THEOREM TasksHaveHistories == Spec => ImplementsHistory
  <1>1. QED
    BY Invariance, InitHistory, NextHistory, PTL DEF Spec, ImplementsHistory, Promise!Spec
=============================================================================
