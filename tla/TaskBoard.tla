------------------------------ MODULE TaskBoard ------------------------------
(***************************************************************************)
(* The task half of task-service: HTTP handler, TaskService and the       *)
(* Postgres repository, for concurrent requests against the tables        *)
(* `tasks` and `task_columns`.                                             *)
(*                                                                         *)
(* TaskService holds no lock and opens no transaction of its own: every    *)
(* call of the repository is one SQL statement that commits by itself, so  *)
(* a request is a sequence of steps, one per statement, and any other      *)
(* request may run between two of them.  Only ReorderTasksInColumn runs in *)
(* a transaction (READ COMMITTED), which holds a row lock on every row it  *)
(* has updated until it ends.                                              *)
(*                                                                         *)
(* A row keeps what the properties tell apart: `title` stands for every    *)
(* column that a PATCH copies over (title, description, priority, due      *)
(* date, assignees, tags), next to the status, the position, the           *)
(* completion mark and the version that the code computes.                 *)
(***************************************************************************)
EXTENDS Integers, Sequences, FiniteSets

CONSTANTS
    Task,          \* ids of tasks, those not created yet included
    Existing,      \* the tasks the board starts with, all in column Home
    Column,        \* ids of columns; a status is a column id
    Home,
    Done,          \* the status "done"
    Value,         \* values of the copied columns
    Keep,          \* "the PATCH does not name this column"
    NoReq,         \* "nobody holds this row lock"
    Req,           \* HTTP requests and agent commands, each runs once
    Kinds,         \* which kinds of request this instance sends
    PatchInputs,   \* which PATCH bodies
    NoRowsMatches  \* does the driver's "no rows" error match sql.ErrNoRows?

Patch == [title : Value \cup {Keep},
          status : Column \cup {Keep},
          completed : {"keep", "set", "clear"}]

OpKind == {"create", "update", "delete", "reorder", "dropColumn"}

\* An update is a PATCH with If-Match or overwrites whatever version it finds.
AllKinds == {"patch", "overwrite"} \cup (OpKind \ {"update"})

ASSUME BoardAssumption ==
    /\ IsFiniteSet(Task) /\ Task # {} /\ Value # {}
    /\ Existing \subseteq Task
    /\ Home \in Column /\ Done \in Column
    /\ Keep \notin Value \cup Column
    /\ NoReq \notin Req
    /\ Kinds \subseteq AllKinds
    /\ PatchInputs \subseteq Patch
    /\ NoRowsMatches \in BOOLEAN

VARIABLES
    tasks,       \* tasks[t]: the committed row of task t
    columns,     \* ids of the columns that are not deleted
    rowLock,     \* rowLock[t]: the transaction that holds t's row lock
    pc,          \* pc[r]: where request r is in its handler
    op,          \* op[r]: what request r asks for
    snap,        \* snap[r]: the row it read; then the row it wrote or answers
    maxPos,      \* maxPos[r]: what MaxSortPosition answered
    moved,       \* moved[r]: rows its reorder transaction has updated so far
    reply,       \* reply[r]: the status code of the answer
    told,        \* <<task, row>> pairs sent to clients, in replies and events
    committed    \* committed[t]: every row ever committed for t (history)

vars == <<tasks, columns, rowLock, pc, op, snap, maxPos, moved, reply, told,
          committed>>

request == <<op, snap, maxPos, moved>>

Row == [state : {"absent", "live", "deleted"},
        title : Value \cup {Keep},
        status : Column,
        pos : Int,
        completed : BOOLEAN,
        version : Nat]

Absent == [state |-> "absent", title |-> Keep, status |-> Home, pos |-> 0,
           completed |-> FALSE, version |-> 0]

Op == [kind : OpKind, task : Task, expected : Nat, patch : Patch,
       column : Column, order : Seq(Task)]

PC == {"idle", "begin", "read", "ready", "conflict", "moving", "moved",
       "written", "done", "lost"}

\* 0 is "not answered"; a vanished request keeps it.
Code == {0, 200, 400, 404, 412, 500, 502}

LiveRow(title, status, pos, completed, version) ==
    [state |-> "live", title |-> title, status |-> status, pos |-> pos,
     completed |-> completed, version |-> version]

Live(t) == tasks[t].state = "live"
InColumn(c) == {t \in Task : Live(t) /\ tasks[t].status = c}
Listed(r) == {op[r].order[i] : i \in DOMAIN op[r].order}

\* The position of t in the order that request r asks for, from 0.
PlaceOf(r, t) == (CHOOSE i \in DOMAIN op[r].order : op[r].order[i] = t) - 1

-----------------------------------------------------------------------------
Request(kind, t, e, p, c, o) ==
    [kind |-> kind, task |-> t, expected |-> e, patch |-> p, column |-> c,
     order |-> o]

AnyTask == CHOOSE t \in Task : TRUE
TitleOnly(v) == [title |-> v, status |-> Keep, completed |-> "keep"]
NoOp == Request("update", AnyTask, 0, TitleOnly(Keep), Home, <<>>)

Init ==
    /\ \E place \in [Existing -> 0 .. (Cardinality(Existing) - 1)] :
          /\ \A t, u \in Existing : place[t] = place[u] => t = u
          /\ tasks = [t \in Task |->
                        IF t \in Existing
                        THEN LiveRow(CHOOSE v \in Value : TRUE, Home, place[t],
                                     Home = Done, 1)
                        ELSE Absent]
    /\ columns = Column
    /\ rowLock = [t \in Task |-> NoReq]
    /\ pc = [r \in Req |-> "idle"]
    /\ op = [r \in Req |-> NoOp]
    /\ snap = [r \in Req |-> Absent]
    /\ maxPos = [r \in Req |-> -1]
    /\ moved = [r \in Req |-> 0]
    /\ reply = [r \in Req |-> 0]
    /\ told = {}
    /\ committed = [t \in Task |-> {tasks[t]}]

-----------------------------------------------------------------------------
(* Building blocks of the handlers.                                        *)

Goto(r, label) == pc' = [pc EXCEPT ![r] = label]

\* writeJSON / writeServiceError: the request ends with this status code.
Answer(r, code) == Goto(r, "done") /\ reply' = [reply EXCEPT ![r] = code]

\* What the handler answers when a SELECT finds no row: GetByID compares the
\* driver's error with sql.ErrNoRows, and an error it does not recognise is a 500.
MissingRowUnmapped == 410
MissingRow == IF NoRowsMatches THEN 404 ELSE 500

\* One committed statement replaces rows; the history keeps them.
Commit(newTasks) ==
    /\ tasks' = newTasks
    /\ committed' = [t \in Task |-> committed[t] \cup {newTasks[t]}]

\* MaxSortPosition, -1 on an empty column.
ReadMax(r, c) ==
    \E m \in {-1} \cup {tasks[t].pos : t \in InColumn(c)} :
        /\ \A t \in InColumn(c) : tasks[t].pos <= m
        /\ maxPos' = [maxPos EXCEPT ![r] = m]

MovesColumn(row, p) == p.status # Keep /\ p.status # row.status

\* TaskService.Update on its copy of the row: the fields the PATCH names, the
\* end of the new column, and completedAt, which is set on entering "done".
Patched(row, p, last, version) ==
    LET status == IF p.status = Keep THEN row.status ELSE p.status IN
    LiveRow(IF p.title = Keep THEN row.title ELSE p.title,
            status,
            IF MovesColumn(row, p) THEN last + 1 ELSE row.pos,
            \/ p.completed = "set"
            \/ p.completed = "keep" /\ (row.completed \/ status = Done),
            version)

-----------------------------------------------------------------------------
(* A request arrives.  Every client sends a version it was once shown,     *)
(* or none (no If-Match header, or an agent command: SkipVersionCheck).    *)

StartUpdate(r) ==
    /\ pc[r] = "idle"
    /\ \E t \in Task, p \in PatchInputs :
        /\ tasks[t].state # "absent"
        /\ \E e \in 0 .. tasks[t].version :
              /\ (IF e = 0 THEN "overwrite" ELSE "patch") \in Kinds
              /\ op' = [op EXCEPT ![r] = Request("update", t, e, p, Home, <<>>)]
    /\ Goto(r, "begin")
    /\ UNCHANGED <<tasks, columns, rowLock, snap, maxPos, moved, reply, told,
                   committed>>

\* The id is random: no two requests create the same task.
StartCreate(r) ==
    /\ pc[r] = "idle"
    /\ "create" \in Kinds
    /\ \E t \in Task, v \in Value, c \in Column :
        /\ tasks[t].state = "absent"
        /\ \A q \in Req : ~(op[q].kind = "create" /\ op[q].task = t)
        /\ op' = [op EXCEPT ![r] = Request("create", t, 0, TitleOnly(v), c, <<>>)]
    /\ Goto(r, "begin")
    /\ UNCHANGED <<tasks, columns, rowLock, snap, maxPos, moved, reply, told,
                   committed>>

StartDelete(r) ==
    /\ pc[r] = "idle"
    /\ "delete" \in Kinds
    /\ \E t \in Task :
        /\ tasks[t].state # "absent"
        /\ op' = [op EXCEPT ![r] = Request("delete", t, 0, TitleOnly(Keep), Home, <<>>)]
    /\ Goto(r, "begin")
    /\ UNCHANGED <<tasks, columns, rowLock, snap, maxPos, moved, reply, told,
                   committed>>

\* The ids a client saw in the column, in any order, without repetition.
Orders(S) == {s \in [1 .. Cardinality(S) -> S] :
                \A i, j \in DOMAIN s : s[i] = s[j] => i = j}

StartReorder(r) ==
    /\ pc[r] = "idle"
    /\ "reorder" \in Kinds
    /\ \E c \in Column : \E S \in SUBSET {t \in Task : tasks[t].state # "absent"} :
        /\ S # {}
        /\ \E s \in Orders(S) :
             op' = [op EXCEPT ![r] =
                      Request("reorder", AnyTask, 0, TitleOnly(Keep), c, s)]
    /\ Goto(r, "begin")
    /\ UNCHANGED <<tasks, columns, rowLock, snap, maxPos, moved, reply, told,
                   committed>>

StartDropColumn(r) ==
    /\ pc[r] = "idle"
    /\ "dropColumn" \in Kinds
    /\ \E c \in Column :
          op' = [op EXCEPT ![r] =
                   Request("dropColumn", AnyTask, 0, TitleOnly(Keep), c, <<>>)]
    /\ Goto(r, "begin")
    /\ UNCHANGED <<tasks, columns, rowLock, snap, maxPos, moved, reply, told,
                   committed>>

Start(r) == \/ StartUpdate(r) \/ StartCreate(r) \/ StartDelete(r)
            \/ StartReorder(r) \/ StartDropColumn(r)

-----------------------------------------------------------------------------
(* PATCH /v1/tasks/{id} and the agent's update command.                    *)

\* repo.GetByID: the snapshot the new row is computed from.  The handler reads
\* the row before, too, to ask for the permission; that read decides nothing
\* else.  A PATCH that moves the task still has to ask for the end of the new
\* column.
ReadTask(r) ==
    /\ pc[r] = "begin"
    /\ op[r].kind \in {"update", "delete"}
    /\ LET t == op[r].task IN
       IF Live(t)
       THEN /\ snap' = [snap EXCEPT ![r] = tasks[t]]
            /\ Goto(r, IF op[r].kind = "update" /\ MovesColumn(tasks[t], op[r].patch)
                       THEN "read" ELSE "ready")
            /\ UNCHANGED reply
       ELSE Answer(r, MissingRow) /\ UNCHANGED snap
    /\ UNCHANGED <<tasks, columns, rowLock, op, maxPos, moved, told, committed>>

\* repo.MaxSortPosition, for the column a PATCH or a new task moves into.
ReadEndOfColumn(r) ==
    /\ \/ pc[r] = "read" /\ op[r].kind = "update" /\ ReadMax(r, op[r].patch.status)
       \/ pc[r] = "begin" /\ op[r].kind = "create" /\ ReadMax(r, op[r].column)
    /\ Goto(r, "ready")
    /\ UNCHANGED <<tasks, columns, rowLock, op, snap, moved, reply, told, committed>>

\* resolveAssignees: user-service does not answer, or does not know the user.
RejectAssignees(r) ==
    /\ \/ pc[r] = "ready" /\ op[r].kind = "update" /\ op[r].patch.title # Keep
       \/ pc[r] = "begin" /\ op[r].kind = "create"
    /\ \E code \in {400, 502} : Answer(r, code)
    /\ UNCHANGED <<tasks, columns, rowLock, op, snap, maxPos, moved, told, committed>>

\* The WHERE and SET clauses are evaluated on the committed row, not on the
\* snapshot in the handler's memory (the variants *InMemory and *OffByOne are
\* what they would be otherwise).
VersionMatchesInMemory(r) == op[r].expected \in {0, snap[r].version}
VersionMatchesOffByOne(r) == op[r].expected \in {0, tasks[op[r].task].version + 1}
VersionMatches(r) == op[r].expected \in {0, tasks[op[r].task].version}

NextVersionInMemory(r) == snap[r].version + 1
NextVersion(r) == tasks[op[r].task].version + 1

\* repo.Update / repo.UpdateIfVersion: one UPDATE of every copied column, which
\* waits for the row lock and then evaluates its WHERE clause.
WriteTask(r) ==
    /\ pc[r] = "ready"
    /\ op[r].kind = "update"
    /\ LET t == op[r].task
           new == Patched(snap[r], op[r].patch, maxPos[r], NextVersion(r))
       IN  /\ rowLock[t] = NoReq
           /\ IF Live(t) /\ VersionMatches(r)
              THEN /\ Commit([tasks EXCEPT ![t] = new])
                   /\ snap' = [snap EXCEPT ![r] = new]
                   /\ Goto(r, "written")
                   /\ UNCHANGED reply
              ELSE /\ IF NoRowsMatches
                      THEN IF op[r].expected = 0 \/ ~Live(t)
                           THEN Answer(r, 404)
                           ELSE Goto(r, "conflict") /\ UNCHANGED reply
                      ELSE Answer(r, 500)
                   /\ UNCHANGED <<tasks, committed, snap>>
    /\ UNCHANGED <<columns, rowLock, op, maxPos, moved, told>>

\* The row moved on: read it again and answer 412 with it.
AnswerConflict(r) ==
    /\ pc[r] = "conflict"
    /\ LET t == op[r].task IN
       IF Live(t)
       THEN /\ snap' = [snap EXCEPT ![r] = tasks[t]]
            /\ told' = told \cup {<<t, tasks[t]>>}
            /\ Answer(r, 412)
       ELSE Answer(r, MissingRow) /\ UNCHANGED <<snap, told>>
    /\ UNCHANGED <<tasks, columns, rowLock, op, maxPos, moved, committed>>

-----------------------------------------------------------------------------
(* POST /v1/tasks and DELETE /v1/tasks/{id}.                               *)

InsertTask(r) ==
    /\ pc[r] = "ready"
    /\ op[r].kind = "create"
    /\ LET new == LiveRow(op[r].patch.title, op[r].column, maxPos[r] + 1,
                          op[r].column = Done, 1)
       IN  /\ Commit([tasks EXCEPT ![op[r].task] = new])
           /\ snap' = [snap EXCEPT ![r] = new]
    /\ Goto(r, "written")
    /\ UNCHANGED <<columns, rowLock, op, maxPos, moved, reply, told>>

\* repo.Delete keeps the row and its version; only deleted_at is set.
Deleted(row) == [row EXCEPT !.state = "deleted"]

DeleteTask(r) ==
    /\ pc[r] = "ready"
    /\ op[r].kind = "delete"
    /\ LET t == op[r].task IN
       /\ rowLock[t] = NoReq
       /\ IF Live(t)
          THEN /\ Commit([tasks EXCEPT ![t] = Deleted(tasks[t])])
               /\ Goto(r, "written")
               /\ UNCHANGED reply
          ELSE Answer(r, 404) /\ UNCHANGED <<tasks, committed>>
    /\ UNCHANGED <<columns, rowLock, op, snap, maxPos, moved, told>>

-----------------------------------------------------------------------------
(* POST /v1/tasks?action=reorder: one transaction.                         *)

\* A rollback that is forgotten, and the deferred tx.Rollback or the commit.
ReleaseForgotten(r) == UNCHANGED rowLock
Release(r) == rowLock' = [t \in Task |-> IF rowLock[t] = r THEN NoReq ELSE rowLock[t]]

\* The ids of the column must be exactly the ids of the request.
ListColumn(r) ==
    /\ pc[r] = "begin"
    /\ op[r].kind = "reorder"
    /\ IF Listed(r) = InColumn(op[r].column)
       THEN Goto(r, "moving") /\ UNCHANGED reply
       ELSE Answer(r, 400)
    /\ UNCHANGED <<tasks, columns, rowLock, op, snap, maxPos, moved, told, committed>>

NextMove(r) == op[r].order[moved[r] + 1]

\* The WHERE clause of that UPDATE, without and with its status.
MovableAnywhere(r, t) == Live(t)
Movable(r, t) == t \in InColumn(op[r].column)

\* UPDATE of one row, which stays locked and invisible until the commit.  No
\* such row in the column any more: the transaction is rolled back.
MoveTask(r) ==
    /\ pc[r] = "moving"
    /\ moved[r] < Len(op[r].order)
    /\ rowLock[NextMove(r)] \in {NoReq, r}
    /\ IF Movable(r, NextMove(r))
       THEN /\ rowLock' = [rowLock EXCEPT ![NextMove(r)] = r]
            /\ moved' = [moved EXCEPT ![r] = @ + 1]
            /\ UNCHANGED <<pc, reply>>
       ELSE Release(r) /\ Answer(r, 400) /\ UNCHANGED moved
    /\ UNCHANGED <<tasks, columns, op, snap, maxPos, told, committed>>

Moved(row, pos, version) ==
    LiveRow(row.title, row.status, pos, row.completed, version)
Placed(r, t) == Moved(tasks[t], PlaceOf(r, t), tasks[t].version + 1)

CommitReorder(r) ==
    /\ pc[r] = "moving"
    /\ moved[r] = Len(op[r].order)
    /\ Commit([t \in Task |-> IF t \in Listed(r) THEN Placed(r, t) ELSE tasks[t]])
    /\ Release(r)
    /\ Goto(r, "moved")
    /\ UNCHANGED <<columns, op, snap, maxPos, moved, reply, told>>

\* Postgres: transactions that wait for each other in a circle; one is aborted.
InDeadlock(r) ==
    \E S \in SUBSET Req :
        /\ r \in S
        /\ \A q \in S : pc[q] = "moving" /\ moved[q] < Len(op[q].order)
        /\ {rowLock[NextMove(q)] : q \in S} = S
        /\ \A q \in S : rowLock[NextMove(q)] # q

AbortDeadlock(r) ==
    /\ pc[r] = "moving"
    /\ InDeadlock(r)
    /\ Release(r)
    /\ Answer(r, 500)
    /\ UNCHANGED <<tasks, columns, op, snap, maxPos, moved, told, committed>>

\* After the commit every task is read again (one SELECT each, taken as one
\* here); one that is gone by now makes the whole request fail, and nobody is
\* told of the new order.
ReadOrder(r) ==
    /\ pc[r] = "moved"
    /\ IF \A t \in Listed(r) : Live(t)
       THEN /\ told' = told \cup {<<t, tasks[t]>> : t \in Listed(r)}
            /\ Answer(r, 200)
       ELSE Answer(r, MissingRow) /\ UNCHANGED told
    /\ UNCHANGED <<tasks, columns, rowLock, op, snap, maxPos, moved, committed>>

-----------------------------------------------------------------------------
(* DELETE /v1/task-columns/{id}: a column with tasks is refused.           *)

ReadColumn(r) ==
    /\ pc[r] = "begin"
    /\ op[r].kind = "dropColumn"
    /\ IF op[r].column \in columns
       THEN Goto(r, "read") /\ UNCHANGED reply
       ELSE Answer(r, MissingRow)
    /\ UNCHANGED <<tasks, columns, rowLock, op, snap, maxPos, moved, told, committed>>

\* repo.CountByProjectAndStatus
CountColumn(r) ==
    /\ pc[r] = "read"
    /\ op[r].kind = "dropColumn"
    /\ IF InColumn(op[r].column) = {}
       THEN Goto(r, "ready") /\ UNCHANGED reply
       ELSE Answer(r, 400)
    /\ UNCHANGED <<tasks, columns, rowLock, op, snap, maxPos, moved, told, committed>>

DropColumn(r) ==
    /\ pc[r] = "ready"
    /\ op[r].kind = "dropColumn"
    /\ IF op[r].column \in columns
       THEN /\ columns' = columns \ {op[r].column}
            /\ Goto(r, "written")
            /\ UNCHANGED reply
       ELSE Answer(r, 404) /\ UNCHANGED columns
    /\ UNCHANGED <<tasks, rowLock, op, snap, maxPos, moved, told, committed>>

-----------------------------------------------------------------------------
\* RabbitMQ event, board broadcast, activity record, then the answer: all
\* after the commit, errors ignored.  The row they carry is the one the
\* handler built in memory, it is not read back.
Publish(r) ==
    /\ pc[r] = "written"
    /\ told' = told \cup (IF op[r].kind \in {"update", "create"}
                          THEN {<<op[r].task, snap[r]>>} ELSE {})
    /\ Answer(r, 200)
    /\ UNCHANGED <<tasks, columns, rowLock, op, snap, maxPos, moved, committed>>

\* The process dies under the request; Postgres rolls its transaction back.
Vanish(r) ==
    /\ pc[r] \notin {"idle", "done", "lost"}
    /\ Release(r)
    /\ Goto(r, "lost")
    /\ UNCHANGED <<tasks, columns, op, snap, maxPos, moved, reply, told, committed>>

Step(r) ==
    \/ ReadTask(r) \/ ReadEndOfColumn(r) \/ RejectAssignees(r) \/ WriteTask(r)
    \/ AnswerConflict(r) \/ InsertTask(r) \/ DeleteTask(r)
    \/ ListColumn(r) \/ MoveTask(r) \/ CommitReorder(r) \/ AbortDeadlock(r)
    \/ ReadOrder(r) \/ ReadColumn(r) \/ CountColumn(r) \/ DropColumn(r)
    \/ Publish(r)

Next == \E r \in Req : Start(r) \/ Step(r) \/ Vanish(r)

Spec == Init /\ [][Next]_vars

\* The runtime schedules every goroutine and Postgres answers every statement
\* that no lock blocks; nobody has to send a request, and none has to vanish.
FairSpec == Spec /\ \A r \in Req : WF_vars(Step(r))

-----------------------------------------------------------------------------
(* What the service promises.                                              *)

\* Every variable stays in its domain.
TypeOK ==
    /\ tasks \in [Task -> Row]
    /\ columns \subseteq Column
    /\ rowLock \in [Task -> Req \cup {NoReq}]
    /\ pc \in [Req -> PC]
    /\ op \in [Req -> Op]
    /\ snap \in [Req -> Row]
    /\ maxPos \in [Req -> Int]
    /\ moved \in [Req -> Nat]
    /\ reply \in [Req -> Code]
    /\ told \subseteq Task \X Row
    /\ committed \in [Task -> SUBSET Row]

\* An ETag names one content: every row sent to a client, in an answer, a 412
\* or a board event, was committed exactly so, and the task never had another
\* content under the same version.
EtagNamesOneContent ==
    \A sent \in told :
        LET t == sent[1]  row == sent[2] IN
        /\ row \in committed[t]
        /\ \A other \in committed[t] :
              other.state = "live" /\ other.version = row.version => other = row

\* No lost update under If-Match: a PATCH that is accepted was computed from
\* the very row it replaces, whatever ran between its read and its write.
NoLostUpdate ==
    [][\A r \in Req :
         /\ pc[r] = "ready" /\ pc'[r] = "written"
         /\ op[r].kind = "update" /\ op[r].expected # 0
         => snap[r] = tasks[op[r].task]]_vars

\* A 412 is never spurious: the row it shows is newer than the client's.
ConflictShowsNewerRow ==
    \A r \in Req : reply[r] = 412 => snap[r].version > op[r].expected

\* The version of a task counts its contents one by one and a deleted task is
\* never written again, by requests still holding its row in memory either.
VersionCountsChanges ==
    [][\A t \in Task :
         tasks'[t] # tasks[t] =>
            /\ tasks[t].state # "deleted"
            /\ IF tasks'[t].state = "deleted"
               THEN tasks'[t] = Deleted(tasks[t])
               ELSE tasks'[t].version = tasks[t].version + 1]_vars

\* A reorder takes effect as a whole: when it commits, every task it names is
\* still in the column, not deleted, and gets its place in the requested order.
ReorderIsAtomic ==
    [][\A r \in Req :
         pc[r] = "moving" /\ pc'[r] = "moved" =>
            \A i \in DOMAIN op[r].order :
                LET t == op[r].order[i] IN
                /\ t \in InColumn(op[r].column)
                /\ tasks'[t] = Moved(tasks[t], i - 1, tasks[t].version + 1)]_vars

\* Every request is answered or dies with its process: no row lock is left
\* behind and no circle of reorders waits for ever.
EveryRequestEnds ==
    \A r \in Req : pc[r] # "idle" ~> pc[r] \in {"done", "lost"}

\* README.md:143 "optimistic concurrency through If-Match/ETag" and
\* lib/api.js:208, which waits for a 412: a stale If-Match on a task that is
\* still there is not an internal error.
StaleIfMatchIsNot500 ==
    \A r \in Req :
        /\ op[r].kind = "update" /\ op[r].expected # 0
        /\ Live(op[r].task)
        => reply[r] # 500

-----------------------------------------------------------------------------
(* The inductive invariant: why the promises hold.                         *)

\* The history of a task: its row is the newest of what was ever committed, and
\* no version was given to two contents.
HistoryOf(t) ==
    /\ tasks[t] \in committed[t]
    /\ \A x \in committed[t] :
          x.state = "live" => 1 <= x.version /\ x.version <= tasks[t].version
    /\ \A x, y \in committed[t] :
          x.state = "live" /\ y.state = "live" /\ x.version = y.version => x = y
    /\ tasks[t].state = "absent" =>
          tasks[t].version = 0 /\ \A x \in committed[t] : x.state = "absent"

\* What request r holds in memory, against the history of its task: the version
\* it was sent with is not ahead of the table, and the row it holds was
\* committed and is at least that new.
MemoryOf(r) ==
    LET t == op[r].task IN
    /\ op[r].kind = "update" => op[r].expected <= tasks[t].version
    /\ op[r].kind = "update" /\ pc[r] \in {"read", "ready"} =>
          /\ snap[r] \in committed[t] /\ snap[r].state = "live"
          /\ op[r].expected <= snap[r].version
    /\ pc[r] = "conflict" =>
          op[r].kind = "update" /\ op[r].expected < tasks[t].version
    /\ reply[r] = 412 => pc[r] = "done" /\ op[r].expected < snap[r].version
    /\ op[r].kind \in {"update", "create"} /\ pc[r] = "written" =>
          snap[r] \in committed[t] /\ snap[r].state = "live"

\* A task that is being created is not in the table yet, and nobody else is
\* creating it.
CreationOf(r) ==
    op[r].kind = "create" =>
        /\ pc[r] \in {"begin", "ready"} => tasks[op[r].task].state = "absent"
        /\ \A q \in Req \ {r} :
              op[q].kind = "create" => op[q].task # op[r].task

\* A reorder holds the lock of every row it has updated, and nobody else could
\* take that row out of the column meanwhile.
OrderOf(r) ==
    /\ \A i, j \in DOMAIN op[r].order : op[r].order[i] = op[r].order[j] => i = j
    /\ pc[r] \in {"idle", "begin"} => moved[r] = 0
    /\ pc[r] = "moving" =>
          /\ op[r].kind = "reorder"
          /\ moved[r] <= Len(op[r].order)
          /\ \A i \in 1 .. moved[r] :
                /\ rowLock[op[r].order[i]] = r
                /\ op[r].order[i] \in InColumn(op[r].column)
    /\ \A t \in Task : rowLock[t] = r => pc[r] = "moving"

\* Only committed rows are ever sent to clients.
ToldIsCommitted ==
    \A sent \in told : sent[2] \in committed[sent[1]] /\ sent[2].state = "live"

IInv ==
    /\ TypeOK
    /\ \A t \in Task : HistoryOf(t)
    /\ \A r \in Req : MemoryOf(r) /\ CreationOf(r) /\ OrderOf(r)
    /\ ToldIsCommitted

=============================================================================
