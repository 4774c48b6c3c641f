----------------------------- MODULE TaskThread -----------------------------
(***************************************************************************)
(* The comments and the history of the task in the editor of the board     *)
(* page (TasksPage.jsx), and the part of task-service behind them.         *)
(*                                                                         *)
(* Comments are numbered in the order of created_at, which is taken before *)
(* the row is written; last_read_at is the number of the last comment that *)
(* it covers.  Entries of a task's history are numbered, and listed from   *)
(* the newest.  Nothing that is under way is cancelled when the editor is  *)
(* closed or another task is opened: an answer goes to whatever is open.   *)
(***************************************************************************)
EXTENDS Naturals, Sequences, FiniteSets, SequencesExt

CONSTANTS
    Task,
    NoTask,       \* the editor is closed
    PageSize,     \* TASK_HISTORY_PAGE_SIZE
    MaxComments,  \* bound: comments
    MaxChanges,   \* bound: changes of colleagues, and editors that are opened
    MaxOps        \* bound: requests under way when the user starts more

ASSUME ThreadAssumption ==
    /\ NoTask \notin Task /\ PageSize \in Nat \ {0}
    /\ {MaxComments, MaxChanges, MaxOps} \subseteq Nat

VARIABLES
    posted,     \* task_comments, with those whose row is not written yet
    lastRead,   \* task_comment_reads of the user: [Task -> number of a comment]
    happened,   \* task_activity_events: how many a task has
    opened,     \* editorTask
    draft,      \* commentDraft is not empty
    sendingComment,  \* isSavingComment
    thread,     \* taskComments
    trail,      \* taskHistory
    more,       \* taskHistoryTotal is larger
    paging,     \* isLoadingTaskHistory
    errands,    \* requests under way
    came,       \* history: comments that came to the page in a list
    slipped,    \* history: comments written between a list and the mark that follows
    wrote,      \* history: tasks to whose thread the user has written
    torn,       \* history: a page was appended to another list than it was asked for
    changes

store == <<posted, lastRead, happened>>
editorState == <<opened, draft, sendingComment>>
threadLists == <<thread, trail, more, paging>>
judged == <<came, slipped, wrote, torn>>
threadVars == <<store, editorState, threadLists, errands, judged, changes>>

Errand(kind, t) ==
    [kind |-> kind, task |-> t, stage |-> "sent", items |-> <<>>, id |-> 0,
     append |-> FALSE, offset |-> 0, more |-> FALSE, silent |-> TRUE, alone |-> TRUE]
AsListed(e, items) == [[e EXCEPT !.stage = "listed"] EXCEPT !.items = items]
Comments(t) == Errand("comments", t)
Marking(e) == [[Comments(e.task) EXCEPT !.stage = "marking"] EXCEPT !.id = e.id]
History(t) == [Errand("history", t) EXCEPT !.silent = FALSE]
SilentHistory(t) == Errand("history", t)
Page(t, offset) == [[History(t) EXCEPT !.append = TRUE] EXCEPT !.offset = offset]

ThreadInit ==
    /\ posted = <<>> /\ lastRead = [t \in Task |-> 0] /\ happened = [t \in Task |-> 1]
    /\ opened = NoTask /\ draft = FALSE /\ sendingComment = FALSE
    /\ thread = <<>> /\ trail = <<>> /\ more = FALSE /\ paging = FALSE
    /\ errands = {} /\ came = {} /\ slipped = {} /\ wrote = {} /\ torn = FALSE
    /\ changes = 0

-----------------------------------------------------------------------------
(* Colleagues.                                                             *)

Comment(t, own, state) == [task |-> t, own |-> own, state |-> state]
Stamped(t, own) == Append(posted, Comment(t, own, "stamped"))
Turned(c, state) == [posted EXCEPT ![c].state = state]
InState(t, s) == {c \in DOMAIN posted : posted[c].task = t /\ posted[c].state = s}
Between(t) ==   \* a list was made, its mark is still to come
    \E e \in errands : e.kind = "comments" /\ e.task = t /\ e.stage \in {"listed", "marking"}
Change == changes < MaxChanges /\ changes' = changes + 1

\* AddComment of a colleague: the time, then the row.
OthersStamp ==
    /\ Change /\ Len(posted) < MaxComments
    /\ \E t \in Task :
          /\ posted' = Stamped(t, FALSE)
          /\ slipped' = IF Between(t) THEN slipped \cup {Len(posted')} ELSE slipped
    /\ UNCHANGED <<lastRead, happened, editorState, threadLists, errands, came, wrote, torn>>
OthersWriteComment ==
    /\ \E t \in Task : \E c \in InState(t, "stamped") :
          /\ ~posted[c].own
          /\ posted' = Turned(c, "there")
          /\ happened' = [happened EXCEPT ![t] = @ + 1]
    /\ UNCHANGED <<lastRead, editorState, threadLists, errands, judged, changes>>

\* A colleague changes a task; when it is the open one, its event loads the history.
OthersChange ==
    /\ Change /\ Cardinality(errands) < MaxOps
    /\ \E t \in Task :
          /\ happened' = [happened EXCEPT ![t] = @ + 1]
          /\ errands' = IF t = opened THEN errands \cup {SilentHistory(t)} ELSE errands
    /\ UNCHANGED <<posted, lastRead, editorState, threadLists, judged>>

-----------------------------------------------------------------------------
(* The editor.                                                             *)

Apart(es) == {[e EXCEPT !.alone = FALSE] : e \in es}

\* handleEditTask and the effect on it: the thread is emptied, both lists are loaded.
OpenTask ==
    /\ opened = NoTask /\ Change /\ Cardinality(errands) < MaxOps
    /\ \E t \in Task :
          opened' = t /\ errands' = Apart(errands) \cup {Comments(t), History(t)}
    /\ draft' = FALSE /\ thread' = <<>> /\ paging' = TRUE
    /\ UNCHANGED <<store, sendingComment, trail, more, judged>>

\* closeTaskEditor
CloseTask ==
    /\ opened # NoTask /\ opened' = NoTask
    /\ thread' = <<>> /\ trail' = <<>> /\ more' = FALSE
    /\ draft' = FALSE /\ sendingComment' = FALSE
    /\ errands' = Apart(errands) /\ torn' = FALSE
    /\ UNCHANGED <<store, paging, came, slipped, wrote, changes>>

TypeComment ==
    /\ opened # NoTask /\ ~draft /\ draft' = TRUE
    /\ UNCHANGED <<store, opened, sendingComment, threadLists, errands, judged, changes>>

-----------------------------------------------------------------------------
(* The lists.                                                              *)

\* What SetToSortSeq and SelectSeq return, which cannot be proved of them: a set of
\* numbers in ascending order, and a sequence without one of its elements.
Ascends(s) == \A i, j \in DOMAIN s : i < j => s[i] < s[j]
InOrder(S) == CHOOSE s \in [1 .. Cardinality(S) -> S] : Ascends(s) /\ ToSet(s) = S
Without(s, x) ==
    LET kept == InOrder({i \in DOMAIN s : s[i] # x}) IN [n \in DOMAIN kept |-> s[kept[n]]]

\* loadTaskComments: the list, and when it has come the mark.  (The variant marks
\* also when it has not.)
ThreadOf(t) == InOrder(InState(t, "there"))
ServeComments ==
    /\ \E e \in errands :
          /\ e.kind = "comments" /\ e.stage = "sent"
          /\ errands' = (errands \ {e}) \cup {AsListed(e, ThreadOf(e.task))}
          /\ slipped' = slipped \cup InState(e.task, "stamped")
    /\ UNCHANGED <<store, editorState, threadLists, came, wrote, torn, changes>>
ReceiveComments ==
    /\ \E e \in errands :
          /\ e.kind = "comments" /\ e.stage = "listed"
          /\ thread' = e.items /\ came' = came \cup ToSet(e.items)
          /\ errands' = (errands \ {e}) \cup {Marking(e)}
    /\ UNCHANGED <<store, editorState, trail, more, paging, slipped, wrote, torn, changes>>

\* comments/read; then, after a deletion, the history.  An error of the mark is ignored.
Ended(e) == IF e.id = 0 THEN {} ELSE {SilentHistory(e.task)}
MarkRead ==
    /\ \E e \in errands :
          /\ e.kind = "comments" /\ e.stage = "marking"
          /\ lastRead' = [lastRead EXCEPT ![e.task] = Len(posted)] \/ UNCHANGED lastRead
          /\ errands' = (errands \ {e}) \cup Ended(e)
    /\ UNCHANGED <<posted, happened, editorState, threadLists, judged, changes>>

MarksAnyway(e) == {Marking(e)}
AfterNoList(e) == Ended(e)
CommentsFail ==
    /\ \E e \in errands :
          /\ e.kind = "comments" /\ e.stage \in {"sent", "listed"}
          /\ errands' = (errands \ {e}) \cup AfterNoList(e)
    /\ UNCHANGED <<store, editorState, threadLists, judged, changes>>

\* handleLoadMoreTaskHistory: what is behind the entries that are shown.
NextOffset == Len(trail)
LoadMore ==
    /\ opened # NoTask /\ more /\ ~paging /\ paging' = TRUE
    /\ Cardinality(errands) < MaxOps
    /\ errands' = errands \cup {Page(opened, NextOffset)}
    /\ UNCHANGED <<store, editorState, thread, trail, more, judged, changes>>

\* listActivity: ORDER BY created_at DESC LIMIT PageSize OFFSET offset.
Entries(n, offset) ==
    [i \in 1 .. (IF n - offset < PageSize THEN n - offset ELSE PageSize) |-> n - offset - i + 1]
ServeHistory ==
    /\ \E e \in errands :
          LET n == happened[e.task] IN
          /\ e.kind = "history" /\ e.stage = "sent"
          /\ errands' = (errands \ {e}) \cup
                {[AsListed(e, IF e.offset < n THEN Entries(n, e.offset) ELSE <<>>)
                     EXCEPT !.more = n > e.offset + PageSize]}
    /\ UNCHANGED <<store, editorState, threadLists, judged, changes>>

\* loadTaskHistory: a page is appended, the first one replaces the list.
ReceiveHistory ==
    /\ \E e \in errands :
          /\ e.kind = "history" /\ e.stage = "listed"
          /\ trail' = IF e.append THEN trail \o e.items ELSE e.items
          /\ more' = e.more
          /\ torn' = (e.task # opened \/ (e.append /\ (torn \/ ~e.alone)))
          /\ paging' = (paging /\ e.silent)
          /\ sendingComment' = (sendingComment /\ e.id = 0)
          /\ errands' = Apart(errands \ {e})
    /\ UNCHANGED <<store, opened, draft, thread, came, slipped, wrote, changes>>
HistoryFails ==
    /\ \E e \in errands :
          /\ e.kind = "history" /\ errands' = errands \ {e}
          /\ paging' = (paging /\ e.silent)
          /\ sendingComment' = (sendingComment /\ e.id = 0)
    /\ UNCHANGED <<store, opened, draft, thread, trail, more, judged, changes>>

-----------------------------------------------------------------------------
(* The user writes and deletes comments.                                   *)

\* handleCommentSubmit
SubmitComment ==
    /\ opened # NoTask /\ draft /\ ~sendingComment /\ sendingComment' = TRUE
    /\ Len(posted) < MaxComments /\ Cardinality(errands) < MaxOps
    /\ errands' = errands \cup {Errand("post", opened)}
    /\ UNCHANGED <<store, opened, draft, threadLists, judged, changes>>

\* AddComment: the time is taken; the row is written, and the thread is read up to it.
StampPost ==
    /\ \E e \in errands :
          /\ e.kind = "post" /\ e.stage = "sent" /\ Len(posted) < MaxComments
          /\ posted' = Stamped(e.task, TRUE)
          /\ errands' = (errands \ {e}) \cup {[[e EXCEPT !.stage = "stamped"] EXCEPT !.id = Len(posted')]}
    /\ UNCHANGED <<lastRead, happened, editorState, threadLists, judged, changes>>
WritePost ==
    /\ \E e \in errands :
          /\ e.kind = "post" /\ e.stage = "stamped"
          /\ posted' = Turned(e.id, "there")
          /\ lastRead' = [lastRead EXCEPT ![e.task] = e.id] \* also when it was later
          /\ happened' = [happened EXCEPT ![e.task] = @ + 1]
          /\ wrote' = wrote \cup {e.task}
          /\ errands' = (errands \ {e}) \cup {[e EXCEPT !.stage = "written"]}
    /\ UNCHANGED <<editorState, threadLists, came, slipped, torn, changes>>

\* The answer: the draft is emptied, the comment shown once.  (The variant does not look
\* whether a list has brought it.)
WithCommentAgain(c) == Append(thread, c)
WithComment(c) == Append(Without(thread, c), c)
PostAnswered ==
    /\ \E e \in errands :
          /\ e.kind = "post" /\ e.stage = "written"
          /\ draft' = FALSE /\ thread' = WithComment(e.id)
          /\ errands' = (errands \ {e}) \cup {[SilentHistory(e.task) EXCEPT !.id = e.id]}
    /\ UNCHANGED <<store, opened, sendingComment, trail, more, paging, judged, changes>>

\* Refused or lost, before or after the row was written: the draft stays.
PostFails ==
    /\ \E e \in errands :
          /\ e.kind = "post" /\ errands' = errands \ {e}
          /\ posted' = IF e.stage = "stamped" THEN Turned(e.id, "gone") ELSE posted
    /\ sendingComment' = FALSE
    /\ UNCHANGED <<lastRead, happened, opened, draft, threadLists, judged, changes>>

\* handleDeleteComment, confirmed: the service deletes what the user has written, and the
\* thread and the history are loaded again.
MayDelete(c) == c > 0 /\ posted[c].own /\ posted[c].state = "there"
DeleteComment ==
    /\ opened # NoTask /\ Cardinality(errands) < MaxOps
    /\ \E c \in ToSet(thread) :
          /\ MayDelete(c) /\ posted[c].task = opened
          /\ posted' = Turned(c, "gone")
          /\ happened' = [happened EXCEPT ![opened] = @ + 1]
          /\ errands' = errands \cup {[Comments(opened) EXCEPT !.id = c]}
    /\ UNCHANGED <<lastRead, editorState, threadLists, judged, changes>>

ThreadNext ==
    \/ OthersStamp \/ OthersWriteComment \/ OthersChange
    \/ OpenTask \/ CloseTask \/ TypeComment
    \/ ServeComments \/ ReceiveComments \/ MarkRead \/ CommentsFail
    \/ LoadMore \/ ServeHistory \/ ReceiveHistory \/ HistoryFails
    \/ SubmitComment \/ StampPost \/ WritePost \/ PostAnswered \/ PostFails \/ DeleteComment

ThreadSpec == ThreadInit /\ [][ThreadNext]_threadVars

-----------------------------------------------------------------------------
CommentType == [task : Task, own : BOOLEAN, state : {"stamped", "there", "gone"}]
ErrandType ==
    [kind : {"comments", "history", "post"}, task : Task,
     stage : {"sent", "listed", "marking", "stamped", "written"}, items : Seq(Nat), id : Nat,
     append : BOOLEAN, offset : Nat, more : BOOLEAN, silent : BOOLEAN, alone : BOOLEAN]
ThreadTypeOK ==
    /\ posted \in Seq(CommentType) /\ Len(posted) <= MaxComments
    /\ lastRead \in [Task -> Nat] /\ \A t \in Task : lastRead[t] <= Len(posted)
    /\ happened \in [Task -> Nat] /\ opened \in Task \cup {NoTask}
    /\ {draft, sendingComment, more, paging, torn} \subseteq BOOLEAN
    /\ thread \in Seq(Nat) /\ trail \in Seq(Nat) /\ errands \subseteq ErrandType
    /\ ToSet(thread) \cup came \cup slipped \subseteq DOMAIN posted /\ wrote \subseteq Task
    /\ changes \in 0 .. MaxChanges

\* What a colleague wrote counts as unread (ListUnreadCommentCounts) until it came to
\* the page, unless it was written while a list of the thread was on its way to be
\* marked, or the user has written to the thread, which marks all of it.
UnreadOrCame ==
    \A t \in Task \ wrote : \A c \in InState(t, "there") :
        posted[c].own \/ c > lastRead[t] \/ c \in came \cup slipped

\* However lists, answers and changes of editor follow each other, no comment is shown
\* twice; and no entry of the history is left out between two that are shown, unless a
\* page was asked for behind a list that has been replaced since.
ThreadIsWhole ==
    /\ \A i, j \in DOMAIN thread : i # j => thread[i] # thread[j]
    /\ ~torn => \A i \in 1 .. Len(trail) - 1 : trail[i] <= trail[i + 1] + 1

-----------------------------------------------------------------------------
(* The inductive invariant of both.                                        *)

\* A list of comments on its way has each comment once; a post names a comment of its own.
NoRepeats(s) == \A i, j \in DOMAIN s : i # j => s[i] # s[j]
ErrandOf(e) ==
    /\ e.kind = "comments" => ToSet(e.items) \subseteq DOMAIN posted /\ NoRepeats(e.items)
    /\ e.kind = "post" /\ e.stage \in {"stamped", "written"} =>
          e.id \in DOMAIN posted /\ posted[e.id].own /\ posted[e.id].task = e.task
RequestInv == (\A e \in errands : ErrandOf(e)) /\ NoRepeats(thread)

\* What a colleague has written, or is writing, is past the mark or came to the page or
\* slipped through; a list on its way has what is neither, and a mark covers nothing else.
Foreign(c, t) == c \in DOMAIN posted /\ posted[c].task = t /\ ~posted[c].own /\ posted[c].state # "gone"
UnreadOf(t) == t \notin wrote => \A c \in DOMAIN posted :
                  Foreign(c, t) => c > lastRead[t] \/ c \in came \cup slipped
ListOf(e) ==
    e.kind = "comments" => \A c \in DOMAIN posted : Foreign(c, e.task) =>
        /\ e.stage = "listed" => c \in ToSet(e.items) \cup came \cup slipped
        /\ e.stage = "marking" => c \in came \cup slipped
ReadInv == (\A t \in Task : UnreadOf(t)) /\ \A e \in errands : ListOf(e)

\* The last entry that is shown is not newer than its place allows, however many have been
\* added in front; a page that is to be appended, if nothing has replaced the list since,
\* begins where the list ends.
NoGaps(s) == \A i \in 1 .. Len(s) - 1 : s[i] <= s[i + 1] + 1
Within(s, offset, t) == s # <<>> => s[Len(s)] + Len(s) + offset <= happened[t] + 1
PageOf(e) ==
    e.kind = "history" =>
        /\ e.stage = "listed" => NoGaps(e.items) /\ Within(e.items, e.offset, e.task)
        /\ ~e.append => e.offset = 0
        /\ e.append /\ e.alone =>
              /\ e.task = opened /\ e.offset = Len(trail)
              /\ e.stage = "listed" /\ ~torn /\ trail # <<>> /\ e.items # <<>>
                 => trail[Len(trail)] <= e.items[1] + 1
TrailInv ==
    /\ ~torn => NoGaps(trail) /\ (trail # <<>> => opened \in Task) /\ Within(trail, 0, opened)
    /\ \A e \in errands : PageOf(e)
=============================================================================
