---------------------------- MODULE BoardColumns ----------------------------
(***************************************************************************)
(* The columns of a board: the table task_columns behind task-service, and *)
(* one page that shows, orders, renames, creates and deletes them while    *)
(* colleagues do the same.                                                 *)
(*                                                                         *)
(* A reorder is one request and many statements: the list, a check of the  *)
(* versions in memory, an UPDATE for each column.  Nothing locks the       *)
(* table, so that two reorders, or a reorder and a rename, run through     *)
(* each other.  The page shows its order before the service has accepted   *)
(* it, and puts the old one back when it has not.                          *)
(***************************************************************************)
EXTENDS Integers, Sequences, FiniteSets, SequencesExt

CONSTANTS
    Columns,   \* columns are numbered in the order of their creation
    Existing,  \* how many there are at first
    MyReorders,    \* reorders that the page sends
    TheirReorders, \* reorders of colleagues
    MaxWrites, \* bound: other writes
    MaxLists   \* bound: lists that the page asks for

ASSUME ColumnsAssumption ==
    /\ {Columns, Existing, MaxWrites, MaxLists} \subseteq Nat /\ Existing <= Columns
    /\ MyReorders \cap TheirReorders = {}

VARIABLES
    rows,      \* task_columns
    created,   \* how many columns were ever created
    creating,  \* max(position) that the page's POST has read, when it is under way
    reorder,   \* requests to reorder
    rename,    \* the page's rename under way
    columns,   \* the columns that the page shows
    versions,  \* columnVersions
    news,      \* events on the way to the page
    lists,     \* lists on the way to the page
    asking,    \* lists that it has asked for
    writes, gets,
    blurred    \* history: the page has put back an order that was refused, or has shown
               \* a column twice

table == <<rows, created>>
shown == <<columns, versions>>
counts == <<writes, gets, asking>>
columnVars == <<table, creating, reorder, rename, shown, news, lists, counts, blurred>>

Reorder == MyReorders \cup TheirReorders
Live == {c \in 1 .. created : rows[c].live}
RowIn(rs, c) == [id |-> c, position |-> rs[c].position, version |-> rs[c].version,
                 title |-> rs[c].title]
Row(c) == RowIn(rows, c)

\* Sequences by what they hold and in which order, which can be proved about where
\* SetToSortSeq, SortSeq and SelectSeq cannot: the elements of S, each once, as the order R
\* has them; the elements of s at the places p; those at the places in I.
Ordered(S, R) == [n \in 1 .. Cardinality(S) |->
                     CHOOSE x \in S : Cardinality({y \in S : <<y, x>> \in R}) = n - 1]
Along(s, p) == [n \in DOMAIN p |-> s[p[n]]]
Earlier(I) == {p \in I \X I : p[1] < p[2]}
Picked(s, I) == Along(s, Ordered(I, Earlier(I)))

\* ListColumnsByProject: ORDER BY position, created_at.
Before(x, y) == x.position < y.position \/ (x.position = y.position /\ x.id < y.id)
InTable == Ordered(Live, {p \in Live \X Live : Before(Row(p[1]), Row(p[2]))})
Listed == [n \in DOMAIN InTable |-> Row(InTable[n])]
Ids(items) == [i \in DOMAIN items |-> items[i].id]
Sending(id, base, match) ==
    [stage |-> "sent", id |-> id, base |-> base, match |-> match, answer |-> <<>>]
NoRename == [Sending(1, 0, 0) EXCEPT !.stage = "none"]
Answered == [Sending(1, 0, 0) EXCEPT !.stage = "done"]
Asking(asked, expected, previous) ==
    [stage |-> "sent", asked |-> asked, expected |-> expected, previous |-> previous,
     left |-> <<>>, nth |-> 0, alone |-> TRUE, answer |-> <<>>]
NoReorder == [Asking(<<>>, {}, <<>>) EXCEPT !.stage = "none"]

Done(r) == [reorder EXCEPT ![r] = [NoReorder EXCEPT !.stage = "done"]]

ColumnsInit ==
    /\ created = Existing
    /\ rows = [c \in 1 .. Columns |->
                  [live |-> c <= Existing, position |-> c - 1, version |-> 1, title |-> 0]]
    /\ creating = <<>>
    /\ reorder = [r \in Reorder |-> NoReorder]
    /\ rename = NoRename
    /\ columns = Listed /\ versions = [c \in 1 .. Columns |-> 1]
    /\ news = {} /\ lists = {}
    /\ writes = 0 /\ gets = 0 /\ asking = 0 /\ blurred = FALSE

-----------------------------------------------------------------------------
(* What the page shows and remembers.                                      *)

WithId(items, c) == {i \in DOMAIN items : items[i].id = c}
Remembered(items) ==
    [c \in 1 .. Columns |->
        IF WithId(items, c) = {} THEN versions[c]
        ELSE items[CHOOSE i \in WithId(items, c) : TRUE].version]
\* sort((a, b) => a.position - b.position), which keeps the order of equals.
ByPosition(items) ==
    {p \in (DOMAIN items) \X (DOMAIN items) :
        LET x == items[p[1]]
            y == items[p[2]]
        IN  x.position < y.position \/ (x.position = y.position /\ p[1] < p[2])}
Sorted(items) == Along(items, Ordered(DOMAIN items, ByPosition(items)))
ShowsColumns(items) == columns' = items /\ versions' = Remembered(items)

\* The column of an answer is appended, that of an event takes the place of the first one
\* that has its id.
IsFirst(i) == \A j \in 1 .. i - 1 : columns[j].id # columns[i].id
Replaced(item) == [i \in DOMAIN columns |->
                      IF columns[i].id = item.id /\ IsFirst(i) THEN item ELSE columns[i]]
WithAppended(item) == Sorted(Append(columns, item))
WithColumn(item) ==
    IF WithId(columns, item.id) = {} THEN WithAppended(item) ELSE Sorted(Replaced(item))
WithoutColumn(c) == Picked(columns, DOMAIN columns \ WithId(columns, c))

\* What the page remembers of an event of its own user, which it does not show: nothing.
\* (The variant remembers it, as it does with tasks.)
OwnRemembered(items) == Remembered(items)
OwnIgnored(items) == versions

-----------------------------------------------------------------------------
(* Writes of others, each one statement: a rename, a new column, a          *)
(* deletion.  An event of the same user in another window is not shown.     *)

Tell(kind, own, items) == news' = news \cup {[kind |-> kind, own |-> own, items |-> items]}
Disturbed(rs) == [r \in Reorder |-> [reorder[r] EXCEPT
    !.alone = reorder[r].alone /\ ~(r \in rs /\ reorder[r].stage = "writes")]]
Written(c) == [rows EXCEPT ![c] = [live |-> TRUE, position |-> rows[c].position,
                                   version |-> rows[c].version + 1, title |-> rows[c].version + 1]]
Positioned(c, p) == [rows EXCEPT ![c] = [live |-> TRUE, position |-> p,
                                         version |-> rows[c].version + 1, title |-> rows[c].title]]
CountWrite == writes < MaxWrites /\ writes' = writes + 1
NewRow(max) == [live |-> TRUE, position |-> max + 1, version |-> 1, title |-> 0]
MaxPosition == IF Live = {} THEN -1 ELSE rows[InTable[Cardinality(Live)]].position

OthersRename ==
    /\ CountWrite
    /\ \E c \in Live, own \in BOOLEAN :
          /\ rows' = Written(c)
          /\ Tell("updated", own, <<RowIn(rows', c)>>)
    /\ reorder' = Disturbed(Reorder)
    /\ UNCHANGED <<created, creating, rename, shown, lists, gets, asking, blurred>>

OthersCreate ==
    /\ CountWrite /\ created < Columns /\ created' = created + 1
    /\ rows' = [rows EXCEPT ![created'] = NewRow(MaxPosition)]
    /\ Tell("created", FALSE, <<RowIn(rows', created')>>)
    /\ reorder' = Disturbed(Reorder)
    /\ UNCHANGED <<creating, rename, shown, lists, gets, asking, blurred>>

\* DeleteColumn, of the page too, which then asks for the list.
AskOnce == gets < MaxLists /\ gets' = gets + 1 /\ asking' = asking + 1
Delete(c) ==
    /\ rows' = [rows EXCEPT ![c].live = FALSE]
    /\ reorder' = Disturbed(Reorder)
    /\ UNCHANGED <<created, creating, rename, shown, lists, blurred>>
OthersDelete ==
    /\ CountWrite
    /\ \E c \in Live : Delete(c) /\ Tell("deleted", FALSE, <<Row(c)>>)
    /\ UNCHANGED <<gets, asking>>
DeleteColumn ==
    /\ CountWrite /\ AskOnce
    /\ \E i \in DOMAIN columns : columns[i].id \in Live /\ Delete(columns[i].id)
    /\ UNCHANGED news

-----------------------------------------------------------------------------
(* ReorderColumns.                                                         *)

\* The list and the check of the versions that the request names.
Stale(r) == \E e \in reorder[r].expected : e.id \in Live /\ e.version # rows[e.id].version
\* The columns in the order asked for, each once, then those that it does not name.
\* (The variant does not drop repetitions: the page can have shown a column twice.)
NamedAgain(asked) == Picked(asked, {i \in DOMAIN asked : asked[i] \in Live})
Named(asked) ==
    Picked(asked, {i \in DOMAIN asked : asked[i] \in Live /\ \A j \in 1 .. i - 1 : asked[j] # asked[i]})
Unnamed(asked) == Picked(InTable, {n \in DOMAIN InTable : InTable[n] \notin ToSet(asked)})
FinalOrder(asked) == Named(asked) \o Unnamed(asked)

CheckVersions(r) ==
    /\ reorder[r].stage = "sent"
    /\ reorder' = [reorder EXCEPT ![r] =
          IF Stale(r) THEN [[reorder[r] EXCEPT !.stage = "refused"] EXCEPT !.answer = Listed]
          ELSE [[reorder[r] EXCEPT !.stage = "writes"] EXCEPT !.left = FinalOrder(reorder[r].asked)]]
    /\ UNCHANGED <<table, creating, rename, shown, news, lists, counts, blurred>>

\* UpdateColumnPosition, column by column; one that was deleted in between ends the
\* request with an error, and those before it keep their new positions.
Advanced(r) == [[reorder[r] EXCEPT !.left = Tail(reorder[r].left)] EXCEPT !.nth = reorder[r].nth + 1]
WritePosition(r) ==
    /\ reorder[r].stage = "writes" /\ reorder[r].left # <<>>
    /\ LET c == Head(reorder[r].left)
       IN  IF rows[c].live
           THEN /\ rows' = Positioned(c, reorder[r].nth)
                /\ reorder' = [Disturbed(Reorder \ {r}) EXCEPT ![r] = Advanced(r)]
           ELSE reorder' = [reorder EXCEPT ![r].stage = "failed"] /\ UNCHANGED rows
    /\ UNCHANGED <<created, creating, rename, shown, news, lists, counts, blurred>>

\* The event, or the answer, has the list as it is now; there is no event of an empty one.
EndReorder(r) ==
    /\ reorder[r].stage = "writes" /\ reorder[r].left = <<>>
    /\ IF r \in MyReorders
       THEN /\ reorder' = [reorder EXCEPT
                  ![r] = [[reorder[r] EXCEPT !.stage = "accepted"] EXCEPT !.answer = Listed]]
            /\ UNCHANGED news
       ELSE /\ reorder' = Done(r)
            /\ IF Live = {} THEN UNCHANGED news ELSE Tell("reordered", FALSE, Listed)
    /\ UNCHANGED <<table, creating, rename, shown, lists, counts, blurred>>

\* Request of a colleague, from a page that shows the present list.
\* The versions are those of its columns; of one that it shows twice, the last.
Versions(items) ==
    {[id |-> items[i].id, version |-> items[i].version] :
        i \in {i \in DOMAIN items : \A j \in DOMAIN items : i < j => items[j].id # items[i].id}}
OthersReorder(r) ==
    /\ r \in TheirReorders /\ reorder[r].stage = "none" /\ CountWrite
    /\ Live # {} /\ \E asked \in SetToSeqs(Live) :
          reorder' = [reorder EXCEPT ![r] = Asking(asked, Versions(Listed), <<>>)]
    /\ UNCHANGED <<table, creating, rename, shown, news, lists, gets, asking, blurred>>

-----------------------------------------------------------------------------
(* The page orders its columns.                                            *)

\* moveColumn takes one column out and puts it back a place away; onColumnHeaderDrop takes
\* out all that have its id, and puts one anywhere.
Placed(i, rest, j) == InsertAt(rest, j, columns[i])
Moved(i) ==
    LET rest == Picked(columns, DOMAIN columns \ {i})
    IN  {Placed(i, rest, j) : j \in {i - 1, i + 1} \cap DOMAIN columns}
Dropped(i) ==
    LET rest == WithoutColumn(columns[i].id)
    IN  {Placed(i, rest, j) : j \in 1 .. Len(rest) + 1}
MoveColumn(r) ==
    /\ r \in MyReorders /\ reorder[r].stage = "none"
    /\ \E i \in DOMAIN columns : IsFirst(i) /\ \E next \in Moved(i) \cup Dropped(i) :
          /\ Ids(next) # Ids(columns) /\ columns' = next
          /\ reorder' = [reorder EXCEPT ![r] = Asking(Ids(next), Versions(next), columns)]
    /\ UNCHANGED <<table, creating, rename, versions, news, lists, counts, blurred>>

\* handleReorderColumns: the list of the answer; after a 412 the list that came with
\* it, which the caller then replaces by the order before the move.
Accepted(r) ==
    /\ r \in MyReorders /\ reorder[r].stage = "accepted"
    /\ ShowsColumns(reorder[r].answer)
    /\ reorder' = Done(r)
    /\ UNCHANGED <<table, creating, rename, news, lists, counts, blurred>>
Refused(r) ==
    /\ r \in MyReorders /\ reorder[r].stage \in {"refused", "failed"}
    /\ columns' = reorder[r].previous
    /\ blurred' = TRUE
    /\ reorder' = Done(r)
    /\ UNCHANGED <<table, creating, rename, versions, news, lists, counts>>

-----------------------------------------------------------------------------
(* The page renames and creates.                                           *)

\* handleColumnRenameSave: If-Match is the version in the cache.
RenameColumn ==
    /\ rename.stage = "none"
    /\ \E i \in DOMAIN columns :
          /\ IsFirst(i)
          /\ rename' = Sending(columns[i].id, columns[i].title, versions[columns[i].id])
    /\ UNCHANGED <<table, creating, reorder, shown, news, lists, counts, blurred>>

\* UpdateColumnIfVersion, and the answer to the page, which may come late.
ServeRename ==
    /\ rename.stage = "sent"
    /\ LET c == rename.id IN
       IF rows[c].live /\ rows[c].version = rename.match
       THEN /\ rows' = Written(c)
            /\ rename' = [[rename EXCEPT !.stage = "renamed"] EXCEPT !.answer = <<RowIn(rows', c)>>]
            /\ reorder' = Disturbed(Reorder)
       ELSE rename' = Answered /\ UNCHANGED <<rows, reorder>>
    /\ UNCHANGED <<created, creating, shown, news, lists, counts, blurred>>
Renamed ==
    /\ rename.stage = "renamed" /\ rename' = Answered
    /\ columns' = [i \in DOMAIN columns |->
                      IF columns[i].id = rename.id THEN rename.answer[1] ELSE columns[i]]
    /\ versions' = Remembered(rename.answer)
    /\ UNCHANGED <<table, creating, reorder, news, lists, counts, blurred>>

\* handleCreateColumn: the largest position is read and the row written by two
\* statements; the row of the answer is appended.
CreateColumn ==
    /\ creating = <<>> /\ created < Columns /\ CountWrite
    /\ creating' = <<MaxPosition>>
    /\ UNCHANGED <<table, reorder, rename, shown, news, lists, gets, asking, blurred>>
InsertColumn ==
    /\ Len(creating) = 1 /\ created < Columns /\ created' = created + 1
    /\ rows' = [rows EXCEPT ![created'] = NewRow(creating[1])]
    /\ creating' = Append(creating, created')
    /\ reorder' = Disturbed(Reorder)
    /\ UNCHANGED <<rename, shown, news, lists, counts, blurred>>
Created ==
    /\ Len(creating) = 2 /\ creating' = <<>>
    /\ LET item == [id |-> creating[2], position |-> creating[1] + 1, version |-> 1, title |-> 0]
       IN  /\ columns' = WithAppended(item) /\ versions' = [versions EXCEPT ![item.id] = 1]
           /\ blurred' = (blurred \/ WithId(columns, item.id) # {})
    /\ UNCHANGED <<table, reorder, rename, news, lists, counts>>

-----------------------------------------------------------------------------
(* What comes to the page, in any order.                                   *)

\* loadColumns, and board.snapshot after a connect.
AskForList ==
    /\ AskOnce
    /\ UNCHANGED <<table, creating, reorder, rename, shown, news, lists, writes, blurred>>
ServeList ==
    /\ asking > 0 /\ asking' = asking - 1
    /\ lists' = lists \cup {Listed}
    /\ UNCHANGED <<table, creating, reorder, rename, shown, news, writes, gets, blurred>>
ReceiveList ==
    /\ \E items \in lists : ShowsColumns(items) /\ lists' = lists \ {items}
    /\ UNCHANGED <<table, creating, reorder, rename, news, counts, blurred>>

\* applyBoardEventToColumns
OnEvent ==
    /\ \E e \in news :
          /\ news' = news \ {e}
          /\ \/ e.own /\ versions' = OwnIgnored(e.items) /\ UNCHANGED columns
             \/ /\ ~e.own /\ e.kind \in {"created", "updated"}
                /\ columns' = WithColumn(e.items[1]) /\ versions' = Remembered(e.items)
             \/ /\ e.kind = "deleted" /\ UNCHANGED versions
                /\ columns' = WithoutColumn(e.items[1].id)
             \/ e.kind = "reordered" /\ ShowsColumns(e.items)
    /\ UNCHANGED <<table, creating, reorder, rename, lists, counts, blurred>>

ColumnsNext ==
    \/ OthersRename \/ OthersCreate \/ OthersDelete \/ DeleteColumn
    \/ \E r \in Reorder :
          \/ CheckVersions(r) \/ WritePosition(r) \/ EndReorder(r) \/ OthersReorder(r)
          \/ MoveColumn(r) \/ Accepted(r) \/ Refused(r)
    \/ RenameColumn \/ ServeRename \/ Renamed
    \/ CreateColumn \/ InsertColumn \/ Created
    \/ AskForList \/ ServeList \/ ReceiveList \/ OnEvent

ColumnsSpec == ColumnsInit /\ [][ColumnsNext]_columnVars

-----------------------------------------------------------------------------
Item == [id : 1 .. Columns, position : Int, version : Nat, title : Nat]
News == [kind : {"created", "updated", "deleted", "reordered"}, own : BOOLEAN, items : Seq(Item)]
ReorderType ==
    [stage : {"none", "sent", "refused", "writes", "failed", "accepted", "done"},
     asked : Seq(1 .. Columns), expected : SUBSET [id : 1 .. Columns, version : Nat],
     previous : Seq(Item), left : Seq(1 .. Columns), nth : Nat, alone : BOOLEAN, answer : Seq(Item)]
ColumnsTypeOK ==
    /\ rows \in [1 .. Columns -> [live : BOOLEAN, position : Int, version : Nat, title : Nat]]
    /\ created \in Existing .. Columns
    /\ creating \in Seq(Int) /\ Len(creating) <= 2
    /\ Len(creating) = 2 => creating[2] \in 1 .. created
    /\ reorder \in [Reorder -> ReorderType]
    /\ rename \in [stage : {"none", "sent", "renamed", "done"}, id : Nat, base : Nat,
                   match : Nat, answer : Seq(Item)]
    /\ columns \in Seq(Item) /\ versions \in [1 .. Columns -> Nat]
    /\ news \subseteq News /\ lists \subseteq Seq(Item)
    /\ \A e \in news : e.kind # "reordered" => Len(e.items) = 1
    /\ rename.stage = "sent" => rename.id \in 1 .. Columns
    /\ rename.stage = "renamed" => Len(rename.answer) = 1 /\ rename.answer[1].id = rename.id
    /\ {writes, gets, asking} \subseteq Nat /\ blurred \in BOOLEAN

\* Where c comes first in ids; behind the end if it does not.
FirstAt(ids, c) ==
    CHOOSE i \in 1 .. Len(ids) + 1 : /\ i <= Len(ids) => ids[i] = c
                                     /\ \A j \in 1 .. i - 1 : ids[j] # c

\* A reorder that ends, with no other write since its check, leaves the order that was
\* asked for, with the columns that its page did not know behind it.
ReorderIsAsAsked ==
    [][\A r \in Reorder :
          reorder[r].stage = "writes" /\ reorder'[r].stage # "writes" /\ reorder[r].alone =>
              \A x, y \in Live :
                  FirstAt(reorder[r].asked, x) < FirstAt(reorder[r].asked, y)
                      => FirstAt(Ids(Listed), x) < FirstAt(Ids(Listed), y)]_columnVars

\* A rename replaces no title but the one that the page held when it was sent, whatever
\* events, answers, reorders and lists came before it, in this window or another; unless
\* an order that was refused had been put back, with its old titles, or a column shown
\* twice, of which one copy may be old.
RenameReplacesWhatWasHeld ==
    [][rename.stage = "sent" /\ rename'.stage = "renamed" =>
          blurred \/ rows[rename.id].title = rename.base]_columnVars

\* TasksPage.jsx says after a 412 that the present order of the columns has been put in
\* the place of the user's: the page shows the list that came with the answer.
RefusedShowsCurrent ==
    [][\A r \in MyReorders : reorder[r].stage = "refused" /\ reorder'[r].stage = "done" =>
          columns' = reorder[r].answer]_columnVars

-----------------------------------------------------------------------------
(* The inductive invariants of both.                                       *)

\* Whatever the page has been sent names a version that the row has had, and the title of
\* that version; each list has a column once.
Known(x) ==
    /\ x.id <= created /\ x.version <= rows[x.id].version
    /\ x.version = rows[x.id].version => x.title = rows[x.id].title
Whole(items) == \A i, j \in DOMAIN items : i # j => items[i].id # items[j].id
AllKnown(items) == Whole(items) /\ \A i \in DOMAIN items : Known(items[i])
SentInv ==
    /\ \A c \in 1 .. Columns : rows[c].live => c <= created
    /\ \A c \in 1 .. created :
          rows[c].version > 0 /\ (rows[c].version = 1 => rows[c].title = 0)
    /\ \A items \in lists : AllKnown(items)
    /\ \A e \in news : AllKnown(e.items)
    /\ \A r \in Reorder : AllKnown(reorder[r].answer)
    /\ AllKnown(rename.answer)

\* So does what it shows, which is the version in the cache; and a rename names a version
\* that had the title it was made from.
HeldInv ==
    ~blurred =>
        /\ AllKnown(columns)
        /\ \A i \in DOMAIN columns : columns[i].version = versions[columns[i].id]
RenameInv ==
    rename.stage = "sent" /\ ~blurred =>
        /\ rename.id \in 1 .. created /\ rename.match <= rows[rename.id].version
        /\ rename.match = rows[rename.id].version => rows[rename.id].title = rename.base

\* While nothing else writes, a column that is still to be moved is there once and goes
\* behind those that were moved; and both the moved ones and those to come are in the
\* order that was asked for.
Precedes(s, x, y) == \A i, j \in DOMAIN s : s[i] = x /\ s[j] = y => i < j
MovesOf(r) ==
    LET left == reorder[r].left
        asked == reorder[r].asked
        moved == Live \ ToSet(left)
    IN  /\ ToSet(left) \subseteq Live /\ \A i, j \in DOMAIN left : i # j => left[i] # left[j]
        /\ \A c \in moved : rows[c].position < reorder[r].nth
        /\ \A x, y \in Live : FirstAt(asked, x) < FirstAt(asked, y) =>
              /\ x \in moved /\ y \in moved => rows[x].position < rows[y].position
              /\ x \in ToSet(left) => y \in ToSet(left) /\ Precedes(left, x, y)
MoveInv == \A r \in Reorder : reorder[r].stage = "writes" /\ reorder[r].alone => MovesOf(r)
=============================================================================
