# UnifiedTaskManager in TLA+

A specification of the parts of UnifiedTaskManager whose correctness depends on the order in
which things happen: the task board of task-service with its columns, comments and realtime hub, the
outbox and the refresh tokens of user-service, and the pages of the browser, for the board, chats, files and
calls, with as much of the services behind them as they depend on. The modules are translated from the code
under `src/` and checked with TLC on small instances (`*.cfg`); the safety of thirteen of them is
proved with TLAPS for every value of their constants, and for three of them that they implement an abstract specification. `PROJECT.json` maps each definition to the lines it models.

Contents: [inventory](#1-inventory) · [modules](#2-modules-and-how-they-correspond-to-the-code) ·
[runs](#3-what-the-runs-check) · [proofs](#4-what-is-proved) · [findings](#5-where-the-code-and-its-documents-disagree)
· [not modelled](#6-what-is-not-modelled) · [plan](#7-plan)

## 1. Inventory

A browser talks to `api-gateway` (a stateless JWT check and reverse proxy), which forwards to seven
services. They share nothing but PostgreSQL tables of their own, RabbitMQ (events, and RPC with
reply queues) and Redis (fan-out of board events between replicas).

| Component | State | Operations | What is hard | What makes it correct |
|---|---|---|---|---|
| task-service: tasks | rows of `tasks` with `version`, `sort_position`, `deleted_at` | create, PATCH with or without `If-Match`, delete, reorder of a column | no transaction around read, compute, write; row locks of reorder transactions; the process may die between commit and announcement | no update is lost under `If-Match`; an ETag names one content; a 412 is never spurious; a reorder is all or nothing; every request ends |
| task-service: columns | `task_columns` with position, version | create, rename, reorder, delete | the reorder is one statement per column without a transaction; the emptiness test of a delete is not in its statement | an undisturbed reorder leaves the order asked for |
| task-service: comments, activity | `task_comments`, `task_comment_reads`, `task_activity_events` | add, list, mark read, history | a thread is listed and marked in two requests | a comment is unread until it came to the page |
| task-service: board hub | rooms, presence lists, `Send` channels, the Redis subscription | register, unregister, publish, relay, snapshot, ping | messages are sent after the mutex is released; a channel is closed while another goroutine sends on it; slow clients; two instances | a client misses nothing but what the code drops; nobody hears twice; order within an instance; presence shows who is there |
| user-service: outbox | `outbox_events`, its archive | write with the user, fetch, publish, mark, back off, clean | replicas and an administrator's flush fetch at once; crash between publication and mark; a lost channel | one owner per row; it implements an abstract delivery; nothing is deleted that was not sent; every row leaves the queue |
| user-service: accounts, sessions | registrations, users, refresh tokens, resets | start, verify, resend, login, refresh, logout, reset | rotation against a double refresh; lost answers; two tabs and one storage | a refresh token is exchanged once, one page's requests are not in each other's way |
| user-service: teams, projects, roles | teams, members, roles, invitations | create, invite, accept, change role, delete | several statements without a transaction; permission read before the write | what a page selects exists, and is deleted only when it was named |
| chat-service | rooms, participants, messages | create, add, remove, send, list | membership is checked, then the message is written, then published | a removed participant writes nothing more than was checked |
| sfu-service | rooms, peers, tracks, `send` channel of a peer | join, replace, publish, forward, leave | the lock is released before the others are told; sockets whose two ends close at different times | members see each other; whoever has left is gone |
| file-service | files on disk, quota | folder, upload, list, delete, attach | read-modify-write without a lock | – |
| frontend: edits of tasks | rows on the board, version cache, editor and its base, conflict dialog | quick edit, save, merge, force, keep, reload, event | events move the cache while an edit is open; a merge is retried against a newer row | the user overwrites only what was on the screen, or what the user was asked about |
| frontend: columns | columns, column versions | move, rename, create, delete, event, list | the order is shown before it is accepted | a rename replaces the title that the page held |
| frontend: scope of the board | selected team and project, lists, loads, confirmation | select, create, delete, load | answers come when something else is selected | in the end the page shows what is selected; what is deleted was named |
| frontend: board sync | socket, timers, heartbeat | connect, reconnect, change of board | close events come after the next socket is open | one stream, of the board that is shown |
| frontend: comments and history | thread, pages of the history, badges | open, post, load more, event | lists, pages and answers in any order | nothing twice, nothing left out, nothing read unseen |
| frontend: chat page | rooms, messages, participants, loads, poll | select, poll, create, send, add, remove | late and lost loads of several rooms | messages under a title are of that room, and arrive |
| frontend: files | environments, tree, operations, `isBusy` | select, reload, upload, delete, expand | operations of several requests | the tree is of the selected environment |
| frontend: calls | sockets, microphone, connection, candidates, tiles | enter, mute, leave, reconnect, negotiate | `await`s in which the user leaves or mutes; messages before the state they need | the microphone stops; a muted page is silent; nothing heard is lost |
| frontend: sessions in `api.js`, `App` | tokens in storage | request, refresh, sign in, sign out | many requests, one token | one refresh per page |
| agent, RPC libraries, notification-service | queues, deliveries, letters | request, serve, retry; scan, send, record | retries of what ran; the letter before its record | not modelled |
| api-gateway; other pages; logging; deployment | none that another part reads | – | – | – |

The arrows that matter for the models: a PATCH goes page → task-service → table, then, after the
commit, event → hub → (Redis → other hub) → page; a change of a user goes table and outbox row in
one transaction → outbox worker → RabbitMQ; a call is page → socket → room → sockets of the others.

The hazards, each at its line, are in `PROJECT.json` with the properties that cover them. Those
without a property carry a note that says why.

## 2. Modules, and how they correspond to the code

| Module | Models | Instance for TLC |
|---|---|---|
| `TaskBoard` | `TaskService` and the Postgres repository for tasks; deletion of a column | `MCTaskBoard`, `MCBoardTasks` |
| `TaskHistory`, `TaskBoardHistory` | what task-service promises about tasks; the refinement mapping | `MCBoardTasks` |
| `BoardHub` | `Hub`, `DistributedHub`, the websocket handler | `MCBoardHub` |
| `Outbox` | `OutboxWorker`, its repository and publisher, the cleaner | `MCOutbox` |
| `Delivery`, `OutboxDelivery` | what an outbox promises; the refinement mapping | `MCOutbox` |
| `Sessions` | login and refresh tokens, `lib/api.js`, the session in `App` | `MCSessions` |
| `TokenRotation`, `SessionsRotation` | what user-service promises about refresh tokens; the refinement mapping | `MCSessions` |
| `BoardClient` | `TasksPage`, `tasksBoardApi`, `boardMerge`, `taskVersions` as one user edits one task | `MCPages`, `MCBoardClient` |
| `BoardColumns` | `task_columns` and the columns of `TasksPage` | `MCPages`, `MCBoardColumns` |
| `BoardScope` | selection, loads and deletions of teams and projects in `TasksPage` | `MCPages` |
| `BoardSync` | `useBoardSync` | `MCPages` |
| `TaskThread` | comments and history in `TasksPage` and task-service | `MCPages` |
| `FilePage` | `FileEnvironments` and the storage behind it | `MCPages` |
| `CallMedia` | `useWebRTC` and the negotiation in `VideoCall` | `MCPages` |
| `CallRoom` | `CallJoiner`, `CallCreator`, `useWebSocket`, `VideoCall` and the rooms of the SFU | `MCRooms` |
| `ChatRooms` | `ChatPage` and chat-service | `MCRooms` |
| `TaskBoardProofs`, `BoardColumnsProofs`, `BoardHubProofs`, `OutboxProofs`, `SessionsProofs`, `BoardPageProofs`, `RoomsProofs`, `PagesProofs` | theorems; `BoardPageProofs` has those of `BoardClient`, `BoardScope`, `BoardSync`, `FilePage` and `TaskThread`, `RoomsProofs` those of `ChatRooms` and `CallRoom`, `PagesProofs` those of `CallMedia` and of all pages together; `TaskBoardProofs`, `OutboxProofs` and `SessionsProofs` also the refinements | – |

The modules are composed at their seams by what one has shown of another: `BoardClient` takes from
`TaskBoard` that a PATCH is accepted only for the version of the row and that a version names one
content; `CallMedia` takes its connection from `CallRoom`.

### TaskBoard

`TaskService` opens no transaction and takes no lock, so a request is a sequence of *statements*:
`pc[r]` says which is next, and any other request may run between two. Only
`ReorderTasksInColumn` is a transaction; `rowLock` holds the locks of the rows that it has updated,
and its changes become visible in `CommitReorder`. What a handler keeps in local variables is
`snap`, `maxPos`, `moved`.

* PATCH: `StartUpdate`, `ReadTask` (GetByID), `ReadEndOfColumn` (MaxSortPosition, only when the task
  changes its column), `RejectAssignees`, `WriteTask` (Update or UpdateIfVersion; WHERE and SET are
  evaluated on the committed row), `AnswerConflict` (read again, answer 412), `Publish`.
* POST and DELETE of a task: `InsertTask`, `DeleteTask`. Delete keeps the row and sets `deleted_at`.
* Reorder: `ListColumn`, one `MoveTask` per row, `CommitReorder` or a rollback, `AbortDeadlock` (what
  Postgres does with a circle of waiting transactions), `ReadOrder`.
* DELETE of a column: `ReadColumn`, `CountColumn`, `DropColumn`: three statements.
* `Vanish`: the process dies; Postgres rolls back.

`told` collects every row that is sent to a client, in an answer, a 412 or an event; `committed`
every row ever committed. They are history: nothing reads them but the properties.
The permission check, which reads the row first, decides nothing else and is left out. `NoRowsMatches` says whether
the driver's "no rows" error is recognised: FALSE is the build (see the findings), TRUE the
documented behaviour, under which everything else is checked. The theorems hold for both.

`TaskHistory` is the same without statements, locks and orders in memory: each task has a history of contents, and a request takes
effect at one moment, or not at all. A PATCH with `If-Match` appends to the newest content, changed in the fields that it names; a
client is only told of a version with its content. `TaskBoardHistory` reads the history of a task from the rows ever committed, and a request's
stage from its statement: it is "applied" when its write, or its transaction, is committed.

### BoardHub

A goroutine is a `Change` (an HTTP handler that commits and then publishes), a `Conn` (the handler of a
websocket) or a `Node` (the Redis subscriber of an instance). The mutex of the hub is held only to
look at the room and at the presence map; those critical sections are single actions. Sends happen
afterwards, one client at a time (`targets[g]` is the copy of the room that g still has to serve). A
`Send` channel is its number of used slots; `log`, `covered` and `lost` say which changes were put
there, through events or snapshots, or were discarded because it was full. A
send on a closed channel panics and takes its goroutine with it. `bus[n]` is the subscription of
instance n; Redis may refuse an event, an instance may restart.

### BoardClient

The page of one user and one task; `ColleagueWrites` stands for everyone else. The row is a sequence
of versions `past`, and a copy of the row is its version, which is what `EtagNamesOneContent` of
TaskBoard justifies. `list` is what the board shows, `cache` the version that supplies `If-Match`, and
`editor` has the base the edit started from, which an event may move. One save is in flight:
`Send`, `Accept` or `Refuse`, then `OnSaved`, `OnStale` (merge and PATCH again, or open the dialog) or
`OnError`. `Receive` and `ReloadList` are the events and the lists that arrive meanwhile, `TakeSuggestion` a text of the
assistant, which does not count as typed.

### BoardColumns

The table, and one page. `reorder[r]` is a request to reorder, of the page (`MoveColumn`) or of a colleague, as it goes
through `CheckVersions` (the list and the comparison in memory), one `UpdateColumnPosition` per
column, and `Accepted` or `Refused`; nothing keeps another reorder, a rename or a deletion from
running in between, which makes it "disturbed" (history `alone`). The page keeps `columns` and the cache `versions`,
which events, answers and lists advance. Columns are numbered in the order of their creation. A move is `moveColumn` (one place
along, `Moved`) or a drop (anywhere, `Dropped`), of the first copy where a column is shown twice, which happens when a list with a new
column overtakes the answer to its creation. Lists, sorted and filtered sequences are defined by what they hold and in which
order (`Ordered`, `Picked`), so that the prover can reason about them. `blurred` (history) notes that a refused order was put back or a column
shown twice.

### BoardScope

What is `selected` and `stored`, the menus, and whose tasks, columns and settings the page shows. A load carries what it was asked for
and writes its answer to the page whatever is selected by then. The effects of a selection (emptying,
new loads) belong to the action that selects (`Select`). `confirm` is the dialog with the deletion it decides. `crossed` (history)
notes that an answer came for something else or that a load failed.

### BoardSync

An effect owns a socket; `run` is the last one. `ChangeBoard` is a change of project or token, with the cleanup of the
previous effect, whose socket closes later (`Closed`). Timers, the heartbeat and the flag `connected` are shared by all effects.

### TaskThread

Comments are numbered by `created_at`, entries of a history by their order. A comment is stamped before its row is
written. `errands` are the requests under way: lists, marks, pages, posts. `came`, `slipped`, `wrote` and `torn` are
history: which comments came in a list, were written between a list and its mark, to which threads
the user wrote, and whether a page was appended to another list than it was asked for.

### FilePage

An operation of the page changes an environment and then lists directories, one request after the other. `entries` remembers of
which environment a listing is. `busy` is `isBusy`: it disables the choice of an environment and the
forms, but not the buttons of the tree; `mingled` (history) says that two operations ran side by side all the same.

### CallMedia and CallRoom

`CallMedia` is one page: the microphone (`AskMicrophone`, and the grant that comes later), the
connection with its descriptions, slots and queue of candidates, and the messages of the service on the `wire`. `CallRoom` is
everybody: the pages, their sockets with two ends that close at different times (`client`, `server`), messages up and down, and the
handler of each connection in the service. `addPeer` and `removePeer` hold the lock for one action
(`EnterRoom`, `RemovePeer`) and tell the others afterwards (`Greet`, `SayLeft`, `CloseConn`). `Capacity` is the `send` channel of a peer.

### ChatRooms

Messages of a room are only appended, so what a load returned is how many. `ServeGet` makes the answer, `ReceiveMessages`
handles it, at another time; `Counts` is the test of `selectedRoomIdRef`. `job` is the form that was submitted, whose
handler reloads one thing after the other. `OthersCheck` and `OthersWrite` are the two statements of another person's
send; `JobFailsLate` is a commit whose event cannot be published.

### Outbox

A row has a status, its attempts, and whether its time has come. A `Runner` calls
`OutboxWorker.RunOnce`: the loop of a replica, or a flush that an administrator requests. `Fetch` is the
transaction with FOR UPDATE SKIP LOCKED, `PublishMessage` the call of the publisher, `Settle` one of
MarkOutboxPublished, MarkOutboxFailed and MarkOutboxDead, which may fail. The cleaner selects without
a lock and deletes in `DeleteOld`. `Restart` forgets what the runs of a replica held.

`Delivery` is the same without rows, batches and replicas: an event is offered until it is taken, at most `MaxAttempts` times,
reported as delivered only when it was, and given up only after the last refusal. `OutboxDelivery` reads a
row's status as the stage of its event: "pending" and "processing" are "queued", a row that the cleaner deleted was "delivered".

### Sessions

The pages of one browser and the service they share. A tab sends requests; one that is answered 401
(`Denied`) joins the refresh of its page or begins one. `Call` is a call of `/v1/auth/login` or
`/v1/auth/refresh` with its handler: `MakePair`, then `Store` (a login), or `LockRow` (SELECT ... FOR UPDATE) and
`Rotate` (DELETE, INSERT, COMMIT), then `Receive`, or `LoseConnection` and `Drop`. `local` and `access` are the two
tokens in localStorage, which tabs write one after the other: `Keep` stores both, and the effect
of App stores the access token once more (`Render`, `due`). A pair is a number; `login[n]` says which login
pair n descends from, `heard[n]` which tab was given the pair that replaced it (history). An access token expires at any moment, so a
401 is always possible. `AnswerIsNested` says whether the page finds the tokens in the answer to a refresh:
FALSE is the build (see the findings). The theorems hold for both.

`TokenRotation` knows calls and, for each login, the tokens in the table: a login opens with one token, a refresh
exchanges the very token that it was sent for a newer one of the same login, a refused call changes nothing. `SessionsRotation` reads a login's
tokens from the table, and a call as granted when its statement, or its transaction, is committed.

## 3. What the runs check

Every property is stated, with a comment, at the end of its module. Each has a mutant in
`PROJECT.json`: a plausible bug in a definition that the run then refutes. The mutated forms stand
next to the definitions as *variants*.

| Run | Instance | Shows |
|---|---|---|
| `board_tasks` | 3 tasks, 2 columns, 3 concurrent requests, in two scenarios (edits of one task; changes of order and of columns) | no update is lost, a 412 shows a newer row, an ETag names one content; a reorder that commits did so for the whole column; it implements `TaskHistory` |
| `board_ends` | 2 tasks, 3 requests, fair | every request ends; locks are released, deadlocks included |
| `hub` | 2 instances, 2 tabs (one at each instance, or both at the one that changes nothing), 2 changes, channels of 1 slot, 1 ping or resync | a client misses nothing but what was dropped, hears of nothing twice; order within an instance; presence |
| `outbox` | 2 events, 2 replicas, 2 loops and a flush, 3 attempts, batches of 1, fair | one owner; nothing vanishes; it implements `Delivery`; every row leaves the queue |
| `sessions` | 2 tabs, 2 requests, 2 calls, 3 pairs | one refresh per page, causes of a refusal, storage never goes back; it implements `TokenRotation` |
| `pages` | the seven modules of one user's pages, one at a time (below) | 15 properties |
| `rooms` | chats of 2 rooms and 2 people; a call of 2 users with up to 2 connections | messages are of the room and arrive; removal takes effect; members are seen; whoever left is gone |
| `board_412`, `hub_panic`, `client_overwrite`, `columns_412`, `sessions_end` | as the run they belong to | violations, see the findings |

`pages` and `rooms` choose a `focus` at the start: one module runs and the others stay where they begin, so that the
states add up and do not multiply. In `board_tasks` the action constraint
`OneScenario` does the same: the requests of a behaviour all belong to one of the two scenarios. In `sessions` the action constraint
`LastIsRefreshed` keeps the last pair for a refresh: a login that made it could not be followed by one.

| Focus | Instance | Properties |
|---|---|---|
| edit | a title, also edited on the board, and a description; 4 versions, 1 save | `QuickEditsAreInformed`, `MergeKeepsTheirs`, `ForceReplacesWhatWasShown` |
| columns | 2 columns and one that is created; a reorder of the user and one of a colleague, 1 other write, 1 list | `ReorderIsAsAsked`, `RenameReplacesWhatWasHeld` |
| scope | 2 teams, 3 projects of which one does not exist yet, 2 acts, 2 loads when the user acts | `ScopeSettles`, `DeletedWasConfirmed` |
| sync | 2 boards, 3 effects, 2 broken connections | `OneStream` |
| comments, history | 2 tasks, 1 comment, pages of 1, 3 changes, 2 requests when the user starts more | `UnreadOrCame`, `ThreadIsWhole` |
| files | 2 environments, a folder with a file, 2 operations at once, 3 in all | `TreeIsOfTheEnvironment` |
| media | 2 streams, 1 other voice, 1 address, 2 offers | `MicrophoneReleased`, `MutedIsSilent`, `NothingHeardIsLost` |
| chat | 2 rooms, the user and another, 2 messages, pages of 1, 2 loads when more are started, 2 acts | `ShownAreOfTheRoom`, `RemovalTakesEffect`, `MessagesArrive` |
| call | a user with up to 2 connections and a user with 1, channels of 2, 1 failure | `MembersAreSeen`, `LeftIsGone` |

Several of these properties have an exception, which is where the code gives up the promise on purpose or by its
structure: `ScopeSettles` after an answer for something else (`crossed`), `TreeIsOfTheEnvironment` beside the controls that
ignore `isBusy` (`mingled`), `UnreadOrCame` for what is written between a list and its mark (`slipped`), `ThreadIsWhole` for a
page behind a list that was replaced (`torn`), `MutedIsSilent` when two requests for the microphone overlap (`rivals`), `MicrophoneReleased` for a
grant after the user has left (`tardy`), `RenameReplacesWhatWasHeld` after a refused order was put back or a column shown twice (`blurred`). Each
exception is a history variable that is set at one place, and what it excludes is described in section 5.

**Bounds.** Three requests are enough for one to be overtaken twice: between its read and its write, and
between a refused write and the read that follows. Three tasks let reorders of a column lock in
opposite orders while a third row arrives or leaves. A channel of one slot makes "full" happen with
one message; a bound of `Asks` pings keeps the hub finite. Two changes suffice to see an order
reversed, two tabs to see one leave while the other stays. Four versions let a colleague write before and
after the 412, and before the retry. Three attempts make a first, a middle and a last failure
different; two rows and a batch of one keep a row waiting behind another. Three pairs are a login and two
refreshes that compete for its token. On the pages, two of everything that can be selected (projects, rooms,
environments, tasks, boards) is what it takes for an answer to come for the wrong one, and the bounds on acts let the user go
there and back. Two connections of a user are a reconnect or a second tab. A history page of one entry and a
message page of one make "there is more" happen. Symmetry is used for requests, changes, tabs and calls, which the safety properties do not distinguish, and in no run with a liveness property.

**Fairness.** `TaskBoard`: weak fairness of each request's own steps: the Go runtime schedules every
goroutine and Postgres answers each statement that no lock blocks. Nothing forces a request to be sent
or a process to die. `Outbox`: the loops fetch for ever (a ticker), a run goes through its batch, time
passes; no fairness for the link, the flush, the cleaner or new users. `rooms`: the interval of the chat page fires and
its loads are answered and handled (`Poll`, `Answers`), though any may be lost; the handlers of the SFU go on with what they have begun
(`ServiceStep`), which includes noticing that a socket is closed: after a failure of the network that is TCP's keep-alive. Nobody
needs to do anything. `hub`, `pages` and `sessions` are checked for safety only: what a user does next is their own decision.

`CHECK_DEADLOCK FALSE` is in every configuration because each system really comes to rest: all requests
answered, all clients gone, the last version written, all rows settled.

## 4. What is proved

Every theorem is about the specification without fairness's help: safety, from the inductive invariant that the module (or its
proofs) names. These invariants were model-checked on the instance of section 3 before they were proved. The assumption named in each part is
all that is taken of the constants.

### Tasks

From `BoardAssumption` (finitely many tasks, at least one task and one value, `Home` and `Done` are
columns, the markers are not values), for any number of tasks, columns, values and requests:

| Theorem | States |
|---|---|
| `TypeCorrect` | `Spec => []TypeOK` |
| `Invariance` | `Spec => []IInv`, the inductive invariant |
| `EtagsNameOneContent` | `Spec => []EtagNamesOneContent` |
| `ConflictsAreReal` | `Spec => []ConflictShowsNewerRow` |
| `NoUpdateIsLost` | `Spec => NoLostUpdate` |
| `VersionsCount` | `Spec => VersionCountsChanges` |
| `ReordersAreAtomic` | `Spec => ReorderIsAtomic` |
| `TasksHaveHistories` | `Spec => ImplementsHistory` |

None of the properties is inductive. `IInv` adds what a request holds in memory and the locks:

* `HistoryOf(t)`: the row of a task is the newest ever committed, no version was given to two contents.
* `MemoryOf(r)`: the version a request was sent with is not ahead of the table; the row it holds was
  committed and is at least that new. With the WHERE clause of the UPDATE this gives `NoLostUpdate`: the held row
  and the row in the table have the same version, so they are the same.
* `CreationOf(r)`: a task that is being created is not in the table, and nobody else creates it.
* `OrderOf(r)`: a reorder holds the lock of each row it has updated, and such a row is still in the
  column; at the commit that is the whole list, which is `ReorderIsAtomic`.
* `ToldIsCommitted`: clients are only shown rows that were committed.

The heart of the proof is `StepEvolves`: whatever a request does to a row, the row stays, gets the next
version, or is marked deleted. History, memory and told rows of *other* requests follow from that alone
(`OthersKeep`), so each action is looked at once.

`TasksHaveHistories` states that the board implements `TaskHistory`. It needs `IInv` and `HistoryInv`: every version up to that of the row was
committed, so that the history has no hole. The row of a task then stands at the end of its history (`ContentIsIts`), what was committed before keeps its place
(`ContentsStay`), and a commit either leaves the history or appends to it (`HistoryStays`, `HistoryGrows`): versions count contents one by one. For a PATCH
with `If-Match` the memory of the request (`MemoryOf`) says that the content it started from is the newest, which the abstract step demands. Each
statement that is not a commit moves at most the stage of its own request (`OneStage`), and an answer tells a committed row (`AnswerTells`).

### Hub

From `HubAssumption` (goroutines, connections and instances are different, channels have a slot), for any number of changes, tabs, users and instances:

| Theorem | States |
|---|---|
| `HubTypes` | `Spec => []TypeOK`: among others, no `Send` channel ever holds more than its slots |
| `PresenceIsReal` | `Spec => []PresenceHasClient` |
| `EventsComeOnce` | `Spec => []AtMostOnce` |
| `EventsComeInOrder` | `Spec => []SameNodeOrder` |
| `NothingIsMissed` | `Fits => (Spec => []NoEventIsMissed)` |

*Presence* needs `Handlers`: a handler that announces a presence list does nothing else, and who is in a room is at an instance that
runs. *Once and in order* are proved together, since an event that could come again would also come out of order: `FlowInv` says where each message may
still be. A publication sends to clients of its own instance, and what was published before it is past that (`PublicationOf`); a
subscription holds each event once, in an order that agrees with the commits, behind what is being relayed (`SubscriberOf`); a client
that has an event has neither it nor an earlier one on its way (`StreamOf`). *No gap* (`NoGap`): from the reading of its snapshot on, each
committed change of somebody else is in the snapshot, in the client's channel, on its way to it, or lost for a reason the code
accepts; the clause for the handler that holds a snapshot and has not sent it is what makes it inductive. Its hypothesis is that the board fits
in one snapshot: `Fits` is FALSE for a board of more than 20 tasks (section 5), and then the property is false.

### Outbox

From `OutboxAssumption` (every run has a host, at least one attempt, a batch of at least one), for any number of rows, replicas, runs and attempts:

| Theorem | States |
|---|---|
| `OutboxInvariance` | `Spec => []IInv` |
| `RowsHaveOneOwner` | `Spec => []OneOwner` |
| `SendsAreBounded` | `Spec => []SendsAreCounted` |
| `NothingIsLost` | `Spec => []NothingVanishes` |
| `SettledStays` | `Spec => SettledIsFinal` |

`IInv` joins the ownership (a held row is "processing", in one hand only, with the attempts its run has
read) with the counters: `CountOf` bounds the sends of a row by its attempts while nobody holds it, `SendingOf` allows the
holder one more until it settles the row, and `ChosenOf` says that what a cleaner has selected stays published until it is
deleted. Ownership alone is not inductive without the first, and the bound is not without ownership.

`OutboxDelivers` states that the outbox implements `Delivery`: `Spec => ImplementsDelivery`. The mapping is total, so the proof is one
step per action: `WriteUser` records, `PublishMessage` offers, `Settle` reports, gives up or stutters, everything else stutters. It
needs `IInv` and `RInv`: a row that waits has been offered as often as it counts and was never taken (`WaitingOf`), a row in a hand
that has not been offered yet is in the same case (`HandOf`), and what was accepted was written.

### Sessions

From `SessionsAssumption`, for any number of tabs, requests, calls and pairs:

| Theorem | States |
|---|---|
| `SessionsInvariance` | `Spec => []IInv` |
| `TokensAreUsedOnce` | `Spec => []OneTokenPerLogin` |
| `PagesRefreshOnce` | `Spec => []OneRefreshPerPage` |
| `RefusalsHaveACause` | `Spec => []RefusalHasACause` |
| `StorageNeverGoesBack` | `Spec => StorageMovesForward` |
| `RefreshesExchangeTokens` | `Spec => ImplementsRotation` |

An exchange must not end with two tokens of a login in the table. `LockOf` says that a transaction past its
SELECT holds the lock of a row that is still there, so DELETE removes one token for each that INSERT adds; `LineageOf` that both are
of one login, or that a login which stores its first token has none yet; `PairsAreFresh` that no two calls store the same
pair. The browser cannot disturb any of this (`QuietStep`): it only starts calls and forgets answers.

The pages need two more. `PageInv`: what a page awaits is a refresh that is under way. `HeardInv`: until it is delivered nobody has
heard of a pair, neither the storage nor a refresh nor a page (`UnheardOf`), a pair is newer than the one it replaces (`PairOf`), a page asks for each token
once (`AsksOnce`), and the table is never behind the storage (`TableIsAhead`). So a late answer can only bring the newest pair of its
login, and a refused page either shares its token with another tab or has lost the answer.

`RefreshesExchangeTokens` states that the sessions implement `TokenRotation`. With `OneTokenPerLogin`, the locked row is all that its login has in the
table (`LockOf`), the new pair is of that login (`LineageOf`) and newer (`PairOf`), so DELETE, INSERT and COMMIT are one exchange; a login that stores its pair has no token
yet. `LoginsHaveNumbers`, that every pair descends from a login, makes the mapping total. The browser moves calls from "none" to "asked" and from their answer back to
"none", and touches no token (`BrowserRotation`).

### The pages of a board

Each from its own assumption (`SyncAssumption`, `ClientAssumption`, `ScopeAssumption`, `FileAssumption`, `ThreadAssumption`), for any number of
fields, values, versions, teams, projects, environments, folders, tasks and comments, and history pages of any size:

| Theorem | States |
|---|---|
| `OneStreamOnly` | `SyncSpec => []OneStream` |
| `EditTypes` | `EditSpec => []EditTypeOK` |
| `QuickEditsOfWhatIsShown` | `EditSpec => QuickEditsAreInformed` |
| `MergesKeepTheirs` | `EditSpec => MergeKeepsTheirs` |
| `ForceReplacesTheShown` | `EditSpec => ForceReplacesWhatWasShown` |
| `PageSettles` | `ScopeSpec => []ScopeSettles` |
| `DeletionsAreConfirmed` | `ScopeSpec => DeletedWasConfirmed` |
| `TreeIsOfItsEnvironment` | `FileSpec => []TreeIsOfTheEnvironment` |
| `ThreadTypes` | `ThreadSpec => [](ThreadTypeOK /\ RequestInv)` |
| `CommentsAreNotMissed` | `ThreadSpec => []UnreadOrCame` |
| `ThreadsAreWhole` | `ThreadSpec => []ThreadIsWhole` |

* `BoardSync`: `SyncInv` adds whose sockets there are: what opens or is open, and every timer, belongs to the last effect; what is
  being closed to an earlier one. Without it, a late close event could not be told from a broken connection.
* `BoardClient`: `SaveInv` says for which row a PATCH that is under way was made: the cache moves with the board, so a quick edit is sent
  for the row it started from (`QuickOf`); a second PATCH is for a row with which the merge found no conflict (`MergedOf`), a forced one
  for that of the dialog (`ForcedOf`). As a version names one content, and versions that are past never change, an
  accepted PATCH has then been compared with the very row that it replaces. Why the same cannot be proved of the editor is `client_overwrite`.
* `BoardScope`: `ScopeSettles` is about a page at rest. `PartsCome` extends it to a page at work: unless something crossed, either a list is on its way,
  after which the page selects, or the project is of the team and each part is shown or on its way. `ProjectsHaveTeams` is
  what the answers to deletions need, which load the projects of the team again.
* `FilePage`: `OneAtATime`: without the exception there is one operation at most, the page is busy as long as it runs, and it is on
  the selected environment.
* `TaskThread`: three layers. `RequestInv`: the list that a request carries has each comment once, and a post names a comment of its own.
  `ReadInv` extends "unread or came" to what is still being written and to the requests: what a list on its way to its mark lacks came before or has
  slipped through (`ListOf`), so a mark covers nothing else. `TrailInv` compares each end of a list with the history as it has grown since: the last
  entry shown is not newer than its place allows (`Within`), and a page that is to be appended begins where the list ends, unless something replaced the
  list (`PageOf`); an entry may then be shown twice, but none is left out. `ThreadOf` and `Without` are defined by what they
  return (`InOrder`: the ascending sequence of a set of numbers), and `OrderExists` proves that there is one for every finite set: the
  least size for which there were none leads to a smaller one.

### The columns of a board

From `ColumnsAssumption` (numbers of columns, writes and lists; a request is the page's or a colleague's), for any number of columns and requests:

| Theorem | States |
|---|---|
| `ColumnTypes` | `ColumnsSpec => []ColumnsTypeOK` |
| `RenamesReplaceTheHeld` | `ColumnsSpec => RenameReplacesWhatWasHeld` |
| `ReordersAreAsAsked` | `ColumnsSpec => ReorderIsAsAsked` |

*Sequences.* `OrderedIs` shows once, for any finite set in a strict order, that `Ordered` has every element at one place and that the places
follow the order: an element's place is the number of those before it. What the list of the table, a sort, a filter and the final order of a reorder
return follows from it (`ListedIs`, `SortedIs`, `PickedIs`, `FinalOrderIs`).

*Renames.* `SentInv`: whatever is on its way to the page, in any order, names a version that the row has had, and the newest version only with its title; a
write gives the row a new version (`Grows`), so this is never undone. `HeldInv`: unless `blurred`, so does what the page shows, once per column, and it is
the version in the cache. `RenameInv`: a rename names a version that had the title it was made from. When the service accepts, that
version is the row's. The mutant that remembers the version of an event which the page does not show breaks `HeldInv`.

*Reorders.* `MoveInv`, for a request that is alone: those already moved lie before position `nth` in the order that was asked for, and
those left follow in that order, each once and still there. The check establishes it (`MovesBegin`), each UPDATE keeps it (`MovesGoOn`), and whatever
anybody else does either leaves the table as it is or ends `alone` (`Untouched`). When nothing is left, the positions are in order, and then so is the list.

### Chats and calls

From `ChatAssumption`, `CallAssumption` (a page has a user, a channel holds a message) and `MediaAssumption` (a finite set of voices), for any people,
rooms, pages, connections, streams, candidates and bounds:

| Theorem | States |
|---|---|
| `ChatTypes` | `ChatSpec => [](ChatTypeOK /\ FormInv)` |
| `ChatShowsItsRoom` | `ChatSpec => []ShownAreOfTheRoom` |
| `RemovalIsEffective` | `ChatSpec => []RemovalTakesEffect` |
| `CallTypes` | `CallSpec => []CallTypeOK`: among others, no channel of a peer ever holds more than its slots |
| `MembersSeeEachOther` | `CallSpec => []MembersAreSeen` |
| `MediaTyped` | `MediaSpec => []MediaTypes` |
| `MicrophoneIsReleased` | `MediaSpec => []MicrophoneReleased` |
| `MutedPageIsSilent` | `MediaSpec => []MutedIsSilent` |
| `NothingIsLostOnTheWay` | `MediaSpec => []NothingHeardIsLost` |

`ShownAreOfTheRoom` is inductive once loads and forms are of a room (`FormInv`). A removed person may write the one message that had been checked
before; that it is one and not more is `LateInv`: nobody has two under way, who is a member or has one under way has written none
since the removal, and a room never becomes empty because its founder cannot be removed.

`MembersAreSeen` is about two members at rest; three layers lead to it. `SocketInv`: the service knows nothing of a socket that is
not open yet, and a user is in the room by a connection of their own. `PresentInv`: a connection that has joined and was not removed is
the user's place in the room, and no page is going to hear that the user left; that holds only where the connection is the user's
only one, since `removePeer` of an old one deletes the newer one. `SeenInv` then follows two members from the first handler's lock on:
each has a tile for the other, or a `joined` or `media` message on its way, or one of the two handlers still has the other in the list that it took
under the lock. Whoever takes the lock second finds the first, so the pair is never forgotten between the unlock and the sends.

`MicrophoneInv`: in a call the connection sends every stream that records; after it only a grant that was late records.
`MuteInv`: without rivals one request waits at most, and then there is no stream. For the negotiation `CandidateInv`
keeps a candidate applied or waiting, and `SlotInv` looks ahead along the messages on the wire: `KnownAfter(s, i)` says that the page knows of voice s when it
has heard i of them. In the end it knows of all, and if it lacks a slot, a "renegotiate" comes at a point where it knows of all.
Counting slots against voices now, without the messages to come, is not inductive.

### The instances with a focus

The theorems of the pages, of the chats and of the calls are about one module each, and the runs `pages` and `rooms` check an instance that
puts several side by side. `PagesAreAll` (`MCSpec => EditSpec /\ ColumnsSpec /\ ScopeSpec /\ SyncSpec /\ ThreadSpec /\ FileSpec /\ MediaSpec`) and
`RoomsAreBoth` (`MCSpec => ChatSpec /\ CallSpec`) carry each of them over: a step of the module in focus leaves the variables of the others as they are. From there
`PagesTypes` and `RoomsTypes` state `MCSpec => []PagesTypeOK` and `MCSpec => []RoomsTypeOK`.

Every invariant and action property that a passing run checks is thus a theorem too, and so are `VersionCountsChanges` and `OneTokenPerLogin`, which no run lists: the
refinements that the runs check say more.

### Only model-checked

* `EveryRequestEnds`, `EventsAreSettled`, `MessagesArrive`, `LeftIsGone`: liveness under fairness, which is out of the prover's reach.
* The five properties of the runs that expect a violation: they are false (section 5).

## 5. Where the code and its documents disagree

| Run | Code | Document |
|---|---|---|
| `board_412` | The repository compares errors with `sql.ErrNoRows`; pgx v5 as pinned returns its own `pgx.ErrNoRows`, so a stale `If-Match` is answered 500 | README.md:143 and `lib/api.js:208`, which waits for a 412 |
| `hub_panic` | A client that leaves between the copy of the room and the send makes the publication panic half way, so later clients hear nothing | the comment at `redis_broker.go:24` |
| `client_overwrite` | A reload moves the version cache under an open editor: the save carries the new version and replaces the colleague's value without a question | README.md:122, TasksPage.jsx:903 |
| `columns_412` | After a refused reorder the page takes the current columns and its caller puts the old ones back | TasksPage.jsx:2063 |
| `sessions_end` | The page reads `data.tokens` in the answer to a refresh; the service answers the pair itself. The token is exchanged, the page throws and signs the user out | openapi.yaml:195, api.js:174 |

Met while modelling and worth a reader's attention, without a run.

* **Tasks and columns.** A snapshot asks for 200 tasks and gets 20, because a limit above 100 falls back to the default
  (`task_service.go:170`; the constant `Fits` of BoardHub). A column may be deleted while a task enters it
  (`task_service.go:525`). The merge sends the whole patch again, untouched fields included
  (`boardMerge.js:152`), which is why `MergeKeepsTheirs` speaks of the fields the user changed. "Keep the server's version" leaves the
  form as typed; the dirty flag is cleared by a save that answered what was typed before (`TasksPage.jsx:1801`), and a suggestion that was
  accepted never sets it, so that an event overwrites it (`TasksPage.jsx:1625`). A created column is appended
  although its event may have shown it already (`TasksPage.jsx:1429`), hence the dropping of repetitions in the service.
  A refused order puts old titles back beside new versions, and a rename is then blind.
* **Scope.** The answer to the projects of team A may select A's project under team B (`TasksPage.jsx:779`); settings of A that arrive late are
  saved to B; a failed load leaves A's tasks under B.
* **Comments.** A comment written between the list and the mark counts as read (`TasksPage.jsx:979`), and so does the whole thread when the user
  writes to it (`task_service.go:406`). Late comments and suggestions of one task land in the editor of another; the answer to a post empties
  the draft typed for the next task (`TasksPage.jsx:1830`). The snapshot of a board carries no unread counts.
* **Board stream.** The close event of an old socket clears the heartbeat of the new one and reports "not connected" (`useBoardSync.js:116`).
* **Chat.** A room shows its oldest 100 messages for ever (`ChatPage.jsx:123`, `postgres.rs` orders by `created_at` ascending); sending in one
  room and changing to another leaves the spinner on; an event that cannot be published turns a stored message into
  an error, and sending again stores it twice (`service.rs:292`).
* **Calls.** A new access token opens a second socket of the same user, which replaces the first; `removePeer` of an old
  connection deletes the newer one (`main.go:586`); a microphone granted after the user has left stays on
  (`useWebRTC.js:134`); of two requests for it the first stream is never stopped.
* **Files.** Buttons of the tree ignore `isBusy` (`FileEnvironments.jsx:387`), so that a listing of one environment may be shown in another; the
  target of uploads survives a change of environment.
* **Sessions and outbox.** A refresh that is in flight at a sign-out signs the user in again (`api.js:115`); a request that is sent again after a refresh
  and loses its connection signs the user out (`api.js:168`); a row of the outbox whose run died stays "processing" for ever (`Stranded`); the
  publisher of user-service never reconnects.

## 6. What is not modelled

Listing and filtering are reads. Authentication is a guard that a request passes or not.
What a language model answers is an input. Rendering, formatting, metrics and logging are left out, and so
are contents that no property tells apart: `title` stands for all copied columns of a task. Time is
left out wherever the code only compares it: rows become due, links are lost at some moment. Forms that hold one request at a time
(registration, password reset, the cabinet, the drawer of the agent) have no order to get wrong beyond what `Sessions` says of
their requests. The mind map, the export and the deadline lists are computed from the tasks that are shown.
Forwarding of sound between the peers of a room, ICE and DTLS are inside the WebRTC libraries. The queue libraries, the agent's
retries, notification-service, quotas of files, and roles and invitations of teams are left out, with a note each in `PROJECT.json`.

## 7. Plan

What would come next, in this order.

1. **BoardPipeline**: the commits of `TaskBoard`, the hub and the page in one, with an abstract specification that the composition implements.
2. **Rpc** and **AgentRpc**: the queue libraries as a channel, and the agent's retries over it.
3. **Accounts** and **Teams**: attempts of codes, rows that are written back as a whole, invitations that stop half way.
