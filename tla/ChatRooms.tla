----------------------------- MODULE ChatRooms -----------------------------
(***************************************************************************)
(* The chats of a user: the page (ChatPage) with the rooms, messages and   *)
(* participants it shows, its requests and the poll, and the chat service  *)
(* behind it (service.rs, postgres.rs), which other people use too.        *)
(*                                                                         *)
(* Messages of a room are only ever appended, and a page asks for the      *)
(* first Limit of them: what it got is how many.  The answer to such a     *)
(* request is made at one moment and arrives at another, in any order; the *)
(* other loads are made and answered in any order, with what is true when  *)
(* the answer arrives.                                                     *)
(***************************************************************************)
EXTENDS Naturals, Sequences, FiniteSets

CONSTANTS
    Room, Person,
    Self,         \* the user of the page
    Nowhere,      \* no room
    Limit,        \* limit=100 of the request for messages
    MaxLog,       \* bound: messages per room
    MaxGets,      \* bound: loads that are under way when the user or the timer starts more
    MaxActs       \* bound: what the user and other people do, and lost loads

ASSUME ChatAssumption ==
    /\ Self \in Person /\ Nowhere \notin Room
    /\ {Limit, MaxLog, MaxGets, MaxActs} \subseteq Nat

VARIABLES
    roster,    \* chat_room_members; a room without members was not created
    founder,   \* created_by
    log,       \* how many messages a room has
    checked,   \* sends of other people that have passed is_member
    late,      \* history: messages of a person since they were removed from a room
    listed,    \* rooms
    chosen,    \* selectedRoomId, and its ref
    people,    \* roomDetails: of which room, and who is in it
    shown,     \* messages: of which room, and how many
    loading,   \* isLoadingMessages
    gets,      \* loads under way
    job,       \* the form that was submitted: create, send, add or remove
    missed,    \* history: the last load of the chosen room has failed
    acts       \* how many there were

Act == acts < MaxActs /\ acts' = acts + 1
chatService == <<roster, founder, log, checked, late>>
chatView == <<listed, chosen, people, shown, loading, missed>>
chatVars == <<chatService, chatView, gets, job, acts>>

Get(what, r, silent, mine) ==
    [what |-> what, room |-> r, silent |-> silent, mine |-> mine, pc |-> "sent", count |-> 0]
NoJob == [kind |-> "none", room |-> Nowhere, who |-> Self, pc |-> "idle", todo |-> <<>>]
NoPeople == [room |-> Nowhere, who |-> {}]
LeastOf(m, n) == IF m < n THEN m ELSE n

ChatInit ==
    /\ \E rs \in SUBSET Room, u \in Person \ {Self}, v \in Person :
          /\ founder = [r \in Room |-> IF r \in rs THEN v ELSE Self]
          /\ roster \in [Room -> {{}, {Self}, {Self, u}}]
          /\ \A r \in Room : roster[r] # {} <=> r \in rs
          /\ \A r \in rs : v \in roster[r]
    /\ log = [r \in Room |-> 0]
    /\ checked = {}
    /\ late = [r \in Room |-> [u \in Person |-> 0]]
    /\ listed = {}
    /\ chosen = Nowhere
    /\ people = NoPeople
    /\ shown = [room |-> Nowhere, count |-> 0]
    /\ loading = FALSE
    /\ gets = {Get("rooms", Nowhere, TRUE, FALSE)}
    /\ job = NoJob
    /\ missed = FALSE
    /\ acts = 0

-----------------------------------------------------------------------------
(* The service.                                                            *)

Created(r) == roster[r] # {}

\* create_room: the room and its members in one transaction.
CreateRoom(r, u, v) ==
    /\ ~Created(r) /\ u # v
    /\ roster' = [roster EXCEPT ![r] = {u, v}]
    /\ founder' = [founder EXCEPT ![r] = u]

MayAdd(r, u, v) == u \in roster[r] /\ v # u
AddMember(r, u, v) ==
    /\ MayAdd(r, u, v)
    /\ roster' = [roster EXCEPT ![r] = @ \cup {v}]
    /\ late' = [late EXCEPT ![r][v] = 0]

MayRemove(r, u, v) == founder[r] = u /\ v # u /\ v \in roster[r]
RemoveMember(r, u, v) ==
    /\ MayRemove(r, u, v)
    /\ roster' = [roster EXCEPT ![r] = @ \ {v}]

\* send_message: is_member, and later the insert.  (The variant does not ask.)
MaySendAnyone(r, u) == Created(r)
MaySend(r, u) == u \in roster[r]
WriteMessage(r, u) ==
    /\ log[r] < MaxLog
    /\ log' = [log EXCEPT ![r] = @ + 1]
    /\ late' = [late EXCEPT ![r][u] = IF u \in roster[r] THEN 0 ELSE @ + 1]

\* What other people do.
OthersCreate ==
    /\ \E r \in Room, u \in Person \ {Self}, v \in Person : CreateRoom(r, u, v)
    /\ Act
    /\ UNCHANGED <<log, checked, late, chatView, gets, job>>

OthersAdd ==
    /\ \E r \in Room, u \in Person \ {Self}, v \in Person :
          v \notin roster[r] /\ AddMember(r, u, v)
    /\ Act
    /\ UNCHANGED <<founder, log, checked, chatView, gets, job>>

OthersRemove ==
    /\ \E r \in Room, u \in Person \ {Self}, v \in Person : RemoveMember(r, u, v)
    /\ Act
    /\ UNCHANGED <<founder, log, checked, late, chatView, gets, job>>

OthersCheck ==
    /\ \E r \in Room, u \in Person \ {Self} :
          /\ MaySend(r, u) /\ log[r] < MaxLog
          /\ \A c \in checked : c.by # u
          /\ checked' = checked \cup {[room |-> r, by |-> u]}
    /\ UNCHANGED <<roster, founder, log, late, chatView, gets, job, acts>>

OthersWrite ==
    /\ \E c \in checked : WriteMessage(c.room, c.by) /\ checked' = checked \ {c}
    /\ Act
    /\ UNCHANGED <<roster, founder, chatView, gets, job>>

Answered(g, how) == [g EXCEPT !.pc = how]
\* The answer to a load of messages; a user who is not in the room gets a 404.
ServeGet ==
    /\ \E g \in gets :
          /\ g.what = "messages" /\ g.pc = "sent"
          /\ gets' = (gets \ {g}) \cup
                {IF Self \in roster[g.room]
                 THEN [Answered(g, "ok") EXCEPT !.count = LeastOf(log[g.room], Limit)]
                 ELSE Answered(g, "error")}
    /\ UNCHANGED <<chatService, chatView, job, acts>>

LoseGet ==
    /\ \E g \in gets : g.pc # "error" /\ gets' = (gets \ {g}) \cup {Answered(g, "error")}
    /\ Act
    /\ UNCHANGED <<chatService, chatView, job>>

-----------------------------------------------------------------------------
(* The page.                                                               *)

\* setSelectedRoomId and the effect on it: load the room, or show that there is none.
Choose(r, others) ==
    /\ chosen' = r
    /\ IF r = chosen THEN gets' = others /\ UNCHANGED <<people, shown, loading, missed>>
       ELSE IF r = Nowhere
       THEN /\ gets' = others
            /\ people' = NoPeople
            /\ shown' = [room |-> Nowhere, count |-> 0]
            /\ UNCHANGED <<loading, missed>>
       ELSE /\ gets' = others \cup {Get("details", r, FALSE, FALSE), Get("messages", r, FALSE, FALSE)}
            /\ loading' = TRUE
            /\ missed' = FALSE
            /\ UNCHANGED <<people, shown>>

SelectRoom ==
    /\ Cardinality(gets) < MaxGets
    /\ \E r \in listed \ {chosen} : Choose(r, gets)
    /\ Act
    /\ UNCHANGED <<chatService, listed, job>>

\* refreshActiveChat: the interval, a focus, the tab visible again.  (The variant
\* refreshes the list of rooms alone.)
PolledRooms(r) == {Get("rooms", Nowhere, TRUE, FALSE)}
Polled(r) == {Get("messages", r, TRUE, FALSE), Get("rooms", Nowhere, TRUE, FALSE)}
Poll ==
    /\ chosen # Nowhere
    /\ Cardinality(gets) + 2 <= MaxGets
    /\ gets' = gets \cup Polled(chosen)
    /\ UNCHANGED <<chatService, chatView, job, acts>>

\* A handler goes on with its next load; the last one ends it.
LoadsOf(j) == IF j.todo = <<>> THEN {} ELSE {Get(j.todo[1], j.room, FALSE, TRUE)}
NextLoad(g) ==
    IF ~g.mine THEN job
    ELSE IF job.todo = <<>> THEN NoJob
    ELSE [job EXCEPT !.todo = Tail(@)]
MoreLoads(g) == IF g.mine THEN LoadsOf(job) ELSE {}
StartsMessages(j) == j.todo # <<>> /\ j.todo[1] = "messages"

\* loadRooms: a chosen room that is gone gives way to the first of the list.  After a
\* create, the handler then selects the new room.
ReceiveRooms ==
    /\ \E g \in gets :
          LET mine == {r \in Room : Self \in roster[r]} IN
          /\ g.what = "rooms"
          /\ listed' = IF g.pc = "error" THEN listed ELSE mine
          /\ IF g.mine /\ job.kind = "create" THEN Choose(job.room, gets \ {g})
             ELSE IF g.pc = "error" \/ chosen \in mine THEN Choose(chosen, gets \ {g})
             ELSE IF mine = {} THEN Choose(Nowhere, gets \ {g})
             ELSE \E r \in mine : Choose(r, gets \ {g})
          /\ job' = IF g.mine THEN NoJob ELSE job
    /\ UNCHANGED <<chatService, acts>>

\* An answer counts when its room is still chosen.  (The variant takes any.)
CountsAlways(g) == TRUE
Counts(g) == chosen = g.room

\* loadRoomDetails
ReceiveDetails ==
    /\ \E g \in gets :
          /\ g.what = "details"
          /\ people' = IF ~Counts(g) THEN people
                       ELSE IF g.pc = "error" \/ Self \notin roster[g.room] THEN NoPeople
                       ELSE [room |-> g.room, who |-> roster[g.room]]
          /\ gets' = (gets \ {g}) \cup MoreLoads(g)
          /\ job' = NextLoad(g)
          /\ loading' = (loading \/ (g.mine /\ StartsMessages(job)))
    /\ UNCHANGED <<chatService, listed, chosen, shown, missed, acts>>

\* loadMessages: the spinner ends with a load that shows it, in its own room.
ReceiveMessages ==
    /\ \E g \in gets :
          /\ g.what = "messages" /\ g.pc \in {"ok", "error"}
          /\ shown' = IF Counts(g) /\ g.pc = "ok" THEN [room |-> g.room, count |-> g.count] ELSE shown
          /\ missed' = IF Counts(g) THEN g.pc = "error" ELSE missed
          /\ loading' = IF ~g.silent /\ chosen = g.room THEN FALSE ELSE loading
          /\ gets' = (gets \ {g}) \cup MoreLoads(g)
          /\ job' = NextLoad(g)
    /\ UNCHANGED <<chatService, listed, chosen, people, acts>>

\* handleCreateDirectChat, handleSendMessage, handleAddParticipant and
\* handleRemoveParticipant; the first and the third look the person up.
Submit ==
    /\ job.kind = "none"
    /\ \E kind \in {"create", "send", "add", "remove"}, u \in Person \ {Self} :
          /\ kind = "create" \/ chosen # Nowhere
          /\ kind = "remove" => people.room = chosen /\ u \in people.who /\ founder[chosen] = Self
          /\ kind = "send" => u = CHOOSE v \in Person \ {Self} : TRUE
          /\ job' = [kind |-> kind, room |-> chosen, who |-> u, pc |-> "sent", todo |-> <<>>]
    /\ Act
    /\ UNCHANGED <<chatService, chatView, gets>>

SendIsChecked ==
    /\ job.kind = "send" /\ job.pc = "sent" /\ MaySend(job.room, Self)
    /\ job' = [job EXCEPT !.pc = "checked"]
    /\ UNCHANGED <<chatService, chatView, gets, acts>>

\* The request succeeds and the handler reloads.
Plan(kind) ==
    IF kind = "send" THEN <<"messages", "rooms">>
    ELSE IF kind = "add" THEN <<"details", "rooms">>
    ELSE IF kind = "remove" THEN <<"details", "messages", "rooms">>
    ELSE <<"rooms">>
ReloadRoom(r) ==
    LET plan == Plan(job.kind)
    IN  /\ job' = [kind |-> job.kind, room |-> r, who |-> job.who, pc |-> "done", todo |-> Tail(plan)]
        /\ gets' = gets \cup {Get(plan[1], r, FALSE, TRUE)}
        /\ loading' = (loading \/ plan[1] = "messages")

JobCreates ==
    /\ job.kind = "create" /\ job.pc = "sent"
    /\ \E r \in Room : CreateRoom(r, Self, job.who) /\ ReloadRoom(r)
    /\ UNCHANGED <<log, checked, late, listed, chosen, people, shown, missed, acts>>

JobSends ==
    /\ job.kind = "send" /\ job.pc = "checked"
    /\ WriteMessage(job.room, Self) /\ ReloadRoom(job.room)
    /\ UNCHANGED <<roster, founder, checked, listed, chosen, people, shown, missed, acts>>

JobAdds ==
    /\ job.kind = "add" /\ job.pc = "sent"
    /\ AddMember(job.room, Self, job.who) /\ ReloadRoom(job.room)
    /\ UNCHANGED <<founder, log, checked, listed, chosen, people, shown, missed, acts>>

JobRemoves ==
    /\ job.kind = "remove" /\ job.pc = "sent"
    /\ RemoveMember(job.room, Self, job.who) /\ ReloadRoom(job.room)
    /\ UNCHANGED <<founder, log, checked, late, listed, chosen, people, shown, missed, acts>>

\* An error, which is shown: refused by the service, or lost.
JobFails ==
    /\ job.kind # "none" /\ job.pc \in {"sent", "checked"}
    /\ job' = NoJob
    /\ UNCHANGED <<chatService, chatView, gets, acts>>

\* The service has committed it, but could not publish the event, and answers with an
\* error: the form keeps its text and nothing is reloaded.
JobFailsLate ==
    /\ \/ /\ job.kind = "send" /\ job.pc = "checked" /\ WriteMessage(job.room, Self)
          /\ UNCHANGED <<roster, founder>>
       \/ /\ job.kind = "create" /\ job.pc = "sent"
          /\ \E r \in Room : CreateRoom(r, Self, job.who)
          /\ UNCHANGED <<log, late>>
       \/ /\ job.kind = "add" /\ job.pc = "sent" /\ AddMember(job.room, Self, job.who)
          /\ UNCHANGED <<founder, log>>
       \/ /\ job.kind = "remove" /\ job.pc = "sent" /\ RemoveMember(job.room, Self, job.who)
          /\ UNCHANGED <<founder, log, late>>
    /\ job' = NoJob
    /\ UNCHANGED <<checked, chatView, gets, acts>>

-----------------------------------------------------------------------------
ChatNext ==
    \/ OthersCreate \/ OthersAdd \/ OthersRemove \/ OthersCheck \/ OthersWrite
    \/ ServeGet \/ LoseGet
    \/ SelectRoom \/ Poll \/ ReceiveRooms \/ ReceiveDetails \/ ReceiveMessages
    \/ Submit \/ SendIsChecked \/ JobCreates \/ JobSends \/ JobAdds \/ JobRemoves
    \/ JobFails \/ JobFailsLate

ChatSpec == ChatInit /\ [][ChatNext]_chatVars

-----------------------------------------------------------------------------
ChatTypeOK ==
    /\ roster \in [Room -> SUBSET Person] /\ founder \in [Room -> Person]
    /\ log \in [Room -> 0 .. MaxLog]
    /\ listed \subseteq Room /\ {chosen, people.room, shown.room} \subseteq Room \cup {Nowhere}
    /\ shown.count \in 0 .. Limit /\ {loading, missed} \subseteq BOOLEAN

\* The messages under the title of a room are of that room, however quickly the user
\* changes rooms and whatever answers are late (the selectedRoomIdRef guards), unless
\* the load of the room has failed: then those of the previous one stay.
ShownAreOfTheRoom ==
    chosen # Nowhere /\ ~loading /\ ~missed => shown.room = chosen

\* A person who was removed from a room writes at most the message that had been
\* checked before (send_message looks first and inserts later).
RemovalTakesEffect ==
    \A r \in Room, u \in Person : late[r][u] <= 1

\* The page is never behind for good: the poll brings every message that others
\* write in the chosen room, whatever loads are lost or come late, as long as the
\* room has no more of them than the page asks for.
Behind ==
    /\ chosen # Nowhere /\ Self \in roster[chosen]
    /\ shown.room # chosen \/ shown.count < LeastOf(log[chosen], Limit)
MessagesArrive == []<>~Behind

-----------------------------------------------------------------------------
(* The inductive invariants.                                               *)

LoadKind == {"rooms", "details", "messages"}
LoadType ==
    [what : LoadKind, room : Room \cup {Nowhere}, silent : BOOLEAN, mine : BOOLEAN,
     pc : {"sent", "ok", "error"}, count : 0 .. Limit]
FormType ==
    [kind : {"none", "create", "send", "add", "remove"}, room : Room \cup {Nowhere},
     who : Person, pc : {"idle", "sent", "checked", "done"}, todo : Seq(LoadKind)]

\* What is asked for, and the form, are of a room wherever they need one.
FormInv ==
    /\ gets \subseteq LoadType /\ job \in FormType
    /\ checked \subseteq [room : Room, by : Person]
    /\ \A g \in gets : g.what # "rooms" => g.room \in Room
    /\ job.kind \in {"send", "add", "remove"} \/ job.todo # <<>> => job.room \in Room
    /\ job.pc = "checked" => job.kind = "send"

\* A message that has passed is_member and was not inserted yet.
Underway(r, u) ==
    \/ [room |-> r, by |-> u] \in checked
    \/ u = Self /\ job.pc = "checked" /\ job.room = r

\* Nobody has two messages under way.  Who has one, or is in the room, has written none
\* since they were removed; nobody is ever in, or writes to, a room that was not created.
LateInv ==
    /\ late \in [Room -> [Person -> 0 .. 1]]
    /\ \A c \in checked : c.by # Self /\ \A d \in checked : c.by = d.by => c = d
    /\ \A r \in Room : roster[r] # {} => founder[r] \in roster[r]
    /\ \A r \in Room, u \in Person :
          /\ u \in roster[r] \/ roster[r] = {} \/ Underway(r, u) => late[r][u] = 0
          /\ Underway(r, u) => roster[r] # {}
=============================================================================
