----------------------------- MODULE RoomsProofs -----------------------------
(***************************************************************************)
(* What is proved of the chats of a user and of who is in a call, for any  *)
(* number of rooms, people, messages, loads, pages and connections.        *)
(***************************************************************************)
EXTENDS MCRooms, TLAPS

-----------------------------------------------------------------------------
(* The chats: what is asked for is typed (FormInv), the messages on the page*)
(* are those of the chosen room, and a person who was removed writes one more*)
(* message at most (LateInv).                                              *)

USE ChatAssumption

ServiceOK ==
    /\ roster \in [Room -> SUBSET Person] /\ founder \in [Room -> Person]
    /\ log \in [Room -> 0 .. MaxLog]
    /\ checked \subseteq [room : Room, by : Person]
ViewOK ==
    /\ listed \subseteq Room /\ {chosen, people.room, shown.room} \subseteq Room \cup {Nowhere}
    /\ shown.count \in 0 .. Limit /\ {loading, missed} \subseteq BOOLEAN
LoadOK(g) == g \in LoadType /\ (g.what # "rooms" => g.room \in Room)
LoadsOK == \A g \in gets : LoadOK(g)
JobOK ==
    /\ job \in FormType
    /\ job.kind \in {"send", "add", "remove"} \/ job.todo # <<>> => job.room \in Room
    /\ job.pc = "checked" => job.kind = "send"
Typed == ServiceOK /\ ViewOK /\ LoadsOK /\ JobOK

LEMMA TypedIs == Typed <=> ChatTypeOK /\ FormInv
  BY DEF Typed, ServiceOK, ViewOK, LoadsOK, LoadOK, JobOK, ChatTypeOK, FormInv

LEMMA Bounds == Limit \in Nat /\ MaxLog \in Nat
  OBVIOUS

-----------------------------------------------------------------------------
(* The operators of the model.                                             *)

LEMMA GetTyped ==
  ASSUME NEW what \in LoadKind, NEW r \in Room \cup {Nowhere}, NEW silent \in BOOLEAN,
         NEW mine \in BOOLEAN, what # "rooms" => r \in Room
  PROVE  LoadOK(Get(what, r, silent, mine))
  BY DEF LoadOK, LoadType, Get

LEMMA AnsweredTyped ==
  ASSUME NEW g, LoadOK(g), NEW how \in {"ok", "error"}
  PROVE  LoadOK(Answered(g, how))
  BY DEF LoadOK, LoadType, Answered

LEMMA PlanTyped ==
  ASSUME NEW kind
  PROVE  /\ Plan(kind)[1] \in LoadKind
         /\ Tail(Plan(kind)) \in Seq(LoadKind)
  <1>1. \A a, b, c \in LoadKind :
          /\ <<a>>[1] = a /\ Tail(<<a>>) \in Seq(LoadKind)
          /\ <<a, b>>[1] = a /\ Tail(<<a, b>>) \in Seq(LoadKind)
          /\ <<a, b, c>>[1] = a /\ Tail(<<a, b, c>>) \in Seq(LoadKind)
    OBVIOUS
  <1>2. "messages" \in LoadKind /\ "rooms" \in LoadKind /\ "details" \in LoadKind
    BY DEF LoadKind
  <1>3. CASE kind = "send"
    BY <1>1, <1>2, <1>3 DEF Plan
  <1>4. CASE kind = "add"
    BY <1>1, <1>2, <1>4 DEF Plan
  <1>5. CASE kind = "remove"
    BY <1>1, <1>2, <1>5 DEF Plan
  <1>6. CASE kind \notin {"send", "add", "remove"}
    BY <1>1, <1>2, <1>6 DEF Plan
  <1>7. QED
    BY <1>3, <1>4, <1>5, <1>6

LEMMA LeastTyped ==
  ASSUME NEW n \in Nat PROVE LeastOf(n, Limit) \in 0 .. Limit
  BY DEF LeastOf

LEMMA CreateTyped ==
  ASSUME ServiceOK, NEW r \in Room, NEW u \in Person, NEW v \in Person, CreateRoom(r, u, v)
  PROVE  roster' \in [Room -> SUBSET Person] /\ founder' \in [Room -> Person]
  BY DEF ServiceOK, CreateRoom

LEMMA AddTyped ==
  ASSUME ServiceOK, NEW r \in Room, NEW u \in Person, NEW v \in Person, AddMember(r, u, v)
  PROVE  roster' \in [Room -> SUBSET Person]
  BY DEF ServiceOK, AddMember

LEMMA RemoveTyped ==
  ASSUME ServiceOK, NEW r \in Room, NEW u \in Person, NEW v \in Person, RemoveMember(r, u, v)
  PROVE  roster' \in [Room -> SUBSET Person]
  BY DEF ServiceOK, RemoveMember

LEMMA WriteTyped ==
  ASSUME ServiceOK, NEW r \in Room, NEW u \in Person, WriteMessage(r, u)
  PROVE  log' \in [Room -> 0 .. MaxLog]
  BY DEF ServiceOK, WriteMessage

LEMMA ReloadTyped ==
  ASSUME LoadsOK, JobOK, NEW r \in Room, ReloadRoom(r)
  PROVE  /\ LoadsOK' /\ JobOK'
         /\ loading \in BOOLEAN => loading' \in BOOLEAN
  <1> DEFINE plan == Plan(job.kind)
  <1>1. plan[1] \in LoadKind /\ Tail(plan) \in Seq(LoadKind)
    BY PlanTyped
  <1>2. LoadOK(Get(plan[1], r, FALSE, TRUE))
    BY <1>1, GetTyped
  <1> HIDE DEF plan
  <1>3. /\ job' = [kind |-> job.kind, room |-> r, who |-> job.who, pc |-> "done", todo |-> Tail(plan)]
        /\ gets' = gets \cup {Get(plan[1], r, FALSE, TRUE)}
        /\ loading' = (loading \/ plan[1] = "messages")
    BY DEF ReloadRoom, plan
  <1>4. LoadsOK'
    BY <1>2, <1>3 DEF LoadsOK, LoadOK
  <1>5. JobOK'
    BY <1>1, <1>3 DEF JobOK, FormType
  <1>6. QED
    BY <1>3, <1>4, <1>5

LEMMA ChooseTyped ==
  ASSUME ViewOK, NEW r \in Room \cup {Nowhere}, NEW others, \A g \in others : LoadOK(g),
         Choose(r, others)
  PROVE  /\ LoadsOK'
         /\ chosen' \in Room \cup {Nowhere}
         /\ people'.room \in Room \cup {Nowhere} /\ shown'.room \in Room \cup {Nowhere}
         /\ shown'.count \in 0 .. Limit /\ loading' \in BOOLEAN /\ missed' \in BOOLEAN
  <1>1. /\ r \in Room => LoadOK(Get("details", r, FALSE, FALSE))
        /\ r \in Room => LoadOK(Get("messages", r, FALSE, FALSE))
    BY GetTyped DEF LoadKind
  <1>2. CASE r = chosen
    BY <1>2 DEF Choose, ViewOK, LoadsOK, LoadOK
  <1>3. CASE r # chosen /\ r = Nowhere
    BY <1>3 DEF Choose, ViewOK, LoadsOK, LoadOK, NoPeople
  <1>4. CASE r # chosen /\ r # Nowhere
    BY <1>1, <1>4 DEF Choose, ViewOK, LoadsOK, LoadOK
  <1>5. QED
    BY <1>2, <1>3, <1>4

\* What a handler goes on with.
LEMMA NextTyped ==
  ASSUME LoadsOK, JobOK, NEW g \in gets,
         gets' = (gets \ {g}) \cup MoreLoads(g), job' = NextLoad(g)
  PROVE  LoadsOK' /\ JobOK'
  <1>1. CASE ~g.mine
    BY <1>1 DEF MoreLoads, NextLoad, LoadsOK, LoadOK, JobOK
  <1>2. CASE g.mine /\ job.todo = <<>>
    BY <1>2 DEF MoreLoads, LoadsOf, NextLoad, NoJob, LoadsOK, LoadOK, JobOK, FormType
  <1>3. CASE g.mine /\ job.todo # <<>>
    <2>1. job.todo[1] \in LoadKind /\ Tail(job.todo) \in Seq(LoadKind) /\ job.room \in Room
      BY <1>3 DEF JobOK, FormType
    <2>2. LoadOK(Get(job.todo[1], job.room, FALSE, TRUE))
      BY <2>1, GetTyped
    <2>3. gets' = (gets \ {g}) \cup {Get(job.todo[1], job.room, FALSE, TRUE)}
      BY <1>3 DEF MoreLoads, LoadsOf
    <2>4. LoadsOK'
      BY <2>2, <2>3 DEF LoadsOK, LoadOK
    <2>5. job' = [job EXCEPT !.todo = Tail(@)]
      BY <1>3 DEF NextLoad
    <2>6. JobOK'
      BY <2>1, <2>5 DEF JobOK, FormType
    <2>7. QED
      BY <2>4, <2>6
  <1>4. QED
    BY <1>1, <1>2, <1>3

LEMMA InitTyped == ChatInit => Typed
  <1> SUFFICES ASSUME ChatInit PROVE Typed
    OBVIOUS
  <1> USE DEF ChatInit
  <1>1. ServiceOK
    <2>1. roster \in [Room -> SUBSET Person]
      OBVIOUS
    <2>2. founder \in [Room -> Person]
      OBVIOUS
    <2>3. QED
      BY <2>1, <2>2 DEF ServiceOK
  <1>2. ViewOK
    <2>1. 0 \in 0 .. Limit
      BY Bounds
    <2>2. loading \in BOOLEAN /\ missed \in BOOLEAN
      BY Zenon
    <2>3. QED
      BY <2>1, <2>2 DEF ViewOK, NoPeople
  <1>3. LoadsOK
    <2>1. LoadOK(Get("rooms", Nowhere, TRUE, FALSE))
      BY GetTyped DEF LoadKind
    <2>2. QED
      BY <2>1 DEF LoadsOK
  <1>4. JobOK
    BY DEF JobOK, FormType, NoJob
  <1>5. QED
    BY <1>1, <1>2, <1>3, <1>4 DEF Typed

-----------------------------------------------------------------------------
(* The types, one lemma per action.                                        *)

LEMMA QuietTyped ==
  ASSUME Typed, UNCHANGED <<roster, founder, log, checked, chatView, gets, job>>
  PROVE  Typed'
  BY DEF Typed, ServiceOK, ViewOK, LoadsOK, LoadOK, JobOK, chatView

LEMMA OthersTyped ==
  ASSUME Typed, OthersCreate \/ OthersAdd \/ OthersRemove \/ OthersCheck \/ OthersWrite
  PROVE  Typed'
  <1>0. UNCHANGED <<chatView, gets, job>>
    BY DEF OthersCreate, OthersAdd, OthersRemove, OthersCheck, OthersWrite
  <1>1. CASE OthersCreate
    <2>1. PICK r \in Room, u \in Person \ {Self}, v \in Person : CreateRoom(r, u, v)
      BY <1>1 DEF OthersCreate
    <2>2. UNCHANGED <<log, checked>>
      BY <1>1 DEF OthersCreate
    <2>3. ServiceOK'
      BY <2>1, <2>2, CreateTyped DEF Typed, ServiceOK
    <2>4. QED
      BY <1>0, <2>3 DEF Typed, ViewOK, LoadsOK, LoadOK, JobOK, chatView
  <1>2. CASE OthersAdd
    <2>1. PICK r \in Room, u \in Person \ {Self}, v \in Person : AddMember(r, u, v)
      BY <1>2 DEF OthersAdd
    <2>2. UNCHANGED <<founder, log, checked>>
      BY <1>2 DEF OthersAdd
    <2>3. ServiceOK'
      BY <2>1, <2>2, AddTyped DEF Typed, ServiceOK
    <2>4. QED
      BY <1>0, <2>3 DEF Typed, ViewOK, LoadsOK, LoadOK, JobOK, chatView
  <1>3. CASE OthersRemove
    <2>1. PICK r \in Room, u \in Person \ {Self}, v \in Person : RemoveMember(r, u, v)
      BY <1>3 DEF OthersRemove
    <2>2. UNCHANGED <<founder, log, checked>>
      BY <1>3 DEF OthersRemove
    <2>3. ServiceOK'
      BY <2>1, <2>2, RemoveTyped DEF Typed, ServiceOK
    <2>4. QED
      BY <1>0, <2>3 DEF Typed, ViewOK, LoadsOK, LoadOK, JobOK, chatView
  <1>4. CASE OthersCheck
    <2>1. PICK r \in Room, u \in Person \ {Self} :
             checked' = checked \cup {[room |-> r, by |-> u]}
      BY <1>4 DEF OthersCheck
    <2>2. UNCHANGED <<roster, founder, log>>
      BY <1>4 DEF OthersCheck
    <2>3. ServiceOK'
      BY <2>1, <2>2 DEF Typed, ServiceOK
    <2>4. QED
      BY <1>0, <2>3 DEF Typed, ViewOK, LoadsOK, LoadOK, JobOK, chatView
  <1>5. CASE OthersWrite
    <2>1. PICK c \in checked : WriteMessage(c.room, c.by) /\ checked' = checked \ {c}
      BY <1>5 DEF OthersWrite
    <2>2. UNCHANGED <<roster, founder>>
      BY <1>5 DEF OthersWrite
    <2>3. c.room \in Room /\ c.by \in Person
      BY DEF Typed, ServiceOK
    <2>4. ServiceOK'
      BY <2>1, <2>2, <2>3, WriteTyped DEF Typed, ServiceOK
    <2>5. QED
      BY <1>0, <2>4 DEF Typed, ViewOK, LoadsOK, LoadOK, JobOK, chatView
  <1>6. QED
    BY <1>1, <1>2, <1>3, <1>4, <1>5

LEMMA ServeTyped == ASSUME Typed, ServeGet \/ LoseGet PROVE Typed'
  <1>0. UNCHANGED <<chatService, chatView, job>>
    BY DEF ServeGet, LoseGet
  <1>1. CASE ServeGet
    <2>1. PICK g \in gets :
            /\ g.what = "messages"
            /\ gets' = (gets \ {g}) \cup
                 {IF Self \in roster[g.room]
                  THEN [Answered(g, "ok") EXCEPT !.count = LeastOf(log[g.room], Limit)]
                  ELSE Answered(g, "error")}
      BY <1>1 DEF ServeGet
    <2>2. LoadOK(g) /\ g.room \in Room
      BY <2>1 DEF Typed, LoadsOK, LoadOK
    <2>3. LoadOK(Answered(g, "ok")) /\ LoadOK(Answered(g, "error"))
      BY <2>2, AnsweredTyped
    <2>4. LeastOf(log[g.room], Limit) \in 0 .. Limit
      BY <2>2, LeastTyped DEF Typed, ServiceOK
    <2>5. LoadOK([Answered(g, "ok") EXCEPT !.count = LeastOf(log[g.room], Limit)])
      BY <2>3, <2>4 DEF LoadOK, LoadType
    <2>6. LoadsOK'
      BY <2>1, <2>3, <2>5 DEF Typed, LoadsOK, LoadOK
    <2>7. QED
      BY <1>0, <2>6 DEF Typed, ServiceOK, ViewOK, JobOK, chatView, chatService
  <1>2. CASE LoseGet
    <2>1. PICK g \in gets : gets' = (gets \ {g}) \cup {Answered(g, "error")}
      BY <1>2 DEF LoseGet
    <2>2. LoadOK(Answered(g, "error"))
      BY AnsweredTyped DEF Typed, LoadsOK
    <2>3. LoadsOK'
      BY <2>1, <2>2 DEF Typed, LoadsOK, LoadOK
    <2>4. QED
      BY <1>0, <2>3 DEF Typed, ServiceOK, ViewOK, JobOK, chatView, chatService
  <1>3. QED
    BY <1>1, <1>2

LEMMA SelectTyped == ASSUME Typed, SelectRoom PROVE Typed'
  <1>1. PICK r \in listed \ {chosen} : Choose(r, gets)
    BY DEF SelectRoom
  <1>2. UNCHANGED <<chatService, listed, job>>
    BY DEF SelectRoom
  <1>3. r \in Room \cup {Nowhere}
    BY DEF Typed, ViewOK
  <1>4. LoadsOK' /\ ViewOK'
    BY <1>1, <1>2, <1>3, ChooseTyped DEF Typed, LoadsOK, ViewOK
  <1>5. QED
    BY <1>2, <1>4 DEF Typed, ServiceOK, JobOK, chatService

LEMMA PollTyped == ASSUME Typed, Poll PROVE Typed'
  <1>1. chosen \in Room
    BY DEF Poll, Typed, ViewOK
  <1>2. LoadOK(Get("messages", chosen, TRUE, FALSE)) /\ LoadOK(Get("rooms", Nowhere, TRUE, FALSE))
    BY <1>1, GetTyped DEF LoadKind
  <1>3. LoadsOK'
    BY <1>2 DEF Poll, Polled, Typed, LoadsOK, LoadOK
  <1>4. QED
    BY <1>3 DEF Poll, Typed, ServiceOK, ViewOK, JobOK, chatView, chatService

LEMMA RoomsTyped == ASSUME Typed, ReceiveRooms PROVE Typed'
  <1> DEFINE mine == {r \in Room : Self \in roster[r]}
  <1>1. PICK g \in gets :
          /\ listed' = IF g.pc = "error" THEN listed ELSE mine
          /\ IF g.mine /\ job.kind = "create" THEN Choose(job.room, gets \ {g})
             ELSE IF g.pc = "error" \/ chosen \in mine THEN Choose(chosen, gets \ {g})
             ELSE IF mine = {} THEN Choose(Nowhere, gets \ {g})
             ELSE \E r \in mine : Choose(r, gets \ {g})
          /\ job' = IF g.mine THEN NoJob ELSE job
    BY DEF ReceiveRooms
  <1>2. mine \subseteq Room
    OBVIOUS
  <1> HIDE DEF mine
  <1>3. job.room \in Room \cup {Nowhere} /\ chosen \in Room \cup {Nowhere}
    BY DEF Typed, JobOK, ViewOK, FormType
  <1>4. PICK r \in Room \cup {Nowhere} : Choose(r, gets \ {g})
    BY <1>1, <1>2, <1>3
  <1>5. /\ LoadsOK'
        /\ chosen' \in Room \cup {Nowhere}
        /\ people'.room \in Room \cup {Nowhere} /\ shown'.room \in Room \cup {Nowhere}
        /\ shown'.count \in 0 .. Limit /\ loading' \in BOOLEAN /\ missed' \in BOOLEAN
    BY <1>4, ChooseTyped DEF Typed, LoadsOK
  <1>6. ViewOK'
    BY <1>1, <1>2, <1>5 DEF Typed, ViewOK
  <1>7. JobOK'
    BY <1>1 DEF Typed, JobOK, FormType, NoJob
  <1>8. QED
    BY <1>5, <1>6, <1>7 DEF ReceiveRooms, Typed, ServiceOK, chatService

LEMMA DetailsTyped == ASSUME Typed, ReceiveDetails PROVE Typed'
  <1>1. PICK g \in gets :
          /\ g.what = "details"
          /\ people' = IF ~Counts(g) THEN people
                       ELSE IF g.pc = "error" \/ Self \notin roster[g.room] THEN NoPeople
                       ELSE [room |-> g.room, who |-> roster[g.room]]
          /\ gets' = (gets \ {g}) \cup MoreLoads(g)
          /\ job' = NextLoad(g)
          /\ loading' = (loading \/ (g.mine /\ StartsMessages(job)))
    BY DEF ReceiveDetails
  <1>2. UNCHANGED <<chatService, listed, chosen, shown, missed>>
    BY DEF ReceiveDetails
  <1>3. LoadsOK' /\ JobOK'
    BY <1>1, NextTyped DEF Typed
  <1>4. people'.room \in Room \cup {Nowhere}
    BY <1>1 DEF Typed, LoadsOK, LoadOK, LoadType, ViewOK, NoPeople
  <1>5. loading' \in BOOLEAN
    BY <1>1
  <1>6. ViewOK'
    BY <1>2, <1>4, <1>5 DEF Typed, ViewOK
  <1>7. QED
    BY <1>2, <1>3, <1>6 DEF Typed, ServiceOK, chatService

LEMMA MessagesTyped == ASSUME Typed, ReceiveMessages PROVE Typed'
  <1>1. PICK g \in gets :
          /\ shown' = IF Counts(g) /\ g.pc = "ok" THEN [room |-> g.room, count |-> g.count] ELSE shown
          /\ missed' = IF Counts(g) THEN g.pc = "error" ELSE missed
          /\ loading' = IF ~g.silent /\ chosen = g.room THEN FALSE ELSE loading
          /\ gets' = (gets \ {g}) \cup MoreLoads(g)
          /\ job' = NextLoad(g)
    BY DEF ReceiveMessages
  <1>2. UNCHANGED <<chatService, listed, chosen, people>>
    BY DEF ReceiveMessages
  <1>3. LoadsOK' /\ JobOK'
    BY <1>1, NextTyped DEF Typed
  <1>4. shown'.room \in Room \cup {Nowhere} /\ shown'.count \in 0 .. Limit
    BY <1>1 DEF Typed, LoadsOK, LoadOK, LoadType, ViewOK
  <1>5. loading' \in BOOLEAN /\ missed' \in BOOLEAN
    BY <1>1 DEF Typed, ViewOK
  <1>6. ViewOK'
    BY <1>2, <1>4, <1>5 DEF Typed, ViewOK
  <1>7. QED
    BY <1>2, <1>3, <1>6 DEF Typed, ServiceOK, chatService

LEMMA SubmitTyped == ASSUME Typed, Submit PROVE Typed'
  <1>1. PICK kind \in {"create", "send", "add", "remove"}, u \in Person \ {Self} :
          /\ kind = "create" \/ chosen # Nowhere
          /\ job' = [kind |-> kind, room |-> chosen, who |-> u, pc |-> "sent", todo |-> <<>>]
    BY DEF Submit
  <1>2. JobOK'
    BY <1>1 DEF Typed, ViewOK, JobOK, FormType
  <1>3. QED
    BY <1>2 DEF Submit, Typed, ServiceOK, ViewOK, LoadsOK, LoadOK, chatView, chatService

LEMMA CheckTyped == ASSUME Typed, SendIsChecked PROVE Typed'
  <1>1. JobOK'
    BY DEF SendIsChecked, Typed, JobOK, FormType
  <1>2. QED
    BY <1>1 DEF SendIsChecked, Typed, ServiceOK, ViewOK, LoadsOK, LoadOK, chatView, chatService

\* A form that the service accepts, and then reloads.
LEMMA JobTyped ==
  ASSUME Typed, JobCreates \/ JobSends \/ JobAdds \/ JobRemoves
  PROVE  Typed'
  <1>1. UNCHANGED <<checked, listed, chosen, people, shown, missed>>
    BY DEF JobCreates, JobSends, JobAdds, JobRemoves
  <1>2. job.who \in Person /\ Self \in Person
    BY DEF Typed, JobOK, FormType
  <1>3. job.kind \in {"send", "add", "remove"} => job.room \in Room
    BY DEF Typed, JobOK
  <1>4. ServiceOK' /\ \E r \in Room : ReloadRoom(r)
    <2>1. CASE JobCreates
      <3>1. PICK r \in Room : CreateRoom(r, Self, job.who) /\ ReloadRoom(r)
        BY <2>1 DEF JobCreates
      <3>2. QED
        BY <2>1, <3>1, <1>2, CreateTyped DEF JobCreates, Typed, ServiceOK
    <2>2. CASE JobSends
      BY <2>2, <1>2, <1>3, WriteTyped DEF JobSends, Typed, ServiceOK
    <2>3. CASE JobAdds
      BY <2>3, <1>2, <1>3, AddTyped DEF JobAdds, Typed, ServiceOK
    <2>4. CASE JobRemoves
      BY <2>4, <1>2, <1>3, RemoveTyped DEF JobRemoves, Typed, ServiceOK
    <2>5. QED
      BY <2>1, <2>2, <2>3, <2>4
  <1>5. LoadsOK' /\ JobOK' /\ loading' \in BOOLEAN
    BY <1>4, ReloadTyped DEF Typed, ViewOK
  <1>6. ViewOK'
    BY <1>1, <1>5 DEF Typed, ViewOK
  <1>7. QED
    BY <1>4, <1>5, <1>6 DEF Typed

LEMMA FailTyped == ASSUME Typed, JobFails \/ JobFailsLate PROVE Typed'
  <1>1. job' = NoJob /\ UNCHANGED <<checked, chatView, gets>>
    BY DEF JobFails, JobFailsLate, chatService
  <1>2. job.who \in Person /\ Self \in Person
    BY DEF Typed, JobOK, FormType
  <1>3. job.kind \in {"send", "add", "remove"} => job.room \in Room
    BY DEF Typed, JobOK
  <1>4. JobOK'
    BY <1>1 DEF NoJob, JobOK, FormType
  <1>5. ServiceOK'
    <2>1. CASE JobFails
      BY <2>1 DEF JobFails, Typed, ServiceOK, chatService
    <2>2. CASE job.kind = "send" /\ WriteMessage(job.room, Self) /\ UNCHANGED <<roster, founder>>
      BY <2>2, <1>1, <1>2, <1>3, WriteTyped DEF Typed, ServiceOK
    <2>3. CASE (\E r \in Room : CreateRoom(r, Self, job.who)) /\ UNCHANGED <<log, late>>
      BY <2>3, <1>1, <1>2, CreateTyped DEF Typed, ServiceOK
    <2>4. CASE job.kind = "add" /\ AddMember(job.room, Self, job.who) /\ UNCHANGED <<founder, log>>
      BY <2>4, <1>1, <1>2, <1>3, AddTyped DEF Typed, ServiceOK
    <2>5. CASE /\ job.kind = "remove" /\ RemoveMember(job.room, Self, job.who)
               /\ UNCHANGED <<founder, log>>
      BY <2>5, <1>1, <1>2, <1>3, RemoveTyped DEF Typed, ServiceOK
    <2>6. QED
      BY <2>1, <2>2, <2>3, <2>4, <2>5 DEF JobFailsLate
  <1>6. QED
    BY <1>1, <1>4, <1>5 DEF Typed, ViewOK, LoadsOK, LoadOK, chatView

LEMMA NextTypes == ASSUME Typed, [ChatNext]_chatVars PROVE Typed'
  <1>1. CASE UNCHANGED chatVars
    BY <1>1, QuietTyped DEF chatVars, chatService
  <1>2. QED
    BY <1>1, OthersTyped, ServeTyped, SelectTyped, PollTyped, RoomsTyped, DetailsTyped,
       MessagesTyped, SubmitTyped, CheckTyped, JobTyped, FailTyped DEF ChatNext

\* Whatever is loaded or submitted is of a room where it needs one, and the page shows
\* rooms that there are.
THEOREM ChatTypes == ChatSpec => [](ChatTypeOK /\ FormInv)
  <1>1. ChatSpec => []Typed
    BY InitTyped, NextTypes, PTL DEF ChatSpec
  <1>2. Typed => ChatTypeOK /\ FormInv
    BY TypedIs
  <1>3. QED
    BY <1>1, <1>2, PTL

-----------------------------------------------------------------------------
(* The messages on the page.                                               *)

LEMMA ChooseShows ==
  ASSUME ShownAreOfTheRoom, NEW r, NEW others, Choose(r, others)
  PROVE  ShownAreOfTheRoom'
  BY DEF Choose, ShownAreOfTheRoom

LEMMA NextShows ==
  ASSUME Typed, ShownAreOfTheRoom, [ChatNext]_chatVars
  PROVE  ShownAreOfTheRoom'
  <1> USE DEF ShownAreOfTheRoom
  <1>1. CASE UNCHANGED chatView
    BY <1>1 DEF chatView
  <1>2. CASE SelectRoom
    BY <1>2, ChooseShows DEF SelectRoom
  <1>3. CASE ReceiveRooms
    <2>1. \E r, others : Choose(r, others)
      BY <1>3 DEF ReceiveRooms
    <2>2. QED
      BY <2>1, ChooseShows
  <1>4. CASE ReceiveDetails
    <2>1. UNCHANGED <<chosen, shown, missed>> /\ (loading => loading')
      BY <1>4 DEF ReceiveDetails
    <2>2. QED
      BY <2>1
  <1>5. CASE ReceiveMessages
    <2>1. PICK g \in gets :
            /\ g.pc \in {"ok", "error"}
            /\ shown' = IF Counts(g) /\ g.pc = "ok" THEN [room |-> g.room, count |-> g.count] ELSE shown
            /\ missed' = IF Counts(g) THEN g.pc = "error" ELSE missed
            /\ loading' = IF ~g.silent /\ chosen = g.room THEN FALSE ELSE loading
      BY <1>5 DEF ReceiveMessages
    <2>2. UNCHANGED chosen
      BY <1>5 DEF ReceiveMessages
    <2>3. CASE chosen = g.room
      BY <2>1, <2>2, <2>3 DEF Counts
    <2>4. CASE chosen # g.room
      BY <2>1, <2>2, <2>4 DEF Counts
    <2>5. QED
      BY <2>3, <2>4
  <1>6. CASE JobCreates \/ JobSends \/ JobAdds \/ JobRemoves
    <2>1. UNCHANGED <<chosen, shown, missed>>
      BY <1>6 DEF JobCreates, JobSends, JobAdds, JobRemoves
    <2>2. \E r : ReloadRoom(r)
      BY <1>6 DEF JobCreates, JobSends, JobAdds, JobRemoves
    <2>3. loading => loading'
      BY <2>2 DEF ReloadRoom
    <2>4. QED
      BY <2>1, <2>3
  <1>7. UNCHANGED chatView \/ SelectRoom \/ ReceiveRooms \/ ReceiveDetails \/ ReceiveMessages
        \/ JobCreates \/ JobSends \/ JobAdds \/ JobRemoves
    BY DEF ChatNext, chatVars, OthersCreate, OthersAdd, OthersRemove, OthersCheck, OthersWrite,
           ServeGet, LoseGet, Poll, Submit, SendIsChecked, JobFails, JobFailsLate
  <1>8. QED
    BY <1>1, <1>2, <1>3, <1>4, <1>5, <1>6, <1>7

\* The messages under the title of a room are of that room, whatever the user selects
\* and whatever answers are late or lost, unless the load of the room has failed.
THEOREM ChatShowsItsRoom == ChatSpec => []ShownAreOfTheRoom
  <1>1. ChatInit => ShownAreOfTheRoom
    BY DEF ChatInit, ShownAreOfTheRoom
  <1>2. ChatSpec => []Typed
    BY InitTyped, NextTypes, PTL DEF ChatSpec
  <1>3. QED
    BY <1>1, <1>2, NextShows, PTL DEF ChatSpec

-----------------------------------------------------------------------------
(* Who writes after they were removed.                                     *)

LEMMA InitLate == ChatInit => LateInv
  <1> SUFFICES ASSUME ChatInit PROVE LateInv
    OBVIOUS
  <1> USE DEF ChatInit
  <1>1. late \in [Room -> [Person -> 0 .. 1]]
    OBVIOUS
  <1>2. \A r \in Room : roster[r] # {} => founder[r] \in roster[r]
    OBVIOUS
  <1>3. \A r \in Room, u \in Person : late[r][u] = 0 /\ ~Underway(r, u)
    BY DEF Underway, NoJob
  <1>4. QED
    BY <1>1, <1>2, <1>3 DEF LateInv

\* What a step may do to a room and a person: members are added without history, and
\* those who are under way were under way, or are members now.
LEMMA LateFrame ==
  ASSUME LateInv,
         \A r \in Room : roster'[r] = {} => roster[r] = {},
         \A r \in Room : roster'[r] # {} => founder'[r] \in roster'[r],
         \A r \in Room, u \in Person : late'[r][u] = late[r][u] \/ late'[r][u] = 0,
         late' \in [Room -> [Person -> 0 .. 1]],
         \A r \in Room, u \in Person : u \in roster'[r] =>
            u \in roster[r] \/ roster[r] = {} \/ late'[r][u] = 0,
         \A r \in Room, u \in Person : Underway(r, u)' => Underway(r, u) \/ u \in roster[r],
         \A c \in checked' : c.by # Self /\ \A d \in checked' : c.by = d.by => c = d
  PROVE  LateInv'
  <1>1. ASSUME NEW r \in Room, NEW u \in Person,
               u \in roster'[r] \/ roster'[r] = {} \/ Underway(r, u)'
        PROVE  late'[r][u] = 0
    BY <1>1 DEF LateInv
  <1>2. ASSUME NEW r \in Room, NEW u \in Person, Underway(r, u)'
        PROVE  roster'[r] # {}
    BY <1>2 DEF LateInv
  <1>3. QED
    BY <1>1, <1>2 DEF LateInv

\* The insert of a message that is under way: none was written since the removal.
LEMMA LateWrite ==
  ASSUME LateInv, NEW q \in Room, NEW p \in Person, WriteMessage(q, p),
         Underway(q, p), ~Underway(q, p)', UNCHANGED <<roster, founder>>,
         checked' \subseteq checked,
         \A r \in Room, u \in Person : Underway(r, u)' => Underway(r, u)
  PROVE  LateInv'
  <1>1. late[q][p] = 0 /\ roster[q] # {}
    BY DEF LateInv
  <1>2. late' = [late EXCEPT ![q][p] = IF p \in roster[q] THEN 0 ELSE @ + 1]
    BY DEF WriteMessage
  <1>3. /\ late' \in [Room -> [Person -> 0 .. 1]]
        /\ \A r \in Room, u \in Person : r # q \/ u # p => late'[r][u] = late[r][u]
        /\ p \in roster[q] => late'[q][p] = 0
    BY <1>1, <1>2 DEF LateInv
  <1>4. ASSUME NEW r \in Room, NEW u \in Person,
               u \in roster'[r] \/ roster'[r] = {} \/ Underway(r, u)'
        PROVE  late'[r][u] = 0
    <2>1. CASE r = q /\ u = p
      BY <2>1, <1>1, <1>3, <1>4
    <2>2. CASE r # q \/ u # p
      <3>1. late[r][u] = 0
        BY <1>4 DEF LateInv
      <3>2. QED
        BY <2>2, <3>1, <1>3
    <2>3. QED
      BY <2>1, <2>2
  <1>5. ASSUME NEW r \in Room, NEW u \in Person, Underway(r, u)'
        PROVE  roster'[r] # {}
    BY <1>5 DEF LateInv
  <1>6. QED
    BY <1>3, <1>4, <1>5 DEF LateInv

\* Steps that leave the members and the messages alone.
LEMMA LateQuiet ==
  ASSUME LateInv, UNCHANGED <<roster, founder, late, checked>>,
         job'.pc = "checked" => job.pc = "checked" /\ job'.room = job.room
  PROVE  LateInv'
  <1>1. \A r \in Room, u \in Person : Underway(r, u)' => Underway(r, u)
    BY DEF Underway
  <1>2. QED
    BY <1>1 DEF LateInv

LEMMA CreateLate ==
  ASSUME Typed, LateInv, NEW r \in Room, NEW u \in Person, NEW v \in Person,
         CreateRoom(r, u, v), UNCHANGED <<late, checked>>,
         \A q \in Room, p \in Person : Underway(q, p)' => Underway(q, p)
  PROVE  LateInv'
  <1>1. /\ roster[r] = {}
        /\ \A q \in Room : roster'[q] = IF q = r THEN {u, v} ELSE roster[q]
        /\ \A q \in Room : founder'[q] = IF q = r THEN u ELSE founder[q]
    BY DEF CreateRoom, Created, Typed, ServiceOK
  <1>2. \A q \in Room : roster'[q] = {} => roster[q] = {}
    BY <1>1
  <1>3. \A q \in Room : roster'[q] # {} => founder'[q] \in roster'[q]
    BY <1>1 DEF LateInv
  <1>4. \A q \in Room, p \in Person : p \in roster'[q] => p \in roster[q] \/ roster[q] = {}
    BY <1>1
  <1>5. QED
    BY <1>2, <1>3, <1>4, LateFrame DEF LateInv

LEMMA AddLate ==
  ASSUME Typed, LateInv, NEW r \in Room, NEW u \in Person, NEW v \in Person,
         AddMember(r, u, v), UNCHANGED <<founder, checked>>,
         \A q \in Room, p \in Person : Underway(q, p)' => Underway(q, p)
  PROVE  LateInv'
  <1>1. /\ u \in roster[r]
        /\ \A q \in Room : roster'[q] = IF q = r THEN roster[q] \cup {v} ELSE roster[q]
    BY DEF AddMember, MayAdd, Typed, ServiceOK
  <1>2. late' = [late EXCEPT ![r][v] = 0]
    BY DEF AddMember
  <1>3. /\ late' \in [Room -> [Person -> 0 .. 1]]
        /\ \A q \in Room, p \in Person : late'[q][p] = late[q][p] \/ late'[q][p] = 0
        /\ late'[r][v] = 0
    BY <1>2 DEF LateInv
  <1>4. \A q \in Room : roster'[q] # {} => founder'[q] \in roster'[q]
    BY <1>1 DEF LateInv
  <1>5. \A q \in Room, p \in Person :
           p \in roster'[q] => p \in roster[q] \/ roster[q] = {} \/ late'[q][p] = 0
    BY <1>1, <1>3, ZenonT(40)
  <1>6. \A q \in Room : roster'[q] = {} => roster[q] = {}
    BY <1>1
  <1>7. QED
    BY <1>3, <1>4, <1>5, <1>6, LateFrame DEF LateInv

\* A founder cannot be removed: the room keeps a member.
LEMMA RemoveLate ==
  ASSUME Typed, LateInv, NEW r \in Room, NEW u \in Person, NEW v \in Person,
         RemoveMember(r, u, v), UNCHANGED <<founder, late, checked>>,
         \A q \in Room, p \in Person : Underway(q, p)' => Underway(q, p)
  PROVE  LateInv'
  <1>1. /\ founder[r] = u /\ v # u /\ v \in roster[r]
        /\ \A q \in Room : roster'[q] = IF q = r THEN roster[q] \ {v} ELSE roster[q]
    BY DEF RemoveMember, MayRemove, Typed, ServiceOK
  <1>2. founder[r] \in roster'[r]
    BY <1>1 DEF LateInv
  <1>3. \A q \in Room : roster'[q] = {} => roster[q] = {}
    BY <1>1, <1>2
  <1>4. \A q \in Room : roster'[q] # {} => founder'[q] \in roster'[q]
    BY <1>1, <1>2 DEF LateInv
  <1>5. \A q \in Room, p \in Person : p \in roster'[q] => p \in roster[q]
    BY <1>1
  <1>6. QED
    BY <1>3, <1>4, <1>5, LateFrame DEF LateInv

LEMMA OthersLate ==
  ASSUME Typed, LateInv,
         OthersCreate \/ OthersAdd \/ OthersRemove \/ OthersCheck \/ OthersWrite
  PROVE  LateInv'
  <1>1. UNCHANGED job
    BY DEF OthersCreate, OthersAdd, OthersRemove, OthersCheck, OthersWrite
  <1>2. checked' \subseteq checked => \A r \in Room, u \in Person : Underway(r, u)' => Underway(r, u)
    BY <1>1 DEF Underway
  <1>3. CASE OthersCreate
    BY <1>2, <1>3, CreateLate DEF OthersCreate
  <1>4. CASE OthersAdd
    BY <1>2, <1>4, AddLate DEF OthersAdd
  <1>5. CASE OthersRemove
    BY <1>2, <1>5, RemoveLate DEF OthersRemove
  <1>6. CASE OthersCheck
    <2>1. PICK q \in Room, p \in Person \ {Self} :
             /\ p \in roster[q] /\ \A c \in checked : c.by # p
             /\ checked' = checked \cup {[room |-> q, by |-> p]}
      BY <1>6 DEF OthersCheck, MaySend
    <2>2. UNCHANGED <<roster, founder, late>>
      BY <1>6 DEF OthersCheck
    <2>3. \A r \in Room, u \in Person : Underway(r, u)' => Underway(r, u) \/ u \in roster[r]
      BY <1>1, <2>1 DEF Underway
    <2>4. \A c \in checked' : c.by # Self /\ \A d \in checked' : c.by = d.by => c = d
      BY <2>1 DEF LateInv
    <2>5. QED
      BY <2>2, <2>3, <2>4, LateFrame DEF LateInv
  <1>7. CASE OthersWrite
    <2>1. PICK c \in checked : WriteMessage(c.room, c.by) /\ checked' = checked \ {c}
      BY <1>7 DEF OthersWrite
    <2>2. c \in [room : Room, by : Person] /\ c.by # Self
      BY DEF Typed, ServiceOK, LateInv
    <2>3. c = [room |-> c.room, by |-> c.by]
      BY <2>2
    <2>4. Underway(c.room, c.by) /\ ~(Underway(c.room, c.by)')
      BY <1>1, <2>1, <2>2, <2>3 DEF Underway
    <2>5. QED
      BY <1>2, <1>7, <2>1, <2>2, <2>4, LateWrite DEF OthersWrite
  <1>8. QED
    BY <1>3, <1>4, <1>5, <1>6, <1>7

\* The form of the user: a message of theirs is under way while it is checked.
LEMMA JobLate ==
  ASSUME Typed, LateInv,
         JobCreates \/ JobSends \/ JobAdds \/ JobRemoves \/ JobFails \/ JobFailsLate
  PROVE  LateInv'
  <1>1. UNCHANGED checked /\ job'.pc # "checked"
    <2>1. UNCHANGED checked /\ (job' = NoJob \/ \E r : ReloadRoom(r))
      BY DEF JobCreates, JobSends, JobAdds, JobRemoves, JobFails, JobFailsLate, chatService
    <2>2. ASSUME NEW r, ReloadRoom(r) PROVE job'.pc # "checked"
      <3>1. job'.pc = "done"
        BY <2>2 DEF ReloadRoom
      <3>2. QED
        BY <3>1
    <2>3. QED
      BY <2>1, <2>2 DEF NoJob
  <1>2. \A r \in Room, u \in Person :
           /\ Underway(r, u)' => Underway(r, u)
           /\ Underway(r, u)' => [room |-> r, by |-> u] \in checked
    BY <1>1 DEF Underway
  <1>3. job.who \in Person /\ Self \in Person
    BY DEF Typed, JobOK, FormType
  <1>4. job.kind \in {"send", "add", "remove"} => job.room \in Room
    BY DEF Typed, JobOK
  <1>5. ASSUME NEW r \in Room, CreateRoom(r, Self, job.who), UNCHANGED late
        PROVE  LateInv'
    BY <1>1, <1>2, <1>3, <1>5, CreateLate
  <1>6. ASSUME job.kind = "add", AddMember(job.room, Self, job.who), UNCHANGED founder
        PROVE  LateInv'
    BY <1>1, <1>2, <1>3, <1>4, <1>6, AddLate
  <1>7. ASSUME job.kind = "remove", RemoveMember(job.room, Self, job.who), UNCHANGED <<founder, late>>
        PROVE  LateInv'
    BY <1>1, <1>2, <1>3, <1>4, <1>7, RemoveLate
  <1>8. ASSUME job.kind = "send", job.pc = "checked", WriteMessage(job.room, Self),
               UNCHANGED <<roster, founder>>
        PROVE  LateInv'
    <2>1. job.room \in Room /\ Underway(job.room, Self)
      BY <1>4, <1>8 DEF Underway
    <2>2. [room |-> job.room, by |-> Self] \notin checked
      BY DEF LateInv
    <2>3. QED
      <3>1. PICK q \in Room : q = job.room
        BY <2>1
      <3>2. ~(Underway(q, Self)')
        BY <1>2, <1>3, <2>2, <3>1
      <3>3. QED
        BY <1>1, <1>2, <1>3, <1>8, <2>1, <3>1, <3>2, LateWrite
  <1>9. CASE JobFails
    BY <1>1, <1>9, LateQuiet DEF JobFails, chatService
  <1>10. QED
    BY <1>5, <1>6, <1>7, <1>8, <1>9 DEF JobCreates, JobSends, JobAdds, JobRemoves, JobFailsLate

LEMMA NextLate ==
  ASSUME Typed, LateInv, [ChatNext]_chatVars
  PROVE  LateInv'
  <1>1. CASE UNCHANGED <<chatService, job>>
    BY <1>1, LateQuiet DEF chatService
  <1>2. CASE UNCHANGED chatService /\ (job' = NoJob \/ job' = [job EXCEPT !.todo = Tail(@)])
    <2>1. job'.pc = "checked" => job.pc = "checked" /\ job'.room = job.room
      BY <1>2 DEF NoJob, Typed, JobOK, FormType
    <2>2. QED
      BY <1>2, <2>1, LateQuiet DEF chatService
  <1>3. CASE Submit
    <2>1. job'.pc = "sent"
      BY <1>3 DEF Submit
    <2>2. QED
      BY <1>3, <2>1, LateQuiet DEF Submit, chatService
  <1>4. CASE SendIsChecked
    <2>1. /\ UNCHANGED chatService
          /\ Self \in roster[job.room]
          /\ job' = [job EXCEPT !.pc = "checked"]
      BY <1>4 DEF SendIsChecked, MaySend
    <2>2. job'.room = job.room
      BY <2>1 DEF Typed, JobOK, FormType
    <2>3. \A r \in Room, u \in Person : Underway(r, u)' => Underway(r, u) \/ u \in roster[r]
      BY <2>1, <2>2 DEF Underway, chatService
    <2>4. QED
      BY <2>1, <2>3, LateFrame DEF LateInv, chatService
  <1>5. CASE ReceiveDetails \/ ReceiveMessages \/ ReceiveRooms
    BY <1>1, <1>2, <1>5 DEF ReceiveDetails, ReceiveMessages, ReceiveRooms, NextLoad
  <1>6. CASE UNCHANGED chatVars \/ ServeGet \/ LoseGet \/ SelectRoom \/ Poll
    BY <1>1, <1>6 DEF chatVars, ServeGet, LoseGet, SelectRoom, Poll
  <1>7. QED
    BY <1>3, <1>4, <1>5, <1>6, OthersLate, JobLate DEF ChatNext

\* A person who was removed from a room writes one more message there at most, the one
\* that had been checked before, whoever adds, removes and writes at the same time.
THEOREM RemovalIsEffective == ChatSpec => []RemovalTakesEffect
  <1>1. ChatSpec => []Typed
    BY InitTyped, NextTypes, PTL DEF ChatSpec
  <1>2. LateInv => RemovalTakesEffect
    BY DEF LateInv, RemovalTakesEffect
  <1>3. QED
    BY <1>1, <1>2, InitLate, NextLate, PTL DEF ChatSpec

HIDE ChatAssumption

-----------------------------------------------------------------------------
(* The calls: the service knows nothing of a socket that is not open yet   *)
(* (SocketInv); a connection that has joined, the only one of its user, is in*)
(* the room (PresentInv); of two such, each has a tile for the other, or news*)
(* of it on its way, or a handler is still going to tell (SeenInv).        *)

PageState ==
    [at : {"home", "call", "ending", "left"}, ws : Conn \cup {NoConn},
     run : BOOLEAN, timer : BOOLEAN, queue : Seq(Word), tiles : SUBSET User, over : BOOLEAN]
Socket ==
    [client : {"free", "dialing", "open", "closing", "closed"},
     server : {"free", "open", "cut", "closed"}, opening : BOOLEAN]
Handler ==
    [at : {"read", "greet", "left", "drop", "gone", "closed"}, todo : SUBSET Conn, in : BOOLEAN]

\* What CallTypeOK says of the pages, of the sockets with their messages, and of the service.
PagesOK ==
    /\ page \in [Page -> PageState]
    /\ \A p \in Page : UserOf[p] \notin page[p].tiles
LinksOK ==
    /\ sock \in [Conn -> Socket] /\ up \in [Conn -> Seq(Word)]
    /\ down \in [Conn -> Seq(News)]
    /\ \A c \in Conn : Len(down[c]) <= Capacity
RoomOK ==
    /\ call \in {"live", "ended"} /\ lost \subseteq Conn
    /\ peer \in [Conn -> Handler] /\ members \in [User -> Conn \cup {NoConn}]
    /\ trouble \in 0 .. MaxTrouble

LEMMA CallTypeParts == CallTypeOK <=> PagesOK /\ LinksOK /\ RoomOK
  BY DEF CallTypeOK, PagesOK, LinksOK, RoomOK, PageState, Socket, Handler

LEMMA CallTypePartsNext == CallTypeOK' <=> PagesOK' /\ LinksOK' /\ RoomOK'
  BY DEF CallTypeOK, PagesOK, LinksOK, RoomOK, PageState, Socket, Handler

LEMMA PageOfConn == ASSUME NEW c \in Conn PROVE c[1] \in Page /\ Who(c) \in User
  BY CallAssumption DEF Conn, Who

\* A page that goes on with another socket, or closes for good, stays a page.
LEMMA UsingOK ==
  ASSUME NEW pg \in PageState, NEW c \in Conn \cup {NoConn}
  PROVE  /\ Using(pg, c) \in PageState
         /\ Using(pg, c).tiles = pg.tiles /\ Using(pg, c).at = pg.at
  BY DEF Using, PageState

LEMMA ShutOK ==
  ASSUME NEW pg \in PageState
  PROVE  /\ Shut(pg) \in PageState
         /\ Shut(pg).tiles = pg.tiles /\ Shut(pg).at = pg.at
  <1>1. Using(pg, NoConn) \in PageState /\ Using(pg, NoConn).tiles = pg.tiles
        /\ Using(pg, NoConn).at = pg.at
    BY UsingOK
  <1> DEFINE q == Using(pg, NoConn)
  <1> HIDE DEF q
  <1>2. [q EXCEPT !.run = FALSE] \in PageState /\ [q EXCEPT !.run = FALSE].tiles = q.tiles
        /\ [q EXCEPT !.run = FALSE].at = q.at
    BY <1>1 DEF PageState, q
  <1> QED
    BY <1>1, <1>2 DEF Shut, q

LEMMA OutOK ==
  /\ Out \in PageState /\ Out.tiles = {} /\ Out.at = "home"
  /\ Entered \in PageState /\ Entered.tiles = {} /\ Entered.at = "call"
  <1>1. Out \in PageState /\ Out.tiles = {} /\ Out.at = "home"
    BY DEF Out, PageState
  <1>2. [Out EXCEPT !.at = "call"] \in PageState /\ [Out EXCEPT !.at = "call"].tiles = {}
        /\ [Out EXCEPT !.at = "call"].at = "call"
    BY <1>1 DEF PageState
  <1> DEFINE q == [Out EXCEPT !.at = "call"]
  <1> HIDE DEF q
  <1>3. [q EXCEPT !.run = TRUE] \in PageState /\ [q EXCEPT !.run = TRUE].tiles = {}
        /\ [q EXCEPT !.run = TRUE].at = "call"
    BY <1>2 DEF PageState, q
  <1> QED
    BY <1>1, <1>3 DEF Entered, q

LEMMA ToldOK ==
  ASSUME NEW p \in Page, NEW pg \in PageState, UserOf[p] \notin pg.tiles, NEW m \in News
  PROVE  /\ Told(pg, p, m) \in PageState
         /\ UserOf[p] \notin Told(pg, p, m).tiles
         /\ Told(pg, p, m).at = "call" => pg.at = "call" /\ m.kind # "replaced"
         /\ m.kind = "left" => Told(pg, p, m).tiles = pg.tiles \ {m.who}
         /\ m.kind \in {"joined", "media"} => Told(pg, p, m).tiles = pg.tiles \cup ({m.who} \ {UserOf[p]})
         /\ m.kind \notin {"left", "joined", "media"} => Told(pg, p, m).tiles = pg.tiles
  <1>1. CASE m.kind = "left"
    BY <1>1 DEF Told, PageState
  <1>2. CASE m.kind = "replaced"
    <2>1. Shut(pg) \in PageState /\ Shut(pg).tiles = pg.tiles
      BY ShutOK
    <2> DEFINE q == Shut(pg)
    <2> HIDE DEF q
    <2>2. [q EXCEPT !.at = "left"] \in PageState /\ [q EXCEPT !.at = "left"].tiles = pg.tiles
          /\ [q EXCEPT !.at = "left"].at = "left"
      BY <2>1 DEF PageState, q
    <2> DEFINE r == [q EXCEPT !.at = "left"]
    <2> HIDE DEF r
    <2>3. [r EXCEPT !.over = TRUE] \in PageState /\ [r EXCEPT !.over = TRUE].tiles = pg.tiles
          /\ [r EXCEPT !.over = TRUE].at = "left"
      BY <2>2 DEF PageState, r
    <2> QED
      BY <1>2, <2>3 DEF Told, q, r
  <1>3. CASE m.kind = "unavailable"
    BY <1>3 DEF Told, PageState
  <1>4. CASE m.kind \in {"joined", "media"}
    <2>1. m.who \in User
      BY DEF News
    <2> QED
      BY <1>4, <2>1 DEF Told, PageState
  <1> QED
    BY <1>1, <1>2, <1>3, <1>4 DEF News

\* Messages.
LEMMA MsgOK ==
  ASSUME NEW u \in User, NEW k \in {"joined", "media", "left", "replaced", "unavailable"}
  PROVE  Msg(k, u) \in News /\ Msg(k, u).kind = k /\ Msg(k, u).who = u
  BY DEF Msg, News

LEMMA FitsOK ==
  ASSUME NEW s \in Seq(News)
  PROVE  /\ Fits(s) \in Seq(News) /\ Len(Fits(s)) <= Capacity /\ Len(Fits(s)) <= Len(s)
         /\ \A i \in DOMAIN Fits(s) : i \in DOMAIN s /\ Fits(s)[i] = s[i]
         /\ Len(s) <= Capacity => Fits(s) = s
  <1>1. Capacity \in Nat
    BY CallAssumption
  <1>2. CASE Len(s) <= Capacity
    BY <1>1, <1>2 DEF Fits
  <1>3. CASE Len(s) > Capacity
    <2>1. /\ SubSeq(s, 1, Capacity) \in Seq(News) /\ Len(SubSeq(s, 1, Capacity)) = Capacity
          /\ \A i \in 1 .. Capacity : SubSeq(s, 1, Capacity)[i] = s[i]
      BY <1>1, <1>3
    <2> QED
      BY <1>1, <1>3, <2>1 DEF Fits
  <1> QED
    BY <1>1, <1>2, <1>3

LEMMA PrefixOK ==
  ASSUME NEW S, NEW s \in Seq(S), NEW n \in 0 .. Len(s)
  PROVE  /\ SubSeq(s, 1, n) \in Seq(S) /\ Len(SubSeq(s, 1, n)) = n
         /\ \A i \in 1 .. n : SubSeq(s, 1, n)[i] = s[i]
  OBVIOUS

LEMMA DeliveredOK ==
  ASSUME LinksOK, RoomOK, NEW news \in [Conn -> Seq(News)], Delivered(news)
  PROVE  /\ down' \in [Conn -> Seq(News)]
         /\ \A c \in Conn : Len(down'[c]) <= Capacity
         /\ lost' \subseteq Conn
  <1>1. ASSUME NEW c \in Conn
        PROVE  /\ Fits(down[c] \o news[c]) \in Seq(News)
               /\ Len(Fits(down[c] \o news[c])) <= Capacity
    <2>1. down[c] \o news[c] \in Seq(News)
      BY DEF LinksOK
    <2> QED
      BY <2>1, FitsOK
  <1>2. /\ down' = [c \in Conn |-> IF Reaches(c) THEN Fits(down[c] \o news[c]) ELSE down[c]]
        /\ lost' = lost \cup {c \in Conn : Reaches(c) /\ Len(down[c] \o news[c]) > Capacity}
    BY DEF Delivered
  <1>3. \A c \in Conn : down'[c] \in Seq(News) /\ Len(down'[c]) <= Capacity
    BY <1>1, <1>2 DEF LinksOK
  <1> QED
    BY <1>2, <1>3 DEF RoomOK

LEMMA SendsOK ==
  ASSUME PagesOK, LinksOK, NEW p \in Page, NEW pg \in PageState, UserOf[p] \notin pg.tiles,
         NEW msgs \in Seq(Word), Sends(p, pg, msgs)
  PROVE  PagesOK' /\ up' \in [Conn -> Seq(Word)]
  <1> DEFINE c == pg.ws
             waits == [pg EXCEPT !.queue = @ \o msgs]
  <1>1. waits \in PageState /\ waits.tiles = pg.tiles
    <2>1. pg.queue \o msgs \in Seq(Word)
      BY DEF PageState
    <2> QED
      BY <2>1 DEF PageState
  <1>2. CASE c # NoConn /\ sock[c].client = "open"
    <2>1. c \in Conn
      BY <1>2 DEF PageState
    <2>2. up[c] \o msgs \in Seq(Word)
      BY <2>1 DEF LinksOK
    <2>3. up' = [up EXCEPT ![c] = @ \o msgs] /\ page' = [page EXCEPT ![p] = pg]
      BY <1>2 DEF Sends
    <2> QED
      BY <2>1, <2>2, <2>3 DEF PagesOK, LinksOK
  <1>3. CASE ~(c # NoConn /\ sock[c].client = "open")
    <2>1. page' = [page EXCEPT ![p] = waits] /\ UNCHANGED up
      BY <1>3 DEF Sends
    <2> HIDE DEF waits
    <2> QED
      BY <1>1, <2>1 DEF PagesOK, LinksOK
  <1> QED
    BY <1>2, <1>3

LEMMA CloseOK ==
  ASSUME PagesOK, LinksOK, NEW p \in Page, Close(p)
  PROVE  /\ sock' \in [Conn -> Socket] /\ down' \in [Conn -> Seq(News)]
         /\ \A c \in Conn : Len(down'[c]) <= Capacity
  <1>1. page[p].ws \in Conn \cup {NoConn} /\ Capacity \in Nat /\ <<>> \in Seq(News) /\ Len(<<>>) = 0
    BY CallAssumption DEF PagesOK, PageState
  <1>2. CASE page[p].ws = NoConn
    BY <1>2 DEF Close, LinksOK
  <1>3. CASE page[p].ws # NoConn
    <2>1. [sock[page[p].ws] EXCEPT !.client = "closing"] \in Socket
      BY <1>1, <1>3 DEF LinksOK, Socket
    <2>2. sock' \in [Conn -> Socket]
      BY <1>1, <1>3, <2>1 DEF Close, LinksOK
    <2>3. down' = [down EXCEPT ![page[p].ws] = <<>>]
      BY <1>3 DEF Close
    <2> QED
      BY <1>1, <1>3, <2>2, <2>3 DEF LinksOK
  <1> QED
    BY <1>2, <1>3

LEMMA ConnectOK ==
  ASSUME PagesOK, LinksOK, NEW p \in Page, NEW c \in Conn, NEW pg \in PageState,
         UserOf[p] \notin pg.tiles, Connect(p, c, pg)
  PROVE  PagesOK' /\ sock' \in [Conn -> Socket]
  <1>1. Using(pg, c) \in PageState /\ UserOf[p] \notin Using(pg, c).tiles
    BY UsingOK
  <1>2. [Fresh EXCEPT !.client = "dialing"] \in Socket
    BY DEF Fresh, Socket
  <1> QED
    BY <1>1, <1>2 DEF Connect, PagesOK, LinksOK

LEMMA InitCallTyped == CallInit => CallTypeOK
  <1> SUFFICES ASSUME CallInit PROVE CallTypeOK
    OBVIOUS
  <1> USE CallAssumption
  <1>1. PagesOK
    BY OutOK DEF CallInit, PagesOK
  <1>2. Fresh \in Socket /\ Idle \in Handler /\ <<>> \in Seq(Word) /\ <<>> \in Seq(News) /\ Len(<<>>) = 0
    BY DEF Fresh, Socket, Idle, Handler
  <1>3. LinksOK
    BY <1>2 DEF CallInit, LinksOK
  <1>4. RoomOK
    BY <1>2 DEF CallInit, RoomOK
  <1> QED
    BY <1>1, <1>3, <1>4, CallTypeParts

-----------------------------------------------------------------------------
(* Types.                                                                  *)

LEMMA PageTypes ==
  ASSUME CallTypeOK,
         Enter \/ Opened \/ Join \/ NoMicrophone \/ OnClose \/ Reconnect \/ LinkFails \/ TokenChanges
         \/ HangUp \/ Leave \/ ComeBack
  PROVE  CallTypeOK'
  <1>t. PagesOK /\ LinksOK /\ RoomOK
    BY CallTypeParts
  <1>q. MaxTrouble \in Nat /\ Capacity \in Nat /\ <<>> \in Seq(News) /\ <<>> \in Seq(Word) /\ Len(<<>>) = 0
    BY CallAssumption
  <1>1. CASE Enter
    <2>1. PICK p \in Page, c \in Conn : Connect(p, c, Entered)
      BY <1>1 DEF Enter
    <2>2. PagesOK' /\ sock' \in [Conn -> Socket]
      BY <1>t, <2>1, ConnectOK, OutOK
    <2>3. LinksOK' /\ RoomOK'
      BY <1>1, <1>t, <2>2 DEF Enter, LinksOK, RoomOK
    <2> QED
      BY <2>2, <2>3, CallTypePartsNext
  <1>2. CASE Opened
    <2>1. PICK c \in Conn :
            /\ sock' = [sock EXCEPT ![c] = [client |-> "open", server |-> "open", opening |-> TRUE]]
            /\ up' = [up EXCEPT ![c] = page[c[1]].queue]
            /\ page' = [page EXCEPT ![c[1]].queue = <<>>]
      BY <1>2 DEF Opened
    <2>2. c[1] \in Page /\ page[c[1]] \in PageState
      BY <1>t, PageOfConn DEF PagesOK
    <2>3. [client |-> "open", server |-> "open", opening |-> TRUE] \in Socket
      BY DEF Socket
    <2>4. [page[c[1]] EXCEPT !.queue = <<>>] \in PageState
          /\ [page[c[1]] EXCEPT !.queue = <<>>].tiles = page[c[1]].tiles
          /\ page[c[1]].queue \in Seq(Word)
      BY <2>2, <1>q DEF PageState
    <2>5. PagesOK'
      BY <2>1, <2>2, <2>4, <1>t DEF PagesOK
    <2>6. LinksOK' /\ RoomOK'
      BY <1>2, <2>1, <2>3, <2>4, <1>t DEF Opened, LinksOK, RoomOK
    <2> QED
      BY <2>5, <2>6, CallTypePartsNext
  <1>3. CASE Join
    <2>1. PICK c \in Conn :
            /\ sock' = [sock EXCEPT ![c].opening = FALSE]
            /\ Sends(c[1], page[c[1]], <<"join">>)
      BY <1>3 DEF Join
    <2>2. c[1] \in Page /\ page[c[1]] \in PageState /\ UserOf[c[1]] \notin page[c[1]].tiles
      BY <1>t, PageOfConn DEF PagesOK
    <2>3. <<"join">> \in Seq(Word)
      BY DEF Word
    <2>4. PagesOK' /\ up' \in [Conn -> Seq(Word)]
      BY <1>t, <2>1, <2>2, <2>3, SendsOK
    <2>5. [sock[c] EXCEPT !.opening = FALSE] \in Socket
      BY <1>t DEF LinksOK, Socket
    <2>6. LinksOK' /\ RoomOK'
      BY <1>3, <2>1, <2>4, <2>5, <1>t DEF Join, LinksOK, RoomOK
    <2> QED
      BY <2>4, <2>6, CallTypePartsNext
  <1>4. CASE NoMicrophone
    <2>1. PICK c \in Conn : sock' = [sock EXCEPT ![c].opening = FALSE]
      BY <1>4 DEF NoMicrophone
    <2>2. [sock[c] EXCEPT !.opening = FALSE] \in Socket
      BY <1>t DEF LinksOK, Socket
    <2>3. trouble' \in 0 .. MaxTrouble
      BY <1>4, <1>t, <1>q DEF NoMicrophone, Trouble, RoomOK
    <2>4. PagesOK' /\ LinksOK' /\ RoomOK'
      BY <1>4, <2>1, <2>2, <2>3, <1>t DEF NoMicrophone, PagesOK, LinksOK, RoomOK
    <2> QED
      BY <2>4, CallTypePartsNext
  <1>5. CASE OnClose
    <2>1. PICK c \in Conn :
            /\ sock' = [sock EXCEPT ![c].client = "closed"]
            /\ page' = [page EXCEPT ![c[1]].timer = @ \/ (page[c[1]].run /\ ~page[c[1]].over)]
      BY <1>5 DEF OnClose
    <2>2. c[1] \in Page /\ page[c[1]] \in PageState
      BY <1>t, PageOfConn DEF PagesOK
    <2> DEFINE b == page[c[1]].timer \/ (page[c[1]].run /\ ~page[c[1]].over)
               q == [page[c[1]] EXCEPT !.timer = b]
    <2>3. b \in BOOLEAN
      OBVIOUS
    <2>4. page' = [page EXCEPT ![c[1]] = q]
      BY <2>1, <2>2, <1>t DEF PagesOK
    <2> HIDE DEF b
    <2>5. q \in PageState /\ q.tiles = page[c[1]].tiles
      BY <2>2, <2>3 DEF PageState
    <2>6. [sock[c] EXCEPT !.client = "closed"] \in Socket
      BY <1>t DEF LinksOK, Socket
    <2> HIDE DEF q
    <2>7. PagesOK'
      BY <2>2, <2>4, <2>5, <1>t DEF PagesOK
    <2>8. LinksOK' /\ RoomOK'
      BY <1>5, <2>1, <2>6, <1>t DEF OnClose, LinksOK, RoomOK
    <2> QED
      BY <2>7, <2>8, CallTypePartsNext
  <1>6. CASE Reconnect
    <2>1. PICK p \in Page, c \in Conn : Connect(p, c, page[p])
      BY <1>6 DEF Reconnect
    <2>2. page[p] \in PageState /\ UserOf[p] \notin page[p].tiles
      BY <1>t DEF PagesOK
    <2>3. PagesOK' /\ sock' \in [Conn -> Socket]
      BY <1>t, <2>1, <2>2, ConnectOK
    <2>4. LinksOK' /\ RoomOK'
      BY <1>6, <1>t, <2>3 DEF Reconnect, LinksOK, RoomOK
    <2> QED
      BY <2>3, <2>4, CallTypePartsNext
  <1>7. CASE LinkFails
    <2>1. PICK c \in Conn :
            /\ sock' = [sock EXCEPT ![c].client = "closing"]
            /\ \E n \in 0 .. Len(up[c]) : up' = [up EXCEPT ![c] = SubSeq(@, 1, n)]
            /\ down' = [down EXCEPT ![c] = <<>>]
      BY <1>7 DEF LinkFails
    <2>2. PICK n \in 0 .. Len(up[c]) : up' = [up EXCEPT ![c] = SubSeq(@, 1, n)]
      BY <2>1
    <2>3. SubSeq(up[c], 1, n) \in Seq(Word)
      BY <1>t, PrefixOK DEF LinksOK
    <2>4. [sock[c] EXCEPT !.client = "closing"] \in Socket
      BY <1>t DEF LinksOK, Socket
    <2>5. trouble' \in 0 .. MaxTrouble
      BY <1>7, <1>t, <1>q DEF LinkFails, Trouble, RoomOK
    <2>6. LinksOK'
      BY <1>t, <1>q, <2>1, <2>2, <2>3, <2>4 DEF LinksOK
    <2>7. PagesOK' /\ RoomOK'
      BY <1>7, <2>5, <1>t DEF LinkFails, PagesOK, RoomOK
    <2> QED
      BY <2>6, <2>7, CallTypePartsNext
  <1>8. CASE TokenChanges
    <2>1. PICK p \in Page, c \in Conn :
            /\ sock' = [d \in Conn |-> IF d = c THEN [Fresh EXCEPT !.client = "dialing"]
                                       ELSE IF d = page[p].ws THEN [sock[d] EXCEPT !.client = "closing"]
                                       ELSE sock[d]]
            /\ down' = [d \in Conn |-> IF d = page[p].ws THEN <<>> ELSE down[d]]
            /\ page' = [page EXCEPT ![p] = Using(@, c)]
      BY <1>8 DEF TokenChanges
    <2>2. Using(page[p], c) \in PageState /\ Using(page[p], c).tiles = page[p].tiles
      BY <1>t, UsingOK DEF PagesOK
    <2>3. PagesOK'
      BY <1>t, <2>1, <2>2 DEF PagesOK
    <2>4. [Fresh EXCEPT !.client = "dialing"] \in Socket
          /\ \A d \in Conn : [sock[d] EXCEPT !.client = "closing"] \in Socket
      BY <1>t DEF LinksOK, Fresh, Socket
    <2>5. sock' \in [Conn -> Socket]
      BY <1>t, <2>1, <2>4 DEF LinksOK
    <2>9. \A d \in Conn : down'[d] \in Seq(News) /\ Len(down'[d]) <= Capacity
      BY <1>t, <1>q, <2>1 DEF LinksOK
    <2>10. down' \in [Conn -> Seq(News)]
      BY <2>1, <2>9
    <2>6. LinksOK'
      BY <1>8, <1>t, <2>5, <2>9, <2>10 DEF TokenChanges, LinksOK
    <2>7. trouble' \in 0 .. MaxTrouble
      BY <1>8, <1>t, <1>q DEF TokenChanges, Trouble, RoomOK
    <2>8. RoomOK'
      BY <1>8, <2>7, <1>t DEF TokenChanges, RoomOK
    <2> QED
      BY <2>3, <2>6, <2>8, CallTypePartsNext
  <1>9. CASE HangUp
    <2>1. PICK p \in Page : Sends(p, [page[p] EXCEPT !.at = "ending"], <<"end">>)
      BY <1>9 DEF HangUp
    <2> DEFINE q == [page[p] EXCEPT !.at = "ending"]
    <2>2. q \in PageState /\ UserOf[p] \notin q.tiles
      BY <1>t DEF PagesOK, PageState
    <2> HIDE DEF q
    <2>3. <<"end">> \in Seq(Word)
      BY DEF Word
    <2>4. PagesOK' /\ up' \in [Conn -> Seq(Word)]
      BY <1>t, <2>1, <2>2, <2>3, SendsOK DEF q
    <2>5. trouble' \in 0 .. MaxTrouble /\ call' \in {"live", "ended"}
      BY <1>9, <1>t, <1>q DEF HangUp, Trouble, RoomOK
    <2>6. LinksOK' /\ RoomOK'
      BY <1>9, <2>4, <2>5, <1>t DEF HangUp, LinksOK, RoomOK
    <2> QED
      BY <2>4, <2>6, CallTypePartsNext
  <1>10. CASE Leave
    <2>1. PICK p \in Page :
            /\ page' = [page EXCEPT ![p] = [Shut(@) EXCEPT !.at = "left"]] /\ Close(p)
      BY <1>10 DEF Leave
    <2>2. Shut(page[p]) \in PageState /\ UserOf[p] \notin Shut(page[p]).tiles
      BY <1>t, ShutOK DEF PagesOK
    <2> DEFINE q == Shut(page[p])
               r == [q EXCEPT !.at = "left"]
    <2> HIDE DEF q
    <2>3. r \in PageState /\ UserOf[p] \notin r.tiles
      BY <2>2 DEF PageState, q
    <2>4. page' = [page EXCEPT ![p] = r]
      BY <2>1, <1>t DEF q, PagesOK
    <2> HIDE DEF r
    <2>5. PagesOK'
      BY <2>3, <2>4, <1>t DEF PagesOK
    <2>6. LinksOK' /\ RoomOK'
      BY <1>10, <1>t, <2>1, CloseOK DEF Leave, LinksOK, RoomOK
    <2> QED
      BY <2>5, <2>6, CallTypePartsNext
  <1>11. CASE ComeBack
    <2>1. PICK p \in Page : page' = [page EXCEPT ![p] = Out]
      BY <1>11 DEF ComeBack
    <2>2. PagesOK'
      BY <2>1, <1>t, OutOK DEF PagesOK
    <2>3. LinksOK' /\ RoomOK'
      BY <1>11, <1>t DEF ComeBack, LinksOK, RoomOK
    <2> QED
      BY <2>2, <2>3, CallTypePartsNext
  <1> QED
    BY <1>1, <1>2, <1>3, <1>4, <1>5, <1>6, <1>7, <1>8, <1>9, <1>10, <1>11

LEMMA HearTypes == ASSUME CallTypeOK, Hear PROVE CallTypeOK'
  <1>t. PagesOK /\ LinksOK /\ RoomOK
    BY CallTypeParts
  <1>1. PICK c \in Conn :
          LET p == c[1] IN
          /\ sock[c].client = "open" /\ down[c] # <<>>
          /\ IF page[p].at \notin {"call", "ending"}
             THEN down' = [down EXCEPT ![c] = Tail(@)] /\ UNCHANGED <<page, sock>>
             ELSE /\ page' = [page EXCEPT ![p] = Told(@, p, Head(down[c]))]
                  /\ IF Head(down[c]).kind = "replaced" THEN Close(p)
                     ELSE down' = [down EXCEPT ![c] = Tail(@)] /\ UNCHANGED sock
    BY DEF Hear
  <1>2. c[1] \in Page /\ page[c[1]] \in PageState /\ UserOf[c[1]] \notin page[c[1]].tiles
    BY <1>t, PageOfConn DEF PagesOK
  <1>3. Head(down[c]) \in News /\ Tail(down[c]) \in Seq(News) /\ Len(Tail(down[c])) <= Capacity
    <2>1. down[c] \in Seq(News) /\ Len(down[c]) <= Capacity /\ Capacity \in Nat
      BY <1>t, CallAssumption DEF LinksOK
    <2> QED
      BY <1>1, <2>1
  <1>4. PagesOK'
    <2>1. CASE page' = page
      BY <2>1, <1>t DEF PagesOK
    <2>2. CASE page' = [page EXCEPT ![c[1]] = Told(@, c[1], Head(down[c]))]
      <3> DEFINE q == Told(page[c[1]], c[1], Head(down[c]))
      <3>1. q \in PageState /\ UserOf[c[1]] \notin q.tiles
        BY <1>2, <1>3, ToldOK
      <3>2. page' = [page EXCEPT ![c[1]] = q]
        BY <2>2, <1>2, <1>t DEF PagesOK
      <3> HIDE DEF q
      <3> QED
        BY <1>2, <3>1, <3>2, <1>t DEF PagesOK
    <2> QED
      BY <1>1, <2>1, <2>2
  <1>5. LinksOK'
    <2>1. CASE Close(c[1])
      BY <1>2, <1>t, <2>1, CloseOK DEF Hear, LinksOK
    <2>2. CASE down' = [down EXCEPT ![c] = Tail(@)] /\ UNCHANGED sock
      BY <1>3, <1>t, <2>2 DEF Hear, LinksOK
    <2> QED
      BY <1>1, <2>1, <2>2
  <1>6. RoomOK'
    BY <1>t DEF Hear, RoomOK
  <1> QED
    BY <1>4, <1>5, <1>6, CallTypePartsNext

LEMMA OthersOK ==
  ASSUME RoomOK, NEW u
  PROVE  /\ Others(u, members) \subseteq Conn
         /\ \A v \in User \ {u} : members[v] # NoConn => members[v] \in Others(u, members)
  BY DEF RoomOK, Others

\* What the service does with one connection.
LEMMA OnlyOK ==
  ASSUME NEW c \in Conn, NEW s \in Seq(News)
  PROVE  Only(c, s) \in [Conn -> Seq(News)]
  BY DEF Only

\* A connection that is replaced hears of it, or does not any more.
LEMMA ReplacedOK ==
  ASSUME LinksOK, RoomOK, NEW c \in Conn, NEW old \in Conn,
         NEW n \in IF Reaches(old) THEN 0 .. Len(Fits(Append(down[old], Msg("replaced", Who(c))))) ELSE {0}
  PROVE  /\ SubSeq(Append(down[old], Msg("replaced", Who(c))), 1, n) \in Seq(News)
         /\ Len(SubSeq(Append(down[old], Msg("replaced", Who(c))), 1, n)) <= Capacity
  <1> DEFINE m == Append(down[old], Msg("replaced", Who(c)))
  <1>1. m \in Seq(News)
    BY PageOfConn, MsgOK DEF LinksOK
  <1> HIDE DEF m
  <1>2. Len(Fits(m)) \in Nat /\ Len(Fits(m)) <= Capacity /\ Len(Fits(m)) <= Len(m) /\ Capacity \in Nat
        /\ Len(m) \in Nat
    BY <1>1, FitsOK, CallAssumption
  <1>3. n \in 0 .. Len(m) /\ n <= Capacity
    BY <1>2 DEF m
  <1> QED
    BY <1>1, <1>3, PrefixOK DEF m

LEMMA JoinTypes == ASSUME CallTypeOK, HandleJoin PROVE CallTypeOK'
  <1>t. PagesOK /\ LinksOK /\ RoomOK
    BY CallTypeParts
  <1>1. PICK c \in Conn :
          LET old == members[Who(c)]
              replaced == old \notin {NoConn, c}
          IN  /\ sock[c].server = "open" /\ peer[c].at = "read" /\ up[c] # <<>> /\ Head(up[c]) = "join"
              /\ up' = [up EXCEPT ![c] = Tail(@)]
              /\ IF call = "ended"
                 THEN /\ Delivered(Only(c, <<Msg("unavailable", Who(c))>>))
                      /\ peer' = [peer EXCEPT ![c].at = "drop"]
                      /\ UNCHANGED <<members, sock>>
                 ELSE /\ EnterRoom(c)
                      /\ IF ~replaced THEN UNCHANGED <<sock, down, lost>>
                         ELSE /\ sock' = [sock EXCEPT ![old].server = "cut"]
                              /\ \E n \in IF Reaches(old) THEN 0 .. Len(Fits(Append(down[old], Msg("replaced", Who(c))))) ELSE {0} :
                                    down' = [down EXCEPT ![old] = SubSeq(Append(@, Msg("replaced", Who(c))), 1, n)]
                              /\ UNCHANGED lost
    BY DEF HandleJoin
  <1>2. Tail(up[c]) \in Seq(Word) /\ up' \in [Conn -> Seq(Word)]
    <2>1. up[c] \in Seq(Word) /\ up[c] # <<>>
      BY <1>t, <1>1 DEF LinksOK
    <2>2. Tail(up[c]) \in Seq(Word)
      BY <2>1
    <2> QED
      BY <2>2, <1>1, <1>t DEF LinksOK
  <1>3. PagesOK' /\ call' = call /\ trouble' = trouble
    BY <1>t DEF HandleJoin, PagesOK
  <1>4. CASE call = "ended"
    <2>1. <<Msg("unavailable", Who(c))>> \in Seq(News)
      BY PageOfConn, MsgOK
    <2>2. /\ down' \in [Conn -> Seq(News)] /\ \A d \in Conn : Len(down'[d]) <= Capacity
          /\ lost' \subseteq Conn
      BY <1>1, <1>4, <1>t, <2>1, OnlyOK, DeliveredOK
    <2>3. [peer[c] EXCEPT !.at = "drop"] \in Handler
      BY <1>t DEF RoomOK, Handler
    <2>4. LinksOK' /\ RoomOK'
      BY <1>1, <1>2, <1>3, <1>4, <1>t, <2>2, <2>3 DEF LinksOK, RoomOK
    <2> QED
      BY <1>3, <2>4, CallTypePartsNext
  <1>5. CASE call # "ended"
    <2>1. [at |-> "greet", in |-> TRUE, todo |-> Others(Who(c), members)] \in Handler
      BY <1>t, OthersOK DEF Handler
    <2>2. EnterRoom(c) /\ lost' = lost
      BY <1>1, <1>5
    <2>3. RoomOK'
      BY <1>3, <1>t, <2>1, <2>2, PageOfConn DEF RoomOK, EnterRoom
    <2>4. CASE members[Who(c)] \in {NoConn, c}
      BY <1>1, <1>2, <1>3, <1>5, <1>t, <2>3, <2>4, CallTypePartsNext DEF LinksOK
    <2>5. CASE members[Who(c)] \notin {NoConn, c}
      <3> DEFINE old == members[Who(c)]
      <3>1. old \in Conn
        BY <1>t, <2>5, PageOfConn DEF RoomOK
      <3>2. PICK n \in IF Reaches(old) THEN 0 .. Len(Fits(Append(down[old], Msg("replaced", Who(c))))) ELSE {0} :
              down' = [down EXCEPT ![old] = SubSeq(Append(@, Msg("replaced", Who(c))), 1, n)]
        BY <1>1, <1>5, <2>5
      <3>3. sock' = [sock EXCEPT ![old].server = "cut"]
        BY <1>1, <1>5, <2>5
      <3> HIDE DEF old
      <3>4. [sock[old] EXCEPT !.server = "cut"] \in Socket
        BY <1>t, <3>1 DEF LinksOK, Socket
      <3>5. /\ SubSeq(Append(down[old], Msg("replaced", Who(c))), 1, n) \in Seq(News)
            /\ Len(SubSeq(Append(down[old], Msg("replaced", Who(c))), 1, n)) <= Capacity
        BY <1>t, <3>1, ReplacedOK
      <3>6. down' \in [Conn -> Seq(News)] /\ \A d \in Conn : Len(down'[d]) <= Capacity
        BY <1>t, <3>1, <3>2, <3>5 DEF LinksOK
      <3>7. LinksOK'
        BY <1>2, <1>t, <3>1, <3>3, <3>4, <3>6 DEF LinksOK
      <3> QED
        BY <1>3, <2>3, <3>7, CallTypePartsNext
    <2> QED
      BY <2>4, <2>5
  <1> QED
    BY <1>4, <1>5

LEMMA RemoveOK ==
  ASSUME RoomOK, NEW c \in Conn, NEW next \in {"left", "gone"}, RemovePeer(c, next)
  PROVE  peer' \in [Conn -> Handler] /\ members' \in [User -> Conn \cup {NoConn}]
  <1>1. [at |-> next, in |-> peer[c].in, todo |-> Others(Who(c), members)] \in Handler
    BY OthersOK DEF RoomOK, Handler
  <1> QED
    BY <1>1, PageOfConn DEF RemovePeer, RoomOK

\* CloseConn: what each connection has on its way to its page.
LEMMA ClosedOK ==
  ASSUME LinksOK, NEW c \in Conn, NEW d \in Conn, NEW m, NEW n \in 0 .. Len(down[c]),
         m = (IF d \in peer[c].todo /\ Reaches(d) THEN Append(down[d], Msg("left", Who(c))) ELSE down[d])
  PROVE  /\ m \in Seq(News) /\ Fits(m) \in Seq(News) /\ Len(Fits(m)) <= Capacity
         /\ SubSeq(down[c], 1, n) \in Seq(News) /\ Len(SubSeq(down[c], 1, n)) <= Capacity
  <1>1. m \in Seq(News)
    BY PageOfConn, MsgOK DEF LinksOK
  <1>2. /\ down[c] \in Seq(News) /\ Len(down[c]) \in Nat /\ Len(down[c]) <= Capacity
        /\ Capacity \in Nat
    BY CallAssumption DEF LinksOK
  <1>3. SubSeq(down[c], 1, n) \in Seq(News) /\ Len(SubSeq(down[c], 1, n)) = n
    BY <1>2, PrefixOK
  <1>4. Fits(m) \in Seq(News) /\ Len(Fits(m)) <= Capacity
    BY <1>1, FitsOK
  <1>5. n <= Capacity
    BY <1>2
  <1> QED
    BY <1>1, <1>3, <1>4, <1>5

LEMMA ServiceTypes ==
  ASSUME CallTypeOK, Greet \/ HandleEnd \/ SayLeft \/ Drop \/ CloseConn
  PROVE  CallTypeOK'
  <1>t. PagesOK /\ LinksOK /\ RoomOK
    BY CallTypeParts
  <1>p. PagesOK' /\ call' = call /\ trouble' = trouble
    BY <1>t DEF Greet, HandleEnd, SayLeft, Drop, CloseConn, PagesOK
  <1>1. CASE Greet
    <2>1. PICK c \in Conn :
            IF peer[c].todo = {}
            THEN peer' = [peer EXCEPT ![c].at = "read"] /\ UNCHANGED <<down, lost>>
            ELSE \E d \in peer[c].todo :
                   /\ peer' = [peer EXCEPT ![c].todo = @ \ {d}]
                   /\ Delivered([e \in Conn |-> IF e = d THEN <<Msg("joined", Who(c))>>
                                                ELSE IF e = c THEN <<Msg("media", Who(d))>> ELSE <<>>])
      BY <1>1 DEF Greet
    <2>2. CASE peer[c].todo = {}
      <3>1. [peer[c] EXCEPT !.at = "read"] \in Handler
        BY <1>t DEF RoomOK, Handler
      <3>2. LinksOK' /\ RoomOK'
        BY <1>1, <1>p, <1>t, <2>1, <2>2, <3>1 DEF Greet, LinksOK, RoomOK
      <3> QED
        BY <1>p, <3>2, CallTypePartsNext
    <2>3. CASE peer[c].todo # {}
      <3>1. PICK d \in peer[c].todo :
              /\ peer' = [peer EXCEPT ![c].todo = @ \ {d}]
              /\ Delivered([e \in Conn |-> IF e = d THEN <<Msg("joined", Who(c))>>
                                           ELSE IF e = c THEN <<Msg("media", Who(d))>> ELSE <<>>])
        BY <2>1, <2>3
      <3>2. d \in Conn
        BY <1>t DEF RoomOK, Handler
      <3> DEFINE news == [e \in Conn |-> IF e = d THEN <<Msg("joined", Who(c))>>
                                         ELSE IF e = c THEN <<Msg("media", Who(d))>> ELSE <<>>]
      <3>3. news \in [Conn -> Seq(News)]
        <4>1. <<Msg("joined", Who(c))>> \in Seq(News) /\ <<Msg("media", Who(d))>> \in Seq(News)
              /\ <<>> \in Seq(News)
          BY <3>2, PageOfConn, MsgOK
        <4> QED
          BY <4>1
      <3> HIDE DEF news
      <3>4. /\ down' \in [Conn -> Seq(News)] /\ \A e \in Conn : Len(down'[e]) <= Capacity
            /\ lost' \subseteq Conn
        BY <1>t, <3>1, <3>3, DeliveredOK DEF news
      <3>5. [peer[c] EXCEPT !.todo = @ \ {d}] \in Handler
        BY <1>t DEF RoomOK, Handler
      <3>6. LinksOK' /\ RoomOK'
        BY <1>1, <1>p, <1>t, <3>1, <3>4, <3>5 DEF Greet, LinksOK, RoomOK
      <3> QED
        BY <1>p, <3>6, CallTypePartsNext
    <2> QED
      BY <2>2, <2>3
  <1>2. CASE HandleEnd
    <2>1. PICK c \in Conn :
            /\ up' = [up EXCEPT ![c] = <<>>]
            /\ IF Leaves(c, "end") THEN RemovePeer(c, "left")
               ELSE peer' = [peer EXCEPT ![c].at = "drop"] /\ UNCHANGED members
      BY <1>2 DEF HandleEnd
    <2>2. peer' \in [Conn -> Handler] /\ members' \in [User -> Conn \cup {NoConn}]
      <3>1. [peer[c] EXCEPT !.at = "drop"] \in Handler
        BY <1>t DEF RoomOK, Handler
      <3>2. CASE RemovePeer(c, "left")
        BY <1>t, <3>2, RemoveOK
      <3>3. CASE peer' = [peer EXCEPT ![c].at = "drop"] /\ UNCHANGED members
        BY <1>t, <3>1, <3>3 DEF RoomOK
      <3> QED
        BY <2>1, <3>2, <3>3
    <2>4. <<>> \in Seq(Word)
      OBVIOUS
    <2>5. up' \in [Conn -> Seq(Word)]
      BY <1>t, <2>1, <2>4 DEF LinksOK
    <2>3. LinksOK' /\ RoomOK'
      BY <1>2, <1>p, <1>t, <2>5, <2>2 DEF HandleEnd, LinksOK, RoomOK
    <2> QED
      BY <1>p, <2>3, CallTypePartsNext
  <1>3. CASE SayLeft
    <2>1. PICK c \in Conn :
            /\ Delivered([d \in Conn |-> IF d \in peer[c].todo THEN <<Msg("left", Who(c))>> ELSE <<>>])
            /\ peer' = [peer EXCEPT ![c] = [at |-> "drop", in |-> @.in, todo |-> {}]]
      BY <1>3 DEF SayLeft
    <2> DEFINE news == [d \in Conn |-> IF d \in peer[c].todo THEN <<Msg("left", Who(c))>> ELSE <<>>]
    <2>2. news \in [Conn -> Seq(News)]
      <3>1. <<Msg("left", Who(c))>> \in Seq(News) /\ <<>> \in Seq(News)
        BY PageOfConn, MsgOK
      <3> QED
        BY <3>1
    <2> HIDE DEF news
    <2>3. /\ down' \in [Conn -> Seq(News)] /\ \A e \in Conn : Len(down'[e]) <= Capacity
          /\ lost' \subseteq Conn
      BY <1>t, <2>1, <2>2, DeliveredOK DEF news
    <2>4. [at |-> "drop", in |-> peer[c].in, todo |-> {}] \in Handler
      BY <1>t DEF RoomOK, Handler
    <2>5. LinksOK' /\ RoomOK'
      BY <1>3, <1>p, <1>t, <2>1, <2>3, <2>4 DEF SayLeft, LinksOK, RoomOK
    <2> QED
      BY <1>p, <2>5, CallTypePartsNext
  <1>4. CASE Drop
    <2>1. PICK c \in Conn :
            IF Leaves(c, "drop") THEN RemovePeer(c, "gone")
            ELSE peer' = [peer EXCEPT ![c].at = "gone"] /\ UNCHANGED members
      BY <1>4 DEF Drop
    <2>2. peer' \in [Conn -> Handler] /\ members' \in [User -> Conn \cup {NoConn}]
      <3>1. [peer[c] EXCEPT !.at = "gone"] \in Handler
        BY <1>t DEF RoomOK, Handler
      <3>2. CASE RemovePeer(c, "gone")
        BY <1>t, <3>2, RemoveOK
      <3>3. CASE peer' = [peer EXCEPT ![c].at = "gone"] /\ UNCHANGED members
        BY <1>t, <3>1, <3>3 DEF RoomOK
      <3> QED
        BY <2>1, <3>2, <3>3
    <2>3. LinksOK' /\ RoomOK'
      BY <1>4, <1>p, <1>t, <2>2 DEF Drop, LinksOK, RoomOK
    <2> QED
      BY <1>p, <2>3, CallTypePartsNext
  <1>5. CASE CloseConn
    <2>1. PICK c \in Conn :
            /\ peer' = [peer EXCEPT ![c] = [at |-> "closed", in |-> @.in, todo |-> {}]]
            /\ sock' = [sock EXCEPT ![c].server = "closed"]
            /\ up' = [up EXCEPT ![c] = <<>>]
            /\ LET told == [d \in Conn |-> IF d \in peer[c].todo /\ Reaches(d)
                                            THEN Append(down[d], Msg("left", Who(c))) ELSE down[d]]
               IN  /\ \E n \in IF sock[c].server = "cut" THEN {Len(down[c])} ELSE 0 .. Len(down[c]) :
                         down' = [d \in Conn |-> IF d = c THEN SubSeq(down[d], 1, n) ELSE Fits(told[d])]
                   /\ lost' = lost \cup {d \in Conn : Len(told[d]) > Capacity}
      BY <1>5 DEF CloseConn
    <2> DEFINE told == [d \in Conn |-> IF d \in peer[c].todo /\ Reaches(d)
                                        THEN Append(down[d], Msg("left", Who(c))) ELSE down[d]]
    <2>2. PICK n \in IF sock[c].server = "cut" THEN {Len(down[c])} ELSE 0 .. Len(down[c]) :
            down' = [d \in Conn |-> IF d = c THEN SubSeq(down[d], 1, n) ELSE Fits(told[d])]
      BY <2>1
    <2>3. n \in 0 .. Len(down[c])
      BY <2>2, <1>t DEF LinksOK
    <2>4. \A d \in Conn : down'[d] \in Seq(News) /\ Len(down'[d]) <= Capacity
      <3> SUFFICES ASSUME NEW d \in Conn PROVE down'[d] \in Seq(News) /\ Len(down'[d]) <= Capacity
        OBVIOUS
      <3>1. /\ Fits(told[d]) \in Seq(News) /\ Len(Fits(told[d])) <= Capacity
            /\ SubSeq(down[c], 1, n) \in Seq(News) /\ Len(SubSeq(down[c], 1, n)) <= Capacity
        BY <1>t, <2>3, ClosedOK
      <3> HIDE DEF told
      <3> QED
        BY <2>2, <3>1
    <2> HIDE DEF told
    <2>5. down' \in [Conn -> Seq(News)]
      BY <2>2, <2>4
    <2>6. lost' \subseteq Conn
      BY <2>1, <1>t DEF RoomOK
    <2>7. /\ [at |-> "closed", in |-> peer[c].in, todo |-> {}] \in Handler
          /\ [sock[c] EXCEPT !.server = "closed"] \in Socket
          /\ <<>> \in Seq(Word)
      <3>1. [at |-> "closed", in |-> peer[c].in, todo |-> {}] \in Handler
        BY <1>t DEF RoomOK, Handler
      <3>2. [sock[c] EXCEPT !.server = "closed"] \in Socket
        BY <1>t DEF LinksOK, Socket
      <3> QED
        BY <3>1, <3>2
    <2>8. LinksOK'
      BY <1>t, <2>1, <2>4, <2>5, <2>7 DEF LinksOK
    <2>9. RoomOK'
      BY <1>5, <1>p, <1>t, <2>1, <2>6, <2>7 DEF CloseConn, RoomOK
    <2> QED
      BY <1>p, <2>8, <2>9, CallTypePartsNext
  <1> QED
    BY <1>1, <1>2, <1>3, <1>4, <1>5

LEMMA NextCallTypes == CallTypeOK /\ [CallNext]_callVars => CallTypeOK'
  <1> SUFFICES ASSUME CallTypeOK, [CallNext]_callVars PROVE CallTypeOK'
    OBVIOUS
  <1>1. CASE UNCHANGED callVars
    BY <1>1 DEF callVars, CallTypeOK
  <1> QED
    BY <1>1, PageTypes, HearTypes, JoinTypes, ServiceTypes DEF CallNext, ServiceStep

CallActs == CallNext \/ UNCHANGED callVars

\* Types of the pages, the sockets and the room of a call, with what is on its way: no
\* channel holds more than fits and no page has a tile for its own user (CallTypeOK).
THEOREM CallTypes == CallSpec => []CallTypeOK
  BY InitCallTyped, NextCallTypes, PTL DEF CallSpec

-----------------------------------------------------------------------------
(* The sockets.                                                            *)

LEMMA NoConnIsNone == NoConn \notin Conn
  BY DEF NoConn, Conn

\* How a page, or the network, moves a socket.
Moves(c) ==
    \/ sock'[c].client = sock[c].client /\ sock'[c].server = sock[c].server
    \/ sock[c].client = "free" /\ sock'[c].client = "dialing" /\ sock'[c].server = "free"
    \/ sock[c].client = "dialing" /\ sock'[c].client = "open" /\ sock'[c].server = "open"
    \/ sock'[c].client \in {"closing", "closed"} /\ sock'[c].server = sock[c].server
PageActs ==
    \/ Enter \/ Opened \/ Join \/ NoMicrophone \/ OnClose \/ Reconnect \/ LinkFails \/ TokenChanges
    \/ Hear \/ HangUp \/ Leave \/ ComeBack

LEMMA ConnectMoves ==
  ASSUME LinksOK, NEW p \in Page, NEW d \in Conn, NEW pg, Connect(p, d, pg), NEW c \in Conn
  PROVE  Moves(c)
  BY DEF LinksOK, Connect, IsNext, Moves, Fresh

LEMMA CloseMoves ==
  ASSUME LinksOK, NEW p \in Page, Close(p), NEW c \in Conn
  PROVE  /\ Moves(c)
         /\ sock'[c].client = "open" => sock[c].client = "open" /\ down'[c] = down[c]
         /\ sock'[c].client = "free" => sock[c].client = "free"
         /\ down'[c] \in {down[c], <<>>}
  <1>1. CASE page[p].ws = NoConn
    BY <1>1 DEF Close, Moves
  <1>2. CASE page[p].ws # NoConn
    <2>1. sock' = [sock EXCEPT ![page[p].ws].client = "closing"]
          /\ down' = [down EXCEPT ![page[p].ws] = <<>>]
      BY <1>2 DEF Close
    <2>2. CASE page[p].ws = c
      BY <2>1, <2>2 DEF LinksOK, Moves, Socket
    <2>3. CASE page[p].ws # c
      BY <2>1, <2>3 DEF LinksOK, Moves, Socket
    <2> QED
      BY <2>2, <2>3
  <1> QED
    BY <1>1, <1>2

LEMMA PageMoves ==
  ASSUME CallTypeOK, PageActs
  PROVE  /\ peer' = peer /\ members' = members /\ lost' = lost
         /\ \A c \in Conn : Moves(c)
  <1>t. PagesOK /\ LinksOK /\ RoomOK
    BY CallTypeParts
  <1>1. peer' = peer /\ members' = members /\ lost' = lost
    BY DEF PageActs, Enter, Opened, Join, NoMicrophone, OnClose, Reconnect, LinkFails, TokenChanges,
           Hear, HangUp, Leave, ComeBack
  <1>2. ASSUME NEW c \in Conn PROVE Moves(c)
    <2>1. CASE Enter \/ Reconnect
      BY <2>1, <1>t, ConnectMoves DEF Enter, Reconnect
    <2>2. CASE Opened
      BY <2>2, <1>t DEF Opened, LinksOK, Moves
    <2>3. CASE Join \/ NoMicrophone
      <3>1. PICK d \in Conn : sock' = [sock EXCEPT ![d].opening = FALSE]
        BY <2>3 DEF Join, NoMicrophone
      <3> QED
        BY <3>1, <1>t DEF LinksOK, Moves, Socket
    <2>4. CASE OnClose
      BY <2>4, <1>t DEF OnClose, LinksOK, Moves, Socket
    <2>5. CASE LinkFails
      BY <2>5, <1>t DEF LinkFails, LinksOK, Moves, Socket
    <2>6. CASE TokenChanges
      BY <2>6, <1>t DEF TokenChanges, IsNext, Fresh, LinksOK, Moves, Socket
    <2>7. CASE Hear
      <3>1. UNCHANGED sock \/ \E x \in Conn : Close(x[1])
        BY <2>7 DEF Hear
      <3>2. CASE UNCHANGED sock
        BY <3>2 DEF Moves
      <3>3. CASE \E x \in Conn : Close(x[1])
        BY <3>3, <1>t, CloseMoves, PageOfConn
      <3> QED
        BY <3>1, <3>2, <3>3
    <2>8. CASE HangUp \/ ComeBack
      BY <2>8 DEF HangUp, ComeBack, Moves
    <2>9. CASE Leave
      BY <2>9, <1>t, CloseMoves DEF Leave
    <2> QED
      BY <2>1, <2>2, <2>3, <2>4, <2>5, <2>6, <2>7, <2>8, <2>9 DEF PageActs
  <1> QED
    BY <1>1, <1>2

\* How the service does.
LEMMA ServiceMoves ==
  ASSUME CallTypeOK, ServiceStep
  PROVE  /\ page' = page
         /\ \A c \in Conn : sock'[c].client = sock[c].client
  <1>t. LinksOK
    BY CallTypeParts
  <1>1. page' = page
    BY DEF ServiceStep, HandleJoin, Greet, HandleEnd, SayLeft, Drop, CloseConn
  <1>2. sock' = sock \/ \E d, st : sock' = [sock EXCEPT ![d].server = st]
    <2>1. CASE HandleJoin
      <3>1. PICK x \in Conn :
              sock' = sock \/ sock' = [sock EXCEPT ![members[Who(x)]].server = "cut"]
        BY <2>1, SMTT(30) DEF HandleJoin
      <3> QED
        BY <3>1
    <2>2. CASE CloseConn
      <3>1. PICK x \in Conn : sock' = [sock EXCEPT ![x].server = "closed"]
        BY <2>2 DEF CloseConn
      <3> QED
        BY <3>1
    <2>3. CASE Greet \/ HandleEnd \/ SayLeft \/ Drop
      BY <2>3 DEF Greet, HandleEnd, SayLeft, Drop
    <2> QED
      BY <2>1, <2>2, <2>3 DEF ServiceStep
  <1>3. ASSUME NEW d, NEW st, sock' = [sock EXCEPT ![d].server = st], NEW c \in Conn
        PROVE  sock'[c].client = sock[c].client
    BY <1>t, <1>3 DEF LinksOK, Socket
  <1> QED
    BY <1>1, <1>2, <1>3

\* Whoever is the only connection of a user has been so from the start.
LEMMA OnlyBefore ==
  ASSUME CallTypeOK, CallActs, NEW c \in Conn, OnlyConn(c)'
  PROVE  OnlyConn(c)
  <1>1. ASSUME NEW d \in Conn, sock[d].client # "free" PROVE sock'[d].client # "free"
    <2>1. CASE PageActs
      <3>1. Moves(d)
        BY <2>1, PageMoves
      <3> QED
        BY <3>1, <1>1 DEF Moves
    <2>2. CASE ServiceStep
      BY <2>2, ServiceMoves, <1>1
    <2>3. CASE UNCHANGED callVars
      BY <2>3, <1>1 DEF callVars
    <2> QED
      BY <2>1, <2>2, <2>3 DEF CallActs, CallNext, PageActs
  <1> QED
    BY <1>1 DEF OnlyConn, Who

\* What a step of the service does to the handlers, the members and the sockets: x is
\* the connection whose handler it is.
Entering(x) ==
    /\ call # "ended" /\ EnterRoom(x)
    /\ UNCHANGED <<sock, down, lost>> /\ members[Who(x)] \in {NoConn, x}
Replacing(x) ==
    /\ call # "ended" /\ EnterRoom(x)
    /\ members[Who(x)] \notin {NoConn, x}
    /\ sock' = [sock EXCEPT ![members[Who(x)]].server = "cut"]
    /\ \A c \in Conn : c # members[Who(x)] => down'[c] = down[c]
    /\ lost' = lost

LEMMA JoinFields ==
  ASSUME CallTypeOK, HandleJoin
  PROVE  \E x \in Conn :
            /\ sock[x].server = "open" /\ peer[x].at = "read"
            /\ \/ /\ Delivered(Only(x, <<Msg("unavailable", Who(x))>>))
                  /\ peer' = [peer EXCEPT ![x].at = "drop"] /\ UNCHANGED <<members, sock>>
               \/ Entering(x)
               \/ /\ Replacing(x)
                  /\ \E n \in IF Reaches(members[Who(x)])
                              THEN 0 .. Len(Fits(Append(down[members[Who(x)]], Msg("replaced", Who(x))))) ELSE {0} :
                        down' = [down EXCEPT ![members[Who(x)]] = SubSeq(Append(@, Msg("replaced", Who(x))), 1, n)]
  <1>t. LinksOK /\ RoomOK
    BY CallTypeParts
  <1>1. PICK c \in Conn :
          LET old == members[Who(c)]
              replaced == old \notin {NoConn, c}
          IN  /\ sock[c].server = "open" /\ peer[c].at = "read" /\ up[c] # <<>> /\ Head(up[c]) = "join"
              /\ up' = [up EXCEPT ![c] = Tail(@)]
              /\ IF call = "ended"
                 THEN /\ Delivered(Only(c, <<Msg("unavailable", Who(c))>>))
                      /\ peer' = [peer EXCEPT ![c].at = "drop"]
                      /\ UNCHANGED <<members, sock>>
                 ELSE /\ EnterRoom(c)
                      /\ IF ~replaced THEN UNCHANGED <<sock, down, lost>>
                         ELSE /\ sock' = [sock EXCEPT ![old].server = "cut"]
                              /\ \E n \in IF Reaches(old) THEN 0 .. Len(Fits(Append(down[old], Msg("replaced", Who(c))))) ELSE {0} :
                                    down' = [down EXCEPT ![old] = SubSeq(Append(@, Msg("replaced", Who(c))), 1, n)]
                              /\ UNCHANGED lost
    BY DEF HandleJoin
  <1>2. CASE call = "ended"
    BY <1>1, <1>2
  <1>3. CASE call # "ended" /\ members[Who(c)] \in {NoConn, c}
    BY <1>1, <1>3 DEF Entering
  <1>4. CASE call # "ended" /\ members[Who(c)] \notin {NoConn, c}
    <2> DEFINE old == members[Who(c)]
    <2>1. PICK n \in IF Reaches(old) THEN 0 .. Len(Fits(Append(down[old], Msg("replaced", Who(c))))) ELSE {0} :
              down' = [down EXCEPT ![old] = SubSeq(Append(@, Msg("replaced", Who(c))), 1, n)]
      BY <1>1, <1>4
    <2>2. \A d \in Conn : d # old => down'[d] = down[d]
      BY <1>t, <2>1 DEF LinksOK
    <2>3. sock' = [sock EXCEPT ![old].server = "cut"] /\ lost' = lost /\ EnterRoom(c)
      BY <1>1, <1>4
    <2>4. Replacing(c)
      BY <1>4, <2>2, <2>3 DEF Replacing
    <2> QED
      BY <1>1, <2>1, <2>4
  <1> QED
    BY <1>2, <1>3, <1>4

LEMMA EnterFields ==
  ASSUME CallTypeOK, NEW x \in Conn, EnterRoom(x)
  PROVE  /\ peer'[x] = [at |-> "greet", in |-> TRUE, todo |-> Others(Who(x), members)]
         /\ members'[Who(x)] = x
         /\ \A c \in Conn : c # x => peer'[c] = peer[c]
         /\ \A u \in User : u # Who(x) => members'[u] = members[u]
  BY CallTypeParts, PageOfConn DEF EnterRoom, RoomOK

LEMMA RemoveFields ==
  ASSUME CallTypeOK, NEW x \in Conn, NEW next \in {"left", "gone"}, RemovePeer(x, next)
  PROVE  /\ peer'[x].at = next
         /\ members'[Who(x)] = NoConn
         /\ \A c \in Conn : c # x => peer'[c] = peer[c]
         /\ \A u \in User : u # Who(x) => members'[u] = members[u]
  BY CallTypeParts, PageOfConn DEF RemovePeer, RoomOK

\* The end of a handler, which takes its user out of the room or has nothing to take out.
LEMMA EndFields ==
  ASSUME CallTypeOK, SocketInv, HandleEnd \/ Drop
  PROVE  /\ sock' = sock /\ down' = down /\ lost' = lost
         /\ \E x \in Conn :
              /\ sock[x].server # "free" /\ peer'[x].at \in {"left", "drop", "gone"}
              /\ \A c \in Conn : c # x => peer'[c] = peer[c]
              /\ \A u \in User : members'[u] \in {members[u], NoConn}
              /\ \A u \in User : u # Who(x) => members'[u] = members[u]
  <1>t. RoomOK
    BY CallTypeParts
  <1>1. sock' = sock /\ down' = down /\ lost' = lost
    BY DEF HandleEnd, Drop
  <1>2. PICK x \in Conn :
          /\ \/ /\ sock[x].server = "open"
                /\ RemovePeer(x, "left") \/ (peer' = [peer EXCEPT ![x].at = "drop"] /\ UNCHANGED members)
             \/ /\ Ends(x)
                /\ RemovePeer(x, "gone") \/ (peer' = [peer EXCEPT ![x].at = "gone"] /\ UNCHANGED members)
    <2>1. CASE HandleEnd
      BY <2>1 DEF HandleEnd
    <2>2. CASE Drop
      BY <2>2 DEF Drop
    <2> QED
      BY <2>1, <2>2
  <1>3. sock[x].server # "free"
    BY <1>2 DEF Ends, SocketInv, UnopenedOf, Idle
  <1>4. CASE RemovePeer(x, "left") \/ RemovePeer(x, "gone")
    BY <1>1, <1>3, <1>4, RemoveFields
  <1>5. CASE peer' = [peer EXCEPT ![x].at = "drop"] \/ peer' = [peer EXCEPT ![x].at = "gone"]
    <2>1. peer'[x].at \in {"drop", "gone"} /\ \A c \in Conn : c # x => peer'[c] = peer[c]
      BY <1>5, <1>t DEF RoomOK, Handler
    <2>2. members' = members \/ RemovePeer(x, "left") \/ RemovePeer(x, "gone")
      BY <1>2
    <2>3. CASE members' = members
      BY <1>1, <1>3, <2>1, <2>3
    <2> QED
      BY <1>4, <2>2, <2>3
  <1> QED
    BY <1>2, <1>4, <1>5

LEMMA InitSockets == CallInit => SocketInv
  <1> SUFFICES ASSUME CallInit PROVE SocketInv
    OBVIOUS
  <1>1. \A c \in Conn : UnopenedOf(c)
    BY DEF CallInit, UnopenedOf, Fresh
  <1>2. \A u \in User : MemberOf(u)
    BY DEF CallInit, MemberOf
  <1> QED
    BY <1>1, <1>2 DEF SocketInv

LEMMA NextSockets == CallTypeOK /\ SocketInv /\ [CallNext]_callVars => SocketInv'
  <1> SUFFICES ASSUME CallTypeOK, SocketInv, [CallNext]_callVars PROVE SocketInv'
    OBVIOUS
  <1>t. PagesOK /\ LinksOK /\ RoomOK
    BY CallTypeParts
  <1>c. \A c \in Conn : UnopenedOf(c)
    BY DEF SocketInv
  <1>m. \A u \in User : members[u] \in Conn => Who(members[u]) = u /\ sock[members[u]].server # "free"
    BY NoConnIsNone DEF SocketInv, MemberOf
  <1>n. \A u \in User : members[u] \in Conn \cup {NoConn}
    BY <1>t DEF RoomOK
  <1>1. CASE PageActs
    <2>1. peer' = peer /\ members' = members /\ \A c \in Conn : Moves(c)
      BY <1>1, PageMoves
    <2>2. ASSUME NEW c \in Conn PROVE UnopenedOf(c)'
      <3>1. Moves(c) /\ UnopenedOf(c)
        BY <2>1, <1>c
      <3> QED
        BY <2>1, <3>1 DEF Moves, UnopenedOf
    <2>3. ASSUME NEW c \in Conn, sock[c].server # "free" PROVE sock'[c].server # "free"
      <3>1. Moves(c) /\ UnopenedOf(c)
        BY <2>1, <1>c
      <3> QED
        BY <2>3, <3>1 DEF Moves, UnopenedOf
    <2>4. ASSUME NEW u \in User PROVE MemberOf(u)'
      BY <2>1, <2>3, <1>m, <1>n DEF MemberOf, Who
    <2> QED
      BY <2>2, <2>4 DEF SocketInv
  <1>2. ASSUME NEW x \in Conn, sock[x].server # "free", sock' = sock,
               \A c \in Conn : c # x => peer'[c] = peer[c],
               \A u \in User : members'[u] \in {members[u], NoConn}
        PROVE  SocketInv'
    <2>1. \A c \in Conn : UnopenedOf(c)'
      BY <1>2, <1>c DEF UnopenedOf
    <2>2. ASSUME NEW u \in User PROVE MemberOf(u)'
      BY <1>2, <1>m, <1>n DEF MemberOf, Who
    <2> QED
      BY <2>1, <2>2 DEF SocketInv
  <1>3. CASE HandleJoin
    <2>1. PICK x \in Conn :
            /\ sock[x].server = "open"
            /\ \/ peer' = [peer EXCEPT ![x].at = "drop"] /\ UNCHANGED <<members, sock>>
               \/ Entering(x)
               \/ Replacing(x)
      BY <1>3, JoinFields
    <2>2. CASE peer' = [peer EXCEPT ![x].at = "drop"] /\ UNCHANGED <<members, sock>>
      BY <2>1, <2>2, <1>2, <1>t DEF RoomOK
    <2>3. CASE Entering(x) \/ Replacing(x)
      <3>1. /\ members'[Who(x)] = x
            /\ \A c \in Conn : c # x => peer'[c] = peer[c]
            /\ \A u \in User : u # Who(x) => members'[u] = members[u]
        BY <2>3, EnterFields DEF Entering, Replacing
      <3>2. /\ \A c \in Conn : sock'[c].client = sock[c].client
            /\ \A c \in Conn : sock'[c].server = "free" <=> sock[c].server = "free"
            /\ sock'[x].server = "open"
        <4>1. CASE Entering(x)
          BY <4>1, <2>1 DEF Entering
        <4>2. CASE Replacing(x)
          <5> DEFINE old == members[Who(x)]
          <5>1. old \in Conn /\ old # x /\ sock[old].server # "free"
            BY <4>2, <1>n, <1>m, PageOfConn DEF Replacing
          <5>2. sock' = [sock EXCEPT ![old].server = "cut"]
            BY <4>2 DEF Replacing
          <5> HIDE DEF old
          <5> QED
            BY <5>1, <5>2, <2>1, <1>t DEF LinksOK, Socket
        <4> QED
          BY <2>3, <4>1, <4>2
      <3>3. \A c \in Conn : UnopenedOf(c)'
        BY <3>1, <3>2, <1>c, <2>1 DEF UnopenedOf
      <3>4. ASSUME NEW u \in User PROVE MemberOf(u)'
        <4>1. CASE u = Who(x)
          BY <3>1, <3>2, <4>1 DEF MemberOf, Who
        <4>2. CASE u # Who(x)
          BY <3>1, <3>2, <4>2, <1>m, <1>n DEF MemberOf, Who
        <4> QED
          BY <4>1, <4>2
      <3> QED
        BY <3>3, <3>4 DEF SocketInv
    <2> QED
      BY <2>1, <2>2, <2>3
  <1>4. CASE Greet \/ SayLeft
    <2>1. PICK x \in Conn :
            /\ peer[x].at \in {"greet", "left"}
            /\ \E h : peer' = [peer EXCEPT ![x] = h]
      BY <1>4, <1>t DEF Greet, SayLeft, RoomOK
    <2>2. sock[x].server # "free"
      BY <2>1, <1>c DEF UnopenedOf, Idle
    <2>3. sock' = sock /\ members' = members
      BY <1>4 DEF Greet, SayLeft
    <2>4. \A c \in Conn : c # x => peer'[c] = peer[c]
      BY <2>1, <1>t DEF RoomOK
    <2> QED
      BY <2>2, <2>3, <2>4, <1>2
  <1>5. CASE HandleEnd \/ Drop
    BY <1>5, <1>2, EndFields
  <1>6. CASE CloseConn
    <2>1. PICK x \in Conn :
            /\ peer[x].at = "gone"
            /\ peer' = [peer EXCEPT ![x] = [at |-> "closed", in |-> @.in, todo |-> {}]]
            /\ sock' = [sock EXCEPT ![x].server = "closed"]
      BY <1>6 DEF CloseConn
    <2>2. sock[x].server # "free" /\ members' = members
      BY <1>6, <2>1, <1>c DEF UnopenedOf, Idle, CloseConn
    <2>3. /\ \A c \in Conn : sock'[c].client = sock[c].client
          /\ \A c \in Conn : sock'[c].server = "free" <=> sock[c].server = "free"
          /\ \A c \in Conn : c # x => peer'[c] = peer[c]
      BY <2>1, <2>2, <1>t DEF LinksOK, Socket, RoomOK
    <2>4. \A c \in Conn : UnopenedOf(c)'
      BY <2>2, <2>3, <1>c DEF UnopenedOf
    <2>5. ASSUME NEW u \in User PROVE MemberOf(u)'
      BY <2>2, <2>3, <1>m, <1>n DEF MemberOf, Who
    <2> QED
      BY <2>4, <2>5 DEF SocketInv
  <1>7. CASE UNCHANGED callVars
    BY <1>7, <1>c, <1>m, <1>n DEF callVars, SocketInv, UnopenedOf, MemberOf, Who
  <1> QED
    BY <1>1, <1>3, <1>4, <1>5, <1>6, <1>7 DEF CallNext, PageActs, ServiceStep

LEMMA CallSockets == CallSpec => []SocketInv
  BY InitSockets, NextSockets, CallTypes, PTL DEF CallSpec

-----------------------------------------------------------------------------
(* Messages.                                                               *)

\* A message of s is a message of t.
Within(s, t) == \A i \in DOMAIN s : \E j \in DOMAIN t : t[j] = s[i]

LEMMA WithinSelf == ASSUME NEW s PROVE Within(s, s) /\ Within(<<>>, s)
  BY DEF Within

LEMMA WithinTail == ASSUME NEW s \in Seq(News), s # <<>> PROVE Within(Tail(s), s)
  <1>1. \A i \in DOMAIN Tail(s) : i + 1 \in DOMAIN s /\ s[i + 1] = Tail(s)[i]
    OBVIOUS
  <1> QED
    BY <1>1 DEF Within

LEMMA WithinPrefix ==
  ASSUME NEW s \in Seq(News), NEW n \in 0 .. Len(s) PROVE Within(SubSeq(s, 1, n), s)
  <1>1. \A i \in DOMAIN SubSeq(s, 1, n) : i \in DOMAIN s /\ SubSeq(s, 1, n)[i] = s[i]
    BY PrefixOK
  <1> QED
    BY <1>1 DEF Within

\* What Delivered does to one connection: what was there stays, or the connection is lost.
LEMMA DeliveredTo ==
  ASSUME LinksOK, NEW news \in [Conn -> Seq(News)], Delivered(news), NEW c \in Conn
  PROVE  /\ c \in lost => c \in lost'
         /\ c \notin lost' => Within(down[c], down'[c])
         /\ c \notin lost' /\ Reaches(c) => Within(news[c], down'[c])
         /\ \A i \in DOMAIN down'[c] :
               \/ \E j \in DOMAIN down[c] : down[c][j] = down'[c][i]
               \/ \E j \in DOMAIN news[c] : news[c][j] = down'[c][i]
  <1> DEFINE s == down[c]
             t == news[c]
  <1>1. /\ down'[c] = IF Reaches(c) THEN Fits(s \o t) ELSE s
        /\ c \in lost' <=> c \in lost \/ (Reaches(c) /\ Len(s \o t) > Capacity)
        /\ s \in Seq(News) /\ t \in Seq(News) /\ Capacity \in Nat
    BY CallAssumption DEF Delivered, LinksOK
  <1> HIDE DEF s, t
  <1>2. /\ s \o t \in Seq(News) /\ Len(s \o t) = Len(s) + Len(t)
        /\ \A i \in 1 .. Len(s) : (s \o t)[i] = s[i]
        /\ \A i \in 1 .. Len(t) : (s \o t)[Len(s) + i] = t[i]
        /\ \A i \in 1 .. Len(s) + Len(t) : i > Len(s) => (s \o t)[i] = t[i - Len(s)]
    BY <1>1
  <1>3. Len(s) \in Nat /\ Len(t) \in Nat /\ DOMAIN s = 1 .. Len(s) /\ DOMAIN t = 1 .. Len(t)
        /\ DOMAIN (s \o t) = 1 .. Len(s) + Len(t) /\ Len(s \o t) \in Nat
    BY <1>1, <1>2
  <1> DEFINE st == s \o t
  <1>4. /\ Within(s, st) /\ Within(t, st)
        /\ \A i \in DOMAIN st : (\E j \in DOMAIN s : s[j] = st[i]) \/ (\E j \in DOMAIN t : t[j] = st[i])
    <2>1. Within(s, st)
      BY <1>2, <1>3 DEF Within
    <2>2. Within(t, st)
      <3>1. \A i \in DOMAIN t : Len(s) + i \in DOMAIN st
        BY <1>3
      <3> QED
        BY <1>2, <1>3, <3>1 DEF Within
    <2>3. ASSUME NEW i \in DOMAIN st
          PROVE  (\E j \in DOMAIN s : s[j] = st[i]) \/ (\E j \in DOMAIN t : t[j] = st[i])
      <3>1. CASE i <= Len(s)
        BY <1>2, <1>3, <3>1
      <3>2. CASE i > Len(s)
        <4>1. i - Len(s) \in DOMAIN t
          BY <1>3, <3>2
        <4> QED
          BY <1>2, <1>3, <3>2, <4>1
      <3> QED
        BY <1>3, <3>1, <3>2
    <2> QED
      BY <2>1, <2>2, <2>3
  <1> HIDE DEF st
  <1>5. /\ \A i \in DOMAIN Fits(st) : i \in DOMAIN st /\ Fits(st)[i] = st[i]
        /\ Len(st) <= Capacity => Fits(st) = st
    BY <1>2, FitsOK DEF st
  <1>6. CASE ~Reaches(c)
    <2>1. down'[c] = s
      BY <1>1, <1>6
    <2> QED
      BY <1>1, <1>6, <2>1, WithinSelf DEF s, t
  <1>7. CASE Reaches(c)
    <2>1. down'[c] = Fits(st)
      BY <1>1, <1>7 DEF st
    <2>2. c \notin lost' => down'[c] = st
      BY <1>1, <1>3, <1>5, <1>7, <2>1 DEF st
    <2>3. \A i \in DOMAIN down'[c] :
               \/ \E j \in DOMAIN s : s[j] = down'[c][i]
               \/ \E j \in DOMAIN t : t[j] = down'[c][i]
      BY <1>4, <1>5, <2>1
    <2> QED
      BY <1>1, <1>4, <2>2, <2>3 DEF s, t
  <1> QED
    BY <1>6, <1>7

LEMMA PageDowns ==
  ASSUME CallTypeOK, PageActs, NEW d \in Conn
  PROVE  Within(down'[d], down[d])
  <1>t. PagesOK /\ LinksOK /\ RoomOK
    BY CallTypeParts
  <1>d. down[d] \in Seq(News)
    BY <1>t DEF LinksOK
  <1>1. \/ down'[d] = down[d] \/ down'[d] = <<>>
        \/ down[d] # <<>> /\ down'[d] = Tail(down[d])
    <2>1. CASE UNCHANGED down
      BY <2>1
    <2>2. CASE LinkFails
      BY <2>2, <1>t DEF LinkFails, LinksOK
    <2>3. CASE TokenChanges
      BY <2>3, <1>t DEF TokenChanges, LinksOK
    <2>4. CASE Hear
      <3>1. PICK x \in Conn :
              /\ down[x] # <<>>
              /\ down' = [down EXCEPT ![x] = Tail(@)] \/ Close(x[1])
        BY <2>4 DEF Hear
      <3>2. CASE down' = [down EXCEPT ![x] = Tail(@)]
        BY <3>1, <3>2, <1>t DEF LinksOK
      <3>3. CASE Close(x[1])
        BY <3>3, <1>t, CloseMoves, PageOfConn
      <3> QED
        BY <3>1, <3>2, <3>3
    <2>5. CASE Leave
      <3>1. PICK p \in Page : Close(p)
        BY <2>5 DEF Leave
      <3> QED
        BY <3>1, <1>t, CloseMoves
    <2> QED
      BY <2>1, <2>2, <2>3, <2>4, <2>5 DEF PageActs, Enter, Opened, Join, NoMicrophone, OnClose,
         Reconnect, HangUp, ComeBack
  <1> QED
    BY <1>d, <1>1, WithinSelf, WithinTail

\* The end of a connection: x is the one that is closed.
LEMMA CloseFields ==
  ASSUME CallTypeOK, CloseConn
  PROVE  \E x \in Conn :
            /\ peer[x].at = "gone" /\ peer'[x].at = "closed"
            /\ \A c \in Conn : c # x => peer'[c] = peer[c] /\ sock'[c] = sock[c]
            /\ members' = members
            /\ \A c \in Conn :
                  /\ c \in lost => c \in lost'
                  /\ c # x /\ c \notin lost' => Within(down[c], down'[c])
                  /\ \A i \in DOMAIN down'[c] :
                        \/ \E j \in DOMAIN down[c] : down[c][j] = down'[c][i]
                        \/ down'[c][i] = Msg("left", Who(x))
  <1>t. LinksOK /\ RoomOK
    BY CallTypeParts
  <1>1. PICK x \in Conn :
          /\ peer[x].at = "gone"
          /\ peer' = [peer EXCEPT ![x] = [at |-> "closed", in |-> @.in, todo |-> {}]]
          /\ sock' = [sock EXCEPT ![x].server = "closed"]
          /\ LET told == [d \in Conn |-> IF d \in peer[x].todo /\ Reaches(d)
                                          THEN Append(down[d], Msg("left", Who(x))) ELSE down[d]]
             IN  /\ \E n \in IF sock[x].server = "cut" THEN {Len(down[x])} ELSE 0 .. Len(down[x]) :
                       down' = [d \in Conn |-> IF d = x THEN SubSeq(down[d], 1, n) ELSE Fits(told[d])]
                 /\ lost' = lost \cup {d \in Conn : Len(told[d]) > Capacity}
    BY DEF CloseConn
  <1>2. /\ peer'[x].at = "closed" /\ members' = members
        /\ \A c \in Conn : c # x => peer'[c] = peer[c] /\ sock'[c] = sock[c]
    BY <1>1, <1>t DEF RoomOK, LinksOK, CloseConn
  <1> DEFINE told == [d \in Conn |-> IF d \in peer[x].todo /\ Reaches(d)
                                      THEN Append(down[d], Msg("left", Who(x))) ELSE down[d]]
  <1>3. PICK n \in 0 .. Len(down[x]) :
          down' = [d \in Conn |-> IF d = x THEN SubSeq(down[d], 1, n) ELSE Fits(told[d])]
    <2>1. Len(down[x]) \in 0 .. Len(down[x])
      BY <1>t DEF LinksOK
    <2> QED
      BY <1>1, <2>1
  <1>4. ASSUME NEW c \in Conn
        PROVE  /\ c \in lost => c \in lost'
               /\ c # x /\ c \notin lost' => Within(down[c], down'[c])
               /\ \A i \in DOMAIN down'[c] :
                     \/ \E j \in DOMAIN down[c] : down[c][j] = down'[c][i]
                     \/ down'[c][i] = Msg("left", Who(x))
    <2> DEFINE t == told[c]
               m == Msg("left", Who(x))
    <2>1. /\ c \in lost => c \in lost'
          /\ c \notin lost' => ~(Len(t) > Capacity)
      BY <1>1
    <2>2. down[c] \in Seq(News) /\ m \in News /\ Capacity \in Nat
      BY <1>t, CallAssumption, MsgOK, PageOfConn DEF LinksOK
    <2>3. t = down[c] \/ t = Append(down[c], m)
      OBVIOUS
    <2>x. c # x => down'[c] = Fits(t)
      BY <1>3
    <2>y. c = x => down'[c] = SubSeq(down[c], 1, n)
      BY <1>3
    <2> HIDE DEF t, m
    <2>4. t \in Seq(News) /\ Within(down[c], t) /\ Len(t) \in Nat
          /\ \A i \in DOMAIN t : (\E j \in DOMAIN down[c] : down[c][j] = t[i]) \/ t[i] = m
      <3>1. CASE t = down[c]
        BY <2>2, <3>1, WithinSelf
      <3>2. CASE t = Append(down[c], m)
        <4>1. /\ Append(down[c], m) \in Seq(News) /\ Len(Append(down[c], m)) = Len(down[c]) + 1
              /\ \A i \in 1 .. Len(down[c]) : Append(down[c], m)[i] = down[c][i]
              /\ Append(down[c], m)[Len(down[c]) + 1] = m
          BY <2>2
        <4>2. \A i \in DOMAIN t : i \in DOMAIN down[c] \/ i = Len(down[c]) + 1
          BY <2>2, <3>2, <4>1
        <4>3. \A i \in DOMAIN down[c] : i \in DOMAIN t /\ t[i] = down[c][i]
          BY <2>2, <3>2, <4>1
        <4> QED
          BY <2>2, <3>2, <4>1, <4>2, <4>3 DEF Within
      <3> QED
        BY <2>3, <3>1, <3>2
    <2>5. CASE c # x
      <3>1. /\ \A i \in DOMAIN Fits(t) : i \in DOMAIN t /\ Fits(t)[i] = t[i]
            /\ Len(t) <= Capacity => Fits(t) = t
        BY <2>4, FitsOK
      <3>2. c \notin lost' => down'[c] = t
        BY <2>1, <2>2, <2>4, <2>5, <2>x, <3>1
      <3>3. \A i \in DOMAIN down'[c] : (\E j \in DOMAIN down[c] : down[c][j] = down'[c][i]) \/ down'[c][i] = m
        BY <2>4, <2>5, <2>x, <3>1
      <3> QED
        BY <2>1, <2>4, <3>2, <3>3 DEF m
    <2>6. CASE c = x
      <3>1. Within(down'[c], down[c])
        BY <2>2, <2>6, <2>y, WithinPrefix
      <3> QED
        BY <2>1, <2>6, <3>1 DEF Within
    <2> QED
      BY <2>5, <2>6
  <1> QED
    BY <1>1, <1>2, <1>4

\* The end of a call: a page hears that a user has left from the handler that went.
LEMMA SayFields ==
  ASSUME CallTypeOK, SayLeft
  PROVE  \E x \in Conn :
            /\ peer[x].at = "left" /\ peer'[x].at = "drop"
            /\ \A c \in Conn : c # x => peer'[c] = peer[c]
            /\ members' = members /\ sock' = sock
            /\ \A c \in Conn :
                  /\ c \in lost => c \in lost'
                  /\ c \notin lost' => Within(down[c], down'[c])
                  /\ \A i \in DOMAIN down'[c] :
                        \/ \E j \in DOMAIN down[c] : down[c][j] = down'[c][i]
                        \/ down'[c][i] = Msg("left", Who(x))
  <1>t. LinksOK /\ RoomOK
    BY CallTypeParts
  <1>1. PICK x \in Conn :
          /\ peer[x].at = "left"
          /\ Delivered([d \in Conn |-> IF d \in peer[x].todo THEN <<Msg("left", Who(x))>> ELSE <<>>])
          /\ peer' = [peer EXCEPT ![x] = [at |-> "drop", in |-> @.in, todo |-> {}]]
    BY DEF SayLeft
  <1>2. /\ peer'[x].at = "drop" /\ members' = members /\ sock' = sock
        /\ \A c \in Conn : c # x => peer'[c] = peer[c]
    BY <1>1, <1>t DEF RoomOK, SayLeft
  <1> DEFINE m == Msg("left", Who(x))
             news == [d \in Conn |-> IF d \in peer[x].todo THEN <<m>> ELSE <<>>]
  <1>3. news \in [Conn -> Seq(News)] /\ \A c \in Conn : \A j \in DOMAIN news[c] : news[c][j] = m
    <2>1. m \in News
      BY PageOfConn, MsgOK
    <2> HIDE DEF m
    <2>2. <<m>> \in Seq(News) /\ <<>> \in Seq(News)
      BY <2>1
    <2>3. \A j \in DOMAIN <<m>> : <<m>>[j] = m
      OBVIOUS
    <2>4. \A j \in DOMAIN <<>> : FALSE
      OBVIOUS
    <2> QED
      BY <2>2, <2>3, <2>4
  <1>4. Delivered(news)
    BY <1>1
  <1> HIDE DEF news
  <1>5. ASSUME NEW c \in Conn
        PROVE  /\ c \in lost => c \in lost'
               /\ c \notin lost' => Within(down[c], down'[c])
               /\ \A i \in DOMAIN down'[c] :
                     \/ \E j \in DOMAIN down[c] : down[c][j] = down'[c][i]
                     \/ down'[c][i] = m
    <2>1. /\ c \in lost => c \in lost'
          /\ c \notin lost' => Within(down[c], down'[c])
          /\ \A i \in DOMAIN down'[c] :
                \/ \E j \in DOMAIN down[c] : down[c][j] = down'[c][i]
                \/ \E j \in DOMAIN news[c] : news[c][j] = down'[c][i]
      BY <1>3, <1>4, <1>t, DeliveredTo
    <2> QED
      BY <1>3, <2>1
  <1> QED
    BY <1>1, <1>2, <1>5


\* What the handler of x sends to another when it enters, and to itself.
LEMMA GreetFields ==
  ASSUME CallTypeOK, Greet
  PROVE  \E x \in Conn :
            /\ peer[x].at = "greet"
            /\ \A c \in Conn : c # x => peer'[c] = peer[c]
            /\ members' = members /\ sock' = sock
            /\ \/ /\ peer[x].todo = {} /\ peer'[x].at = "read" /\ peer'[x].in = peer[x].in
                  /\ down' = down /\ lost' = lost
               \/ \E e \in peer[x].todo :
                    /\ peer'[x].at = "greet" /\ peer'[x].in = peer[x].in
                    /\ peer'[x].todo = peer[x].todo \ {e}
                    /\ \A c \in Conn :
                         /\ c \in lost => c \in lost'
                         /\ c \notin lost' => Within(down[c], down'[c])
                         /\ \A i \in DOMAIN down'[c] :
                              \/ \E j \in DOMAIN down[c] : down[c][j] = down'[c][i]
                              \/ down'[c][i].kind # "left"
                    /\ e \notin lost' /\ Reaches(e)
                       => \E i \in DOMAIN down'[e] : down'[e][i] = Msg("joined", Who(x))
                    /\ x \notin lost' /\ Reaches(x) /\ x # e
                       => \E i \in DOMAIN down'[x] : down'[x][i] = Msg("media", Who(e))
  <1>t. LinksOK /\ RoomOK
    BY CallTypeParts
  <1>1. PICK x \in Conn :
          /\ peer[x].at = "greet"
          /\ IF peer[x].todo = {}
             THEN peer' = [peer EXCEPT ![x].at = "read"] /\ UNCHANGED <<down, lost>>
             ELSE \E d \in peer[x].todo :
                    /\ peer' = [peer EXCEPT ![x].todo = @ \ {d}]
                    /\ Delivered([e \in Conn |-> IF e = d THEN <<Msg("joined", Who(x))>>
                                                 ELSE IF e = x THEN <<Msg("media", Who(d))>> ELSE <<>>])
    BY DEF Greet
  <1>2. members' = members /\ sock' = sock
    BY DEF Greet
  <1>3. CASE peer[x].todo = {}
    <2>1. peer' = [peer EXCEPT ![x].at = "read"] /\ down' = down /\ lost' = lost
      BY <1>1, <1>3
    <2>2. peer'[x].at = "read" /\ peer'[x].in = peer[x].in /\ \A c \in Conn : c # x => peer'[c] = peer[c]
      BY <2>1, <1>t DEF RoomOK, Handler
    <2> QED
      BY <1>1, <1>2, <1>3, <2>1, <2>2
  <1>4. CASE peer[x].todo # {}
    <2>1. PICK e \in peer[x].todo :
            /\ peer' = [peer EXCEPT ![x].todo = @ \ {e}]
            /\ Delivered([c \in Conn |-> IF c = e THEN <<Msg("joined", Who(x))>>
                                         ELSE IF c = x THEN <<Msg("media", Who(e))>> ELSE <<>>])
      BY <1>1, <1>4
    <2>2. e \in Conn
      BY <1>t DEF RoomOK, Handler
    <2>3. /\ peer'[x].at = "greet" /\ peer'[x].in = peer[x].in
          /\ peer'[x].todo = peer[x].todo \ {e}
          /\ \A c \in Conn : c # x => peer'[c] = peer[c]
      BY <1>1, <2>1, <1>t DEF RoomOK, Handler
    <2> DEFINE mj == Msg("joined", Who(x))
               mm == Msg("media", Who(e))
               news == [c \in Conn |-> IF c = e THEN <<mj>> ELSE IF c = x THEN <<mm>> ELSE <<>>]
    <2>4. Delivered(news)
      BY <2>1
    <2>5. mj \in News /\ mj.kind # "left" /\ mm \in News /\ mm.kind # "left"
      BY <2>2, PageOfConn, MsgOK
    <2> HIDE DEF mj, mm
    <2>6. /\ <<mj>> \in Seq(News) /\ <<mm>> \in Seq(News) /\ <<>> \in Seq(News)
          /\ 1 \in DOMAIN <<mj>> /\ 1 \in DOMAIN <<mm>> /\ \A j \in DOMAIN <<>> : FALSE
          /\ \A j \in DOMAIN <<mj>> : <<mj>>[j] = mj
          /\ \A j \in DOMAIN <<mm>> : <<mm>>[j] = mm
      <3>1. <<mj>> \in Seq(News) /\ <<mm>> \in Seq(News) /\ <<>> \in Seq(News)
        BY <2>5
      <3>2. 1 \in DOMAIN <<mj>> /\ \A j \in DOMAIN <<mj>> : <<mj>>[j] = mj
        OBVIOUS
      <3>3. 1 \in DOMAIN <<mm>> /\ \A j \in DOMAIN <<mm>> : <<mm>>[j] = mm
        OBVIOUS
      <3>4. \A j \in DOMAIN <<>> : FALSE
        OBVIOUS
      <3> QED
        BY <3>1, <3>2, <3>3, <3>4
    <2>7. /\ news \in [Conn -> Seq(News)]
          /\ \A c \in Conn : \A j \in DOMAIN news[c] : news[c][j].kind # "left"
          /\ 1 \in DOMAIN news[e] /\ news[e][1] = mj
          /\ x # e => 1 \in DOMAIN news[x] /\ news[x][1] = mm
      <3>1. news \in [Conn -> Seq(News)]
        BY <2>6
      <3>2. \A c \in Conn : \A j \in DOMAIN news[c] : news[c][j] = mj \/ news[c][j] = mm
        BY <2>6
      <3>3. 1 \in DOMAIN news[e] /\ news[e][1] = mj
        BY <2>2, <2>6
      <3>4. x # e => 1 \in DOMAIN news[x] /\ news[x][1] = mm
        BY <2>2, <2>6
      <3> QED
        BY <2>5, <3>1, <3>2, <3>3, <3>4
    <2> HIDE DEF news
    <2>8. ASSUME NEW c \in Conn
          PROVE  /\ c \in lost => c \in lost'
                 /\ c \notin lost' => Within(down[c], down'[c])
                 /\ c \notin lost' /\ Reaches(c) => Within(news[c], down'[c])
                 /\ \A i \in DOMAIN down'[c] :
                      \/ \E j \in DOMAIN down[c] : down[c][j] = down'[c][i]
                      \/ \E j \in DOMAIN news[c] : news[c][j] = down'[c][i]
      BY <2>4, <2>7, <1>t, DeliveredTo
    <2>9. ASSUME NEW c \in Conn, NEW i \in DOMAIN down'[c]
          PROVE  (\E j \in DOMAIN down[c] : down[c][j] = down'[c][i]) \/ down'[c][i].kind # "left"
      BY <2>7, <2>8
    <2>10. e \notin lost' /\ Reaches(e) => \E i \in DOMAIN down'[e] : down'[e][i] = mj
      BY <2>2, <2>7, <2>8 DEF Within
    <2>11. x \notin lost' /\ Reaches(x) /\ x # e => \E i \in DOMAIN down'[x] : down'[x][i] = mm
      BY <2>7, <2>8 DEF Within
    <2> QED
      BY <1>1, <1>2, <2>3, <2>8, <2>9, <2>10, <2>11 DEF mj, mm
  <1> QED
    BY <1>3, <1>4


\* A user joins by x: only another connection of the same user can come to harm.
LEMMA EntryFields ==
  ASSUME CallTypeOK, SocketInv, HandleJoin
  PROVE  \E x \in Conn :
            /\ sock[x].server = "open" /\ peer[x].at = "read"
            /\ \A c \in Conn : c # x => peer'[c] = peer[c]
            /\ \/ peer'[x].at = "drop" /\ members' = members
               \/ /\ peer'[x] = [at |-> "greet", in |-> TRUE, todo |-> Others(Who(x), members)]
                  /\ members'[Who(x)] = x
                  /\ \A u \in User : u # Who(x) => members'[u] = members[u]
            /\ \A c \in Conn :
                  /\ c \in lost => c \in lost'
                  /\ c = x \/ Who(c) # Who(x)
                     => sock'[c] = sock[c] /\ (c \notin lost' => Within(down[c], down'[c]))
                  /\ \A i \in DOMAIN down'[c] :
                        \/ \E j \in DOMAIN down[c] : down[c][j] = down'[c][i]
                        \/ down'[c][i].kind # "left"
  <1>t. LinksOK /\ RoomOK
    BY CallTypeParts
  <1>1. PICK x \in Conn :
          /\ sock[x].server = "open" /\ peer[x].at = "read"
          /\ \/ /\ Delivered(Only(x, <<Msg("unavailable", Who(x))>>))
                /\ peer' = [peer EXCEPT ![x].at = "drop"] /\ UNCHANGED <<members, sock>>
             \/ Entering(x)
             \/ /\ Replacing(x)
                /\ \E n \in IF Reaches(members[Who(x)])
                            THEN 0 .. Len(Fits(Append(down[members[Who(x)]], Msg("replaced", Who(x))))) ELSE {0} :
                      down' = [down EXCEPT ![members[Who(x)]] = SubSeq(Append(@, Msg("replaced", Who(x))), 1, n)]
    BY JoinFields
  <1>2. CASE /\ Delivered(Only(x, <<Msg("unavailable", Who(x))>>))
             /\ peer' = [peer EXCEPT ![x].at = "drop"] /\ UNCHANGED <<members, sock>>
    <2> DEFINE m == Msg("unavailable", Who(x))
               news == Only(x, <<m>>)
    <2>1. peer'[x].at = "drop" /\ \A c \in Conn : c # x => peer'[c] = peer[c]
      BY <1>2, <1>t DEF RoomOK, Handler
    <2>2. m \in News /\ m.kind # "left"
      BY PageOfConn, MsgOK
    <2>3. Delivered(news)
      BY <1>2
    <2> HIDE DEF m
    <2>4. news \in [Conn -> Seq(News)] /\ \A c \in Conn : \A j \in DOMAIN news[c] : news[c][j] = m
      <3>1. <<m>> \in Seq(News) /\ <<>> \in Seq(News)
        BY <2>2
      <3>2. \A j \in DOMAIN <<m>> : <<m>>[j] = m
        OBVIOUS
      <3>3. \A j \in DOMAIN <<>> : FALSE
        OBVIOUS
      <3> QED
        BY <3>1, <3>2, <3>3 DEF Only
    <2> HIDE DEF news
    <2>5. ASSUME NEW c \in Conn
          PROVE  /\ c \in lost => c \in lost'
                 /\ c \notin lost' => Within(down[c], down'[c])
                 /\ \A i \in DOMAIN down'[c] :
                      \/ \E j \in DOMAIN down[c] : down[c][j] = down'[c][i]
                      \/ \E j \in DOMAIN news[c] : news[c][j] = down'[c][i]
      BY <2>3, <2>4, <1>t, DeliveredTo
    <2>6. ASSUME NEW c \in Conn, NEW i \in DOMAIN down'[c]
          PROVE  (\E j \in DOMAIN down[c] : down[c][j] = down'[c][i]) \/ down'[c][i].kind # "left"
      BY <2>2, <2>4, <2>5
    <2> QED
      BY <1>1, <1>2, <2>1, <2>5, <2>6
  <1>3. CASE Entering(x)
    <2>1. /\ peer'[x] = [at |-> "greet", in |-> TRUE, todo |-> Others(Who(x), members)]
          /\ members'[Who(x)] = x
          /\ \A c \in Conn : c # x => peer'[c] = peer[c]
          /\ \A u \in User : u # Who(x) => members'[u] = members[u]
      BY <1>3, EnterFields DEF Entering
    <2>2. sock' = sock /\ down' = down /\ lost' = lost
      BY <1>3 DEF Entering
    <2> QED
      BY <1>1, <2>1, <2>2, WithinSelf
  <1>4. CASE /\ Replacing(x)
             /\ \E n \in IF Reaches(members[Who(x)])
                         THEN 0 .. Len(Fits(Append(down[members[Who(x)]], Msg("replaced", Who(x))))) ELSE {0} :
                   down' = [down EXCEPT ![members[Who(x)]] = SubSeq(Append(@, Msg("replaced", Who(x))), 1, n)]
    <2> DEFINE old == members[Who(x)]
               m == Msg("replaced", Who(x))
    <2>1. /\ peer'[x] = [at |-> "greet", in |-> TRUE, todo |-> Others(Who(x), members)]
          /\ members'[Who(x)] = x
          /\ \A c \in Conn : c # x => peer'[c] = peer[c]
          /\ \A u \in User : u # Who(x) => members'[u] = members[u]
      BY <1>4, EnterFields DEF Replacing
    <2>2. old \in Conn /\ old # x /\ Who(old) = Who(x)
      BY <1>4, <1>t, PageOfConn DEF Replacing, RoomOK, SocketInv, MemberOf
    <2>3. /\ sock' = [sock EXCEPT ![old].server = "cut"]
          /\ \A c \in Conn : c # old => down'[c] = down[c]
          /\ lost' = lost
      BY <1>4 DEF Replacing
    <2>4. PICK n \in IF Reaches(old) THEN 0 .. Len(Fits(Append(down[old], m))) ELSE {0} :
             down' = [down EXCEPT ![old] = SubSeq(Append(@, m), 1, n)]
      BY <1>4
    <2>5. m \in News /\ m.kind # "left"
      BY PageOfConn, MsgOK
    <2> HIDE DEF old, m
    <2>6. Append(down[old], m) \in Seq(News) /\ Len(Append(down[old], m)) \in Nat
          /\ Len(Append(down[old], m)) = Len(down[old]) + 1
          /\ \A i \in 1 .. Len(down[old]) : Append(down[old], m)[i] = down[old][i]
          /\ Append(down[old], m)[Len(down[old]) + 1] = m
          /\ down[old] \in Seq(News) /\ Len(down[old]) \in Nat /\ DOMAIN down[old] = 1 .. Len(down[old])
      BY <1>t, <2>2, <2>5 DEF LinksOK
    <2>7. n \in 0 .. Len(Append(down[old], m))
      <3> DEFINE r == Append(down[old], m)
      <3>0. r \in Seq(News)
        BY <2>6
      <3> HIDE DEF r
      <3>1. Len(Fits(r)) \in Nat /\ Len(Fits(r)) <= Len(r)
        <4>1. Fits(r) \in Seq(News) /\ Len(Fits(r)) <= Len(r)
          BY <3>0, FitsOK
        <4> QED
          BY <4>1
      <3> QED
        BY <2>4, <2>6, <3>1 DEF r
    <2> DEFINE s == Append(down[old], m)
    <2>8. down'[old] = SubSeq(s, 1, n)
      BY <1>t, <2>2, <2>4 DEF LinksOK
    <2> HIDE DEF s
    <2>9. ASSUME NEW i \in DOMAIN down'[old]
          PROVE  (\E j \in DOMAIN down[old] : down[old][j] = down'[old][i]) \/ down'[old][i] = m
      <3>1. Within(SubSeq(s, 1, n), s)
        BY <2>6, <2>7, WithinPrefix DEF s
      <3>2. PICK k \in DOMAIN s : s[k] = down'[old][i]
        BY <2>8, <3>1 DEF Within
      <3>3. k \in 1 .. Len(down[old]) + 1
        BY <2>6, <3>2 DEF s
      <3>4. k \in 1 .. Len(down[old]) \/ k = Len(down[old]) + 1
        BY <2>6, <3>3
      <3> QED
        BY <2>6, <3>2, <3>4 DEF s
    <2>10. ASSUME NEW c \in Conn, c = x \/ Who(c) # Who(x)
           PROVE  sock'[c] = sock[c] /\ Within(down[c], down'[c])
      BY <1>t, <2>2, <2>3, <2>10, WithinSelf DEF LinksOK
    <2>11. ASSUME NEW c \in Conn, NEW i \in DOMAIN down'[c]
           PROVE  (\E j \in DOMAIN down[c] : down[c][j] = down'[c][i]) \/ down'[c][i].kind # "left"
      <3>1. CASE c = old
        BY <2>5, <2>9, <3>1
      <3>2. CASE c # old
        BY <2>3, <3>2
      <3> QED
        BY <3>1, <3>2
    <2> QED
      BY <1>1, <2>1, <2>3, <2>10, <2>11
  <1> QED
    BY <1>1, <1>2, <1>3, <1>4

-----------------------------------------------------------------------------
(* Who is present.                                                         *)

\* The only connection of a user is the only one the service knows of.
LEMMA MineIsOne ==
  ASSUME SocketInv, NEW c \in Conn, OnlyConn(c),
         NEW x \in Conn, Who(x) = Who(c), sock[x].server # "free"
  PROVE  x = c
  BY DEF SocketInv, UnopenedOf, OnlyConn

LEMMA InitPresent == CallInit => PresentInv
  BY DEF CallInit, PresentInv, OnlyOf, Present, Idle

LEMMA PagePresent ==
  ASSUME CallTypeOK, SocketInv, PageActs, NEW c \in Conn, OnlyOf(c), OnlyConn(c)
  PROVE  OnlyOf(c)'
  <1>1. peer' = peer /\ members' = members /\ Moves(c)
    BY PageMoves
  <1>2. ASSUME Present(c) PROVE members'[Who(c)] = c /\ sock'[c].server = "open"
    <2>1. sock[c].server = "open" /\ members[Who(c)] = c /\ UnopenedOf(c)
      BY <1>2 DEF OnlyOf, SocketInv
    <2> QED
      BY <1>1, <2>1 DEF Moves, UnopenedOf
  <1>3. ASSUME peer[c].at \in {"read", "greet"}, NEW d \in Conn, NEW i \in DOMAIN down'[d]
        PROVE  down'[d][i] # Msg("left", Who(c))
    <2>1. PICK j \in DOMAIN down[d] : down[d][j] = down'[d][i]
      BY PageDowns DEF Within
    <2> QED
      BY <1>3, <2>1 DEF OnlyOf
  <1> QED
    BY <1>1, <1>2, <1>3 DEF OnlyOf, Present, Who


LEMMA NextPresent == CallTypeOK /\ SocketInv /\ PresentInv /\ [CallNext]_callVars => PresentInv'
  <1> SUFFICES ASSUME CallTypeOK, SocketInv, PresentInv, [CallNext]_callVars,
                      NEW c \in Conn, OnlyConn(c)'
               PROVE  OnlyOf(c)'
    BY DEF PresentInv, OnlyOf
  <1>t. PagesOK /\ LinksOK /\ RoomOK
    BY CallTypeParts
  <1>c. OnlyOf(c) /\ OnlyConn(c)
    BY OnlyBefore DEF CallActs, PresentInv
  <1>w. Who(c) \in User /\ Who(c)' = Who(c)
    BY PageOfConn DEF Who
  <1>m. \A x \in Conn : Who(x) = Who(c) /\ sock[x].server # "free" => x = c
    BY <1>c, MineIsOne
  <1>1. CASE PageActs
    BY <1>1, <1>c, PagePresent
  \* What is enough of a step of the service.
  <1>2. ASSUME Present(c)' => members'[Who(c)] = c /\ sock'[c].server = "open",
               NEW x \in Conn, sock[x].server # "free",
               x = c /\ peer'[c].at \in {"read", "greet"} => peer[c].at \in {"read", "greet"},
               \A d \in Conn : d # x => peer'[d] = peer[d],
               \A d \in Conn : \A i \in DOMAIN down'[d] :
                  \/ \E j \in DOMAIN down[d] : down[d][j] = down'[d][i]
                  \/ down'[d][i].kind # "left"
                  \/ down'[d][i] = Msg("left", Who(x)) /\ peer'[x].at \notin {"read", "greet"}
        PROVE  OnlyOf(c)'
    <2>1. ASSUME peer'[c].at \in {"read", "greet"}, NEW d \in Conn, NEW i \in DOMAIN down'[d]
          PROVE  down'[d][i] # Msg("left", Who(c))
      <3>1. peer[c].at \in {"read", "greet"}
        BY <1>2, <2>1
      <3>2. CASE \E j \in DOMAIN down[d] : down[d][j] = down'[d][i]
        BY <3>1, <3>2, <1>c DEF OnlyOf
      <3>3. CASE down'[d][i].kind # "left"
        BY <3>3, <1>w, MsgOK
      <3>4. CASE down'[d][i] = Msg("left", Who(x)) /\ peer'[x].at \notin {"read", "greet"}
        <4>1. x # c
          BY <2>1, <3>4
        <4>2. Who(x) # Who(c)
          BY <4>1, <1>m, <1>2
        <4> QED
          BY <3>4, <4>2, <1>w, PageOfConn, MsgOK
      <3> QED
        BY <3>2, <3>3, <3>4, <1>2
    <2> QED
      BY <1>2, <2>1, <1>w DEF OnlyOf
  <1>3. CASE HandleJoin
    <2>1. PICK x \in Conn :
            /\ sock[x].server = "open" /\ peer[x].at = "read"
            /\ \A d \in Conn : d # x => peer'[d] = peer[d]
            /\ \/ peer'[x].at = "drop" /\ members' = members
               \/ /\ peer'[x] = [at |-> "greet", in |-> TRUE, todo |-> Others(Who(x), members)]
                  /\ members'[Who(x)] = x
                  /\ \A u \in User : u # Who(x) => members'[u] = members[u]
            /\ \A d \in Conn :
                  /\ d = x \/ Who(d) # Who(x) => sock'[d] = sock[d]
                  /\ \A i \in DOMAIN down'[d] :
                        \/ \E j \in DOMAIN down[d] : down[d][j] = down'[d][i]
                        \/ down'[d][i].kind # "left"
      BY <1>3, EntryFields
    <2>2. x = c \/ Who(x) # Who(c)
      BY <2>1, <1>m
    <2>3. ASSUME Present(c)' PROVE members'[Who(c)] = c /\ sock'[c].server = "open"
      <3>1. CASE x = c
        BY <2>1, <2>3, <3>1 DEF Present
      <3>2. CASE Who(x) # Who(c)
        <4>1. Present(c)
          BY <2>1, <2>3, <3>2 DEF Present
        <4> QED
          BY <2>1, <3>2, <4>1, <1>c, <1>w DEF OnlyOf
      <3> QED
        BY <2>2, <3>1, <3>2
    <2> QED
      BY <2>1, <2>3, <1>2
  <1>4. CASE Greet
    <2>1. PICK x \in Conn :
            /\ peer[x].at = "greet"
            /\ \A d \in Conn : d # x => peer'[d] = peer[d]
            /\ members' = members /\ sock' = sock
            /\ peer'[x].at \in {"read", "greet"} /\ peer'[x].in = peer[x].in
            /\ \A d \in Conn : \A i \in DOMAIN down'[d] :
                  \/ \E j \in DOMAIN down[d] : down[d][j] = down'[d][i]
                  \/ down'[d][i].kind # "left"
      BY <1>4, GreetFields
    <2>2. sock[x].server # "free"
      BY <2>1 DEF SocketInv, UnopenedOf, Idle
    <2>3. Present(c)' => Present(c)
      BY <2>1 DEF Present
    <2>4. Present(c)' => members'[Who(c)] = c /\ sock'[c].server = "open"
      BY <2>1, <2>3, <1>c DEF OnlyOf
    <2> QED
      BY <2>1, <2>2, <2>4, <1>2
  <1>5. CASE SayLeft \/ CloseConn
    <2>1. PICK x \in Conn :
            /\ peer[x].at \in {"left", "gone"} /\ peer'[x].at \notin {"read", "greet"}
            /\ \A d \in Conn : d # x => peer'[d] = peer[d] /\ sock'[d] = sock[d]
            /\ members' = members
            /\ \A d \in Conn : \A i \in DOMAIN down'[d] :
                  \/ \E j \in DOMAIN down[d] : down[d][j] = down'[d][i]
                  \/ down'[d][i] = Msg("left", Who(x))
      <3>1. CASE SayLeft
        BY <3>1, SayFields
      <3>2. CASE CloseConn
        BY <3>2, CloseFields
      <3> QED
        BY <1>5, <3>1, <3>2
    <2>2. sock[x].server # "free"
      BY <2>1 DEF SocketInv, UnopenedOf, Idle
    <2>3. Present(c)' => Present(c) /\ x # c
      BY <2>1 DEF Present
    <2>4. Present(c)' => members'[Who(c)] = c /\ sock'[c].server = "open"
      BY <2>1, <2>3, <1>c DEF OnlyOf
    <2> QED
      BY <2>1, <2>2, <2>4, <1>2
  <1>6. CASE HandleEnd \/ Drop
    <2>1. sock' = sock /\ down' = down
      BY <1>6, EndFields
    <2>2. PICK x \in Conn :
            /\ sock[x].server # "free" /\ peer'[x].at \in {"left", "drop", "gone"}
            /\ \A d \in Conn : d # x => peer'[d] = peer[d]
            /\ \A u \in User : u # Who(x) => members'[u] = members[u]
      BY <1>6, EndFields
    <2>3. Present(c)' => Present(c) /\ Who(x) # Who(c)
      BY <2>2, <1>m DEF Present
    <2>4. Present(c)' => members'[Who(c)] = c /\ sock'[c].server = "open"
      BY <2>1, <2>2, <2>3, <1>c, <1>w DEF OnlyOf
    <2> QED
      BY <2>1, <2>2, <2>4, <1>2
  <1>7. CASE UNCHANGED callVars
    BY <1>7, <1>c DEF callVars, OnlyOf, OnlyConn, Present, Who
  <1> QED
    BY <1>1, <1>3, <1>4, <1>5, <1>6, <1>7 DEF CallNext, PageActs, ServiceStep

LEMMA CallPresent == CallSpec => []PresentInv
  BY InitPresent, NextPresent, CallTypes, CallSockets, PTL DEF CallSpec


-----------------------------------------------------------------------------
(* Who is seen.                                                            *)

\* Opening a socket on a page makes it the page's only one, or one too many.
LEMMA ConnectsAnother ==
  ASSUME CallTypeOK, NEW c \in Conn, OnlyConn(c), OnlyConn(c)', sock'[c].client = "open",
         NEW p \in Page, NEW x \in Conn, x[1] = p, sock'[x].client = "dialing"
  PROVE  p # c[1]
  <1>1. Who(x) = UserOf[p] /\ Who(c) = UserOf[c[1]] /\ Who(x)' = Who(x) /\ Who(c)' = Who(c)
    BY DEF Who
  <1> QED
    BY <1>1 DEF OnlyConn

\* What a step of a page leaves of a page that stays in the call, with its socket: it
\* all, or it hears the next message.
Same(c) ==
    /\ page'[c[1]].tiles = page[c[1]].tiles /\ down'[c] = down[c]
Heard(c) ==
    /\ down[c] # <<>> /\ down'[c] = Tail(down[c])
    /\ page'[c[1]] = Told(page[c[1]], c[1], Head(down[c]))

LEMMA PageSees ==
  ASSUME CallTypeOK, SocketInv, PageActs, NEW c \in Conn, OnlyConn(c), OnlyConn(c)',
         Present(c), sock'[c].client = "open", page'[c[1]].at = "call"
  PROVE  sock[c].client = "open" /\ page[c[1]].at = "call" /\ (Same(c) \/ Heard(c))
  <1>t. PagesOK /\ LinksOK /\ RoomOK
    BY CallTypeParts
  <1>p. /\ page \in [Page -> PageState] /\ down \in [Conn -> Seq(News)] /\ sock \in [Conn -> Socket]
        /\ \A x \in Conn : x[1] \in Page
    BY <1>t, PageOfConn DEF PagesOK, LinksOK
  <1>s. sock[c].client = "open"
    <2>1. Moves(c) /\ UnopenedOf(c)
      BY PageMoves DEF SocketInv
    <2> QED
      BY <2>1 DEF Moves, UnopenedOf, Present, Idle
  <1>1. CASE Enter \/ Reconnect
    <2>1. PICK p \in Page, x \in Conn : \E pg : Connect(p, x, pg)
      BY <1>1 DEF Enter, Reconnect
    <2>2. x[1] = p /\ sock'[x].client = "dialing" /\ \A q \in Page : q # p => page'[q] = page[q]
      BY <2>1, <1>p DEF Connect, IsNext, Fresh
    <2>3. p # c[1]
      BY <2>2, ConnectsAnother
    <2>4. down' = down
      BY <1>1 DEF Enter, Reconnect
    <2> QED
      BY <1>p, <1>s, <2>2, <2>3, <2>4 DEF Same
  <1>2. CASE TokenChanges
    <2>1. PICK p \in Page, x \in Conn :
            /\ x[1] = p
            /\ sock' = [d \in Conn |-> IF d = x THEN [Fresh EXCEPT !.client = "dialing"]
                                       ELSE IF d = page[p].ws THEN [sock[d] EXCEPT !.client = "closing"]
                                       ELSE sock[d]]
            /\ down' = [d \in Conn |-> IF d = page[p].ws THEN <<>> ELSE down[d]]
            /\ page' = [page EXCEPT ![p] = Using(@, x)]
      BY <1>2 DEF TokenChanges, IsNext
    <2>2. sock'[x].client = "dialing"
      BY <2>1 DEF Fresh
    <2>3. p # c[1]
      BY <2>1, <2>2, ConnectsAnother
    <2>4. c # page[p].ws \/ c = x
      BY <2>1, <1>p DEF Socket
    <2>5. c # x
      BY <2>2
    <2> QED
      BY <1>p, <1>s, <2>1, <2>3, <2>4, <2>5 DEF Same
  <1>3. CASE Opened \/ OnClose
    <2>1. PICK x \in Conn :
            page' = [page EXCEPT ![x[1]].queue = <<>>]
            \/ \E b \in BOOLEAN : page' = [page EXCEPT ![x[1]].timer = b]
      <3>1. CASE Opened
        BY <3>1 DEF Opened
      <3>2. CASE OnClose
        <4>1. PICK x \in Conn : page' = [page EXCEPT ![x[1]].timer = @ \/ (page[x[1]].run /\ ~page[x[1]].over)]
          BY <3>2 DEF OnClose
        <4> DEFINE b == page[x[1]].timer \/ (page[x[1]].run /\ ~page[x[1]].over)
        <4>2. b \in BOOLEAN
          OBVIOUS
        <4>3. page' = [page EXCEPT ![x[1]].timer = b]
          BY <4>1, <1>p
        <4> HIDE DEF b
        <4> QED
          BY <4>2, <4>3
      <3> QED
        BY <1>3, <3>1, <3>2
    <2>2. page'[c[1]].tiles = page[c[1]].tiles /\ page'[c[1]].at = page[c[1]].at
      <3>1. CASE page' = [page EXCEPT ![x[1]].queue = <<>>]
        BY <3>1, <1>p DEF PageState
      <3>2. CASE \E b \in BOOLEAN : page' = [page EXCEPT ![x[1]].timer = b]
        <4>1. PICK b \in BOOLEAN : page' = [page EXCEPT ![x[1]].timer = b]
          BY <3>2
        <4> QED
          BY <4>1, <1>p DEF PageState
      <3> QED
        BY <2>1, <3>1, <3>2
    <2>3. down' = down
      BY <1>3 DEF Opened, OnClose
    <2> QED
      BY <1>s, <2>2, <2>3 DEF Same
  <1>4. CASE Join \/ HangUp
    <2>1. PICK p \in Page :
            \E pg \in PageState :
               /\ pg.tiles = page[p].tiles /\ pg.at \in {page[p].at, "ending"}
               /\ \E msgs : Sends(p, pg, msgs)
      <3>1. CASE Join
        BY <3>1, <1>p DEF Join
      <3>2. CASE HangUp
        <4>1. PICK p \in Page : Sends(p, [page[p] EXCEPT !.at = "ending"], <<"end">>)
          BY <3>2 DEF HangUp
        <4> DEFINE pg == [page[p] EXCEPT !.at = "ending"]
        <4> DEFINE q == page[p]
        <4>q. q \in PageState
          BY <1>p
        <4> HIDE DEF q
        <4>r. [q EXCEPT !.at = "ending"] \in PageState /\ [q EXCEPT !.at = "ending"].tiles = q.tiles
              /\ [q EXCEPT !.at = "ending"].at = "ending"
          BY <4>q DEF PageState
        <4>2. pg \in PageState /\ pg.tiles = page[p].tiles /\ pg.at = "ending"
          BY <4>r DEF q
        <4>3. Sends(p, pg, <<"end">>)
          BY <4>1
        <4> HIDE DEF pg
        <4> QED
          BY <4>2, <4>3
      <3> QED
        BY <1>4, <3>1, <3>2
    <2>2. PICK pg \in PageState :
            /\ pg.tiles = page[p].tiles /\ pg.at \in {page[p].at, "ending"}
            /\ \E msgs : Sends(p, pg, msgs)
      BY <2>1
    <2>3. PICK msgs : Sends(p, pg, msgs)
      BY <2>2
    <2>4. \E q : page' = [page EXCEPT ![p] = q] /\ q.tiles = pg.tiles /\ q.at = pg.at
      <3> DEFINE q == [pg EXCEPT !.queue = @ \o msgs]
      <3>1. q.tiles = pg.tiles /\ q.at = pg.at
        BY DEF PageState
      <3>2. page' = [page EXCEPT ![p] = pg] \/ page' = [page EXCEPT ![p] = q]
        BY <2>3 DEF Sends
      <3> HIDE DEF q
      <3> QED
        BY <3>1, <3>2
    <2>5. PICK q : page' = [page EXCEPT ![p] = q] /\ q.tiles = pg.tiles /\ q.at = pg.at
      BY <2>4
    <2>6. page'[c[1]].tiles = page[c[1]].tiles /\ page[c[1]].at = "call"
      BY <1>p, <2>2, <2>5
    <2>7. down' = down
      BY <1>4 DEF Join, HangUp
    <2> QED
      BY <1>s, <2>6, <2>7 DEF Same
  <1>5. CASE NoMicrophone
    BY <1>5, <1>s DEF NoMicrophone, Same
  <1>6. CASE LinkFails
    <2>1. PICK x \in Conn :
            sock' = [sock EXCEPT ![x].client = "closing"] /\ down' = [down EXCEPT ![x] = <<>>]
      BY <1>6 DEF LinkFails
    <2>2. x # c
      BY <2>1, <1>p DEF Socket
    <2>3. page' = page
      BY <1>6 DEF LinkFails
    <2> QED
      BY <1>p, <1>s, <2>1, <2>2, <2>3 DEF Same
  <1>7. CASE Leave \/ ComeBack
    <2>1. PICK p \in Page : \E pg : page' = [page EXCEPT ![p] = pg] /\ pg.at # "call"
      <3>1. CASE ComeBack
        BY <3>1, OutOK DEF ComeBack
      <3>2. CASE Leave
        <4>1. PICK p \in Page : page' = [page EXCEPT ![p] = [Shut(@) EXCEPT !.at = "left"]]
          BY <3>2 DEF Leave
        <4> DEFINE q == Shut(page[p])
        <4>2. q \in PageState
          BY <1>p, ShutOK
        <4>3. page' = [page EXCEPT ![p] = [q EXCEPT !.at = "left"]]
          BY <4>1, <1>p
        <4> HIDE DEF q
        <4>4. [q EXCEPT !.at = "left"].at # "call"
          BY <4>2 DEF PageState
        <4> QED
          BY <4>3, <4>4
      <3> QED
        BY <1>7, <3>1, <3>2
    <2>2. p # c[1] /\ page'[c[1]] = page[c[1]]
      BY <2>1, <1>p
    <2>3. down'[c] = down[c]
      <3>1. CASE ComeBack
        BY <3>1 DEF ComeBack
      <3>2. CASE Leave
        <4>1. PICK q \in Page : Close(q)
          BY <3>2 DEF Leave
        <4> QED
          BY <4>1, <1>t, CloseMoves
      <3> QED
        BY <1>7, <3>1, <3>2
    <2> QED
      BY <1>s, <2>2, <2>3 DEF Same
  <1>8. CASE Hear
    <2>1. PICK x \in Conn :
            /\ sock[x].client = "open" /\ down[x] # <<>>
            /\ IF page[x[1]].at \notin {"call", "ending"}
               THEN down' = [down EXCEPT ![x] = Tail(@)] /\ UNCHANGED <<page, sock>>
               ELSE /\ page' = [page EXCEPT ![x[1]] = Told(@, x[1], Head(down[x]))]
                    /\ IF Head(down[x]).kind = "replaced" THEN Close(x[1])
                       ELSE down' = [down EXCEPT ![x] = Tail(@)] /\ UNCHANGED sock
      BY <1>8 DEF Hear
    <2>2. x # c => x[1] # c[1]
      BY <2>1 DEF OnlyConn, Who
    <2>3. Head(down[x]) \in News
      BY <2>1, <1>p
    <2>4. CASE page[x[1]].at \notin {"call", "ending"}
      <3>1. x # c
        BY <2>1, <2>4
      <3> QED
        BY <1>p, <1>s, <2>1, <2>4, <3>1 DEF Same
    <2>5. CASE page[x[1]].at \in {"call", "ending"} /\ x = c
      <3>1. page'[c[1]] = Told(page[c[1]], c[1], Head(down[c]))
        BY <2>1, <2>5, <1>p
      <3>2. page[c[1]].at = "call" /\ Head(down[c]).kind # "replaced"
        <4>1. c[1] \in Page /\ page[c[1]] \in PageState /\ UserOf[c[1]] \notin page[c[1]].tiles
          BY <1>p, <1>t DEF PagesOK
        <4>2. Head(down[c]) \in News
          BY <2>3, <2>5
        <4> QED
          BY <4>1, <4>2, <3>1, ToldOK
      <3> QED
        BY <1>p, <1>s, <2>1, <2>5, <3>1, <3>2 DEF Heard
    <2>6. CASE page[x[1]].at \in {"call", "ending"} /\ x # c
      <3>1. page'[c[1]] = page[c[1]]
        BY <2>1, <2>2, <2>6, <1>p
      <3>2. down'[c] = down[c]
        <4>1. CASE Close(x[1])
          BY <4>1, <1>p, <1>t, CloseMoves
        <4>2. CASE down' = [down EXCEPT ![x] = Tail(@)]
          BY <2>6, <4>2, <1>p
        <4> QED
          BY <2>1, <2>6, <4>1, <4>2
      <3> QED
        BY <1>s, <3>1, <3>2 DEF Same
    <2> QED
      BY <2>4, <2>5, <2>6
  <1> QED
    BY <1>1, <1>2, <1>3, <1>4, <1>5, <1>6, <1>7, <1>8 DEF PageActs


\* Two members of a call that a step leaves the only connections of their users.
Pair(c, d) ==
    /\ OnlyConn(c) /\ OnlyConn(d) /\ Who(c) # Who(d) /\ Present(c) /\ Present(d)
    /\ sock[c].client = "open" /\ c \notin lost /\ page[c[1]].at = "call"
Seen(c, d) == Who(d) \in page[c[1]].tiles

LEMMA PairSeen ==
  ASSUME NEW c \in Conn, NEW d \in Conn
  PROVE  NewsOf(c, d) <=> (Pair(c, d) => Seen(c, d) \/ Comes(c, d) \/ Greets(c, d) \/ Greets(d, c))
  BY DEF NewsOf, Pair, Seen

LEMMA PairSeenNext ==
  ASSUME NEW c \in Conn, NEW d \in Conn
  PROVE  NewsOf(c, d)'
         <=> (Pair(c, d)' => Seen(c, d)' \/ Comes(c, d)' \/ Greets(c, d)' \/ Greets(d, c)')
  BY DEF NewsOf, Pair, Seen

\* A message that stays on its way still comes.
LEMMA StillComes ==
  ASSUME NEW c, NEW d, Comes(c, d), Within(down[c], down'[c])
  PROVE  Comes(c, d)'
  BY DEF Comes, Within, Msg, Who

LEMMA PageSeen ==
  ASSUME CallTypeOK, SocketInv, PresentInv, PageActs, NEW c \in Conn, NEW d \in Conn,
         NewsOf(c, d), OnlyConn(c), OnlyConn(d), Pair(c, d)'
  PROVE  Seen(c, d)' \/ Comes(c, d)' \/ Greets(c, d)' \/ Greets(d, c)'
  <1>t. PagesOK /\ LinksOK /\ RoomOK
    BY CallTypeParts
  <1>1. peer' = peer /\ lost' = lost
    BY PageMoves
  <1>2. /\ Present(c) /\ Present(d) /\ c \notin lost /\ Who(c) # Who(d)
        /\ sock'[c].client = "open" /\ page'[c[1]].at = "call" /\ OnlyConn(c)'
    BY <1>1 DEF Pair, Present, Who
  <1>3. sock[c].client = "open" /\ page[c[1]].at = "call" /\ (Same(c) \/ Heard(c))
    BY <1>2, PageSees
  <1>4. Seen(c, d) \/ Comes(c, d) \/ Greets(c, d) \/ Greets(d, c)
    BY <1>2, <1>3, PairSeen DEF Pair
  <1>5. CASE Greets(c, d) \/ Greets(d, c)
    BY <1>1, <1>5 DEF Greets
  <1>6. CASE Same(c) /\ (Seen(c, d) \/ Comes(c, d))
    <2>1. Seen(c, d) => Seen(c, d)'
      BY <1>6 DEF Same, Seen, Who
    <2>2. Comes(c, d) => Comes(c, d)'
      BY <1>6, WithinSelf, StillComes DEF Same
    <2> QED
      BY <1>6, <2>1, <2>2
  <1>7. CASE Heard(c) /\ (Seen(c, d) \/ Comes(c, d))
    <2> DEFINE m == Head(down[c])
               pg == page[c[1]]
               u == Who(d)
    <2>1. /\ down[c] \in Seq(News) /\ down[c] # <<>> /\ m \in News /\ m = down[c][1] /\ 1 \in DOMAIN down[c]
          /\ \A i \in DOMAIN down[c] : i # 1 => i - 1 \in DOMAIN down'[c] /\ down'[c][i - 1] = down[c][i]
      BY <1>7, <1>t DEF Heard, LinksOK
    <2>2. m # Msg("left", u)
      <3>1. OnlyOf(d) /\ OnlyConn(d) /\ peer[d].at \in {"read", "greet"}
        BY <1>2 DEF PresentInv, Present
      <3> QED
        BY <2>1, <3>1 DEF OnlyOf
    <2>3. c[1] \in Page /\ pg \in PageState /\ UserOf[c[1]] \notin pg.tiles
          /\ u \in User /\ u # UserOf[c[1]]
      BY <1>2, <1>t, PageOfConn DEF PagesOK, Who
    <2>4. page'[c[1]] = Told(pg, c[1], m)
      BY <1>7 DEF Heard
    <2> HIDE DEF m, pg, u
    <2>5. /\ m.kind = "left" => Told(pg, c[1], m).tiles = pg.tiles \ {m.who}
          /\ m.kind \in {"joined", "media"}
             => Told(pg, c[1], m).tiles = pg.tiles \cup ({m.who} \ {UserOf[c[1]]})
          /\ m.kind \notin {"left", "joined", "media"} => Told(pg, c[1], m).tiles = pg.tiles
      BY <2>1, <2>3, ToldOK
    <2>6. m.kind = "left" => m.who # u
      BY <2>1, <2>2 DEF News, Msg
    <2>7. u \in pg.tiles => u \in page'[c[1]].tiles
      BY <2>4, <2>5, <2>6
    <2>8. m \in {Msg("joined", u), Msg("media", u)} => u \in page'[c[1]].tiles
      <3>1. m \in {Msg("joined", u), Msg("media", u)} => m.kind \in {"joined", "media"} /\ m.who = u
        BY DEF Msg
      <3> QED
        BY <2>3, <2>4, <2>5, <3>1
    <2>9. Seen(c, d) => Seen(c, d)'
      BY <2>7 DEF Seen, u, pg, Who
    <2>10. Comes(c, d) => Seen(c, d)' \/ Comes(c, d)'
      <3> SUFFICES ASSUME NEW i \in DOMAIN down[c],
                          down[c][i] \in {Msg("joined", u), Msg("media", u)}
                   PROVE  Seen(c, d)' \/ Comes(c, d)'
        BY DEF Comes, u
      <3>1. CASE i = 1
        BY <2>1, <2>8, <3>1 DEF Seen, u, Who
      <3>2. CASE i # 1
        <4>1. i - 1 \in DOMAIN down'[c] /\ down'[c][i - 1] \in {Msg("joined", u), Msg("media", u)}
          BY <2>1, <3>2
        <4> QED
          BY <4>1 DEF Comes, u, Who, Msg
      <3> QED
        BY <3>1, <3>2
    <2> QED
      BY <1>7, <2>9, <2>10
  <1> QED
    BY <1>3, <1>4, <1>5, <1>6, <1>7

LEMMA InitSeen == CallInit => SeenInv
  BY DEF CallInit, SeenInv, NewsOf, Present, Idle


\* A step of the service that leaves the handlers of two members alone.
LEMMA OthersSeen ==
  ASSUME CallTypeOK, NEW c \in Conn, NEW d \in Conn, NewsOf(c, d), OnlyConn(c), OnlyConn(d), Pair(c, d)',
         Present(c), Present(d), Greets(c, d) => Greets(c, d)', Greets(d, c) => Greets(d, c)',
         page' = page, sock'[c].client = sock[c].client, c \notin lost, Within(down[c], down'[c])
  PROVE  Seen(c, d)' \/ Comes(c, d)' \/ Greets(c, d)' \/ Greets(d, c)'
  <1>1. Pair(c, d)
    BY DEF Pair, Who
  <1>2. Seen(c, d) => Seen(c, d)'
    BY DEF Seen, Who
  <1>3. Comes(c, d) => Comes(c, d)'
    BY StillComes
  <1> QED
    BY <1>1, <1>2, <1>3, PairSeen

LEMMA ServiceSeen ==
  ASSUME CallTypeOK, SocketInv, PresentInv, ServiceStep, NEW c \in Conn, NEW d \in Conn,
         NewsOf(c, d), OnlyConn(c), OnlyConn(d), Pair(c, d)'
  PROVE  Seen(c, d)' \/ Comes(c, d)' \/ Greets(c, d)' \/ Greets(d, c)'
  <1>t. PagesOK /\ LinksOK /\ RoomOK
    BY CallTypeParts
  <1>1. page' = page /\ sock'[c].client = sock[c].client /\ sock[c].client = "open"
    BY ServiceMoves DEF Pair
  <1>2. /\ Present(c)' /\ Present(d)' /\ c \notin lost' /\ Who(c) # Who(d) /\ c # d
        /\ Who(c) \in User /\ Who(d) \in User /\ c # NoConn /\ d # NoConn
    BY PageOfConn, NoConnIsNone DEF Pair, Who
  <1>m. \A x \in Conn : sock[x].server # "free"
          => (Who(x) = Who(c) => x = c) /\ (Who(x) = Who(d) => x = d)
    BY MineIsOne
  <1>o. /\ Present(c) => members[Who(c)] = c /\ sock[c].server = "open"
        /\ Present(d) => members[Who(d)] = d
    BY DEF PresentInv, OnlyOf
  \* What is enough of a step of another handler.
  <1>3. ASSUME NEW x \in Conn, x \notin {c, d}, \A y \in Conn : y # x => peer'[y] = peer[y],
               c \in lost => c \in lost', c \notin lost' => Within(down[c], down'[c])
        PROVE  Seen(c, d)' \/ Comes(c, d)' \/ Greets(c, d)' \/ Greets(d, c)'
    <2>1. peer'[c] = peer[c] /\ peer'[d] = peer[d]
      BY <1>3
    <2>2. Present(c) /\ Present(d) /\ (Greets(c, d) => Greets(c, d)') /\ (Greets(d, c) => Greets(d, c)')
      BY <1>2, <2>1 DEF Present, Greets
    <2> QED
      BY <1>1, <1>2, <1>3, <2>2, OthersSeen
  <1>4. CASE HandleJoin
    <2>1. PICK x \in Conn :
            /\ sock[x].server = "open" /\ peer[x].at = "read"
            /\ \A y \in Conn : y # x => peer'[y] = peer[y]
            /\ \/ peer'[x].at = "drop"
               \/ peer'[x] = [at |-> "greet", in |-> TRUE, todo |-> Others(Who(x), members)]
            /\ \A y \in Conn :
                  /\ y \in lost => y \in lost'
                  /\ y = x \/ Who(y) # Who(x) => (y \notin lost' => Within(down[y], down'[y]))
      BY <1>4, EntryFields
    <2>2. CASE x \notin {c, d}
      <3>1. Who(c) # Who(x)
        BY <2>1, <2>2, <1>m
      <3>2. (c \in lost => c \in lost') /\ (c \notin lost' => Within(down[c], down'[c]))
        BY <2>1, <3>1
      <3> QED
        BY <2>1, <2>2, <3>2, <1>3
    <2>3. CASE x = c
      <3>1. peer'[c] = [at |-> "greet", in |-> TRUE, todo |-> Others(Who(c), members)]
        BY <2>1, <2>3, <1>2 DEF Present
      <3>2. peer'[d] = peer[d] /\ members[Who(d)] = d
        BY <2>1, <2>3, <1>2, <1>o DEF Present
      <3>3. d \in Others(Who(c), members)
        BY <3>2, <1>2 DEF Others
      <3> QED
        BY <3>1, <3>3 DEF Greets
    <2>4. CASE x = d
      <3>1. peer'[d] = [at |-> "greet", in |-> TRUE, todo |-> Others(Who(d), members)]
        BY <2>1, <2>4, <1>2 DEF Present
      <3>2. peer'[c] = peer[c] /\ members[Who(c)] = c
        BY <2>1, <2>4, <1>2, <1>o DEF Present
      <3>3. c \in Others(Who(d), members)
        BY <3>2, <1>2 DEF Others
      <3> QED
        BY <3>1, <3>3 DEF Greets
    <2> QED
      BY <2>2, <2>3, <2>4
  <1>5. CASE Greet
    <2>1. PICK x \in Conn :
            /\ peer[x].at = "greet"
            /\ \A y \in Conn : y # x => peer'[y] = peer[y]
            /\ \/ /\ peer[x].todo = {} /\ peer'[x].at = "read" /\ peer'[x].in = peer[x].in
                  /\ down' = down /\ lost' = lost
               \/ \E e \in peer[x].todo :
                    /\ peer'[x].at = "greet" /\ peer'[x].in = peer[x].in
                    /\ peer'[x].todo = peer[x].todo \ {e}
                    /\ \A y \in Conn :
                         /\ y \in lost => y \in lost'
                         /\ y \notin lost' => Within(down[y], down'[y])
                    /\ e \notin lost' /\ Reaches(e)
                       => \E i \in DOMAIN down'[e] : down'[e][i] = Msg("joined", Who(x))
                    /\ x \notin lost' /\ Reaches(x) /\ x # e
                       => \E i \in DOMAIN down'[x] : down'[x][i] = Msg("media", Who(e))
      BY <1>5, GreetFields
    <2>2. Present(c) /\ Present(d)
      BY <2>1, <1>2 DEF Present
    <2>3. Reaches(c)
      BY <2>2, <1>1, <1>o DEF Reaches
    <2>4. CASE /\ peer[x].todo = {} /\ peer'[x].at = "read" /\ down' = down /\ lost' = lost
      <3>1. (Greets(c, d) => Greets(c, d)') /\ (Greets(d, c) => Greets(d, c)')
        BY <2>1, <2>4 DEF Greets
      <3> QED
        BY <2>2, <2>4, <3>1, <1>1, <1>2, WithinSelf, OthersSeen
    <2>5. CASE \E e \in peer[x].todo :
                    /\ peer'[x].at = "greet"
                    /\ peer'[x].todo = peer[x].todo \ {e}
                    /\ \A y \in Conn :
                         /\ y \in lost => y \in lost'
                         /\ y \notin lost' => Within(down[y], down'[y])
                    /\ e \notin lost' /\ Reaches(e)
                       => \E i \in DOMAIN down'[e] : down'[e][i] = Msg("joined", Who(x))
                    /\ x \notin lost' /\ Reaches(x) /\ x # e
                       => \E i \in DOMAIN down'[x] : down'[x][i] = Msg("media", Who(e))
      <3>1. PICK e \in peer[x].todo :
                    /\ peer'[x].at = "greet"
                    /\ peer'[x].todo = peer[x].todo \ {e}
                    /\ \A y \in Conn :
                         /\ y \in lost => y \in lost'
                         /\ y \notin lost' => Within(down[y], down'[y])
                    /\ e \notin lost' /\ Reaches(e)
                       => \E i \in DOMAIN down'[e] : down'[e][i] = Msg("joined", Who(x))
                    /\ x \notin lost' /\ Reaches(x) /\ x # e
                       => \E i \in DOMAIN down'[x] : down'[x][i] = Msg("media", Who(e))
        BY <2>5
      <3>2. CASE x = c /\ e = d
        <4>1. \E i \in DOMAIN down'[c] : down'[c][i] = Msg("media", Who(d))
          BY <3>1, <3>2, <2>3, <1>2
        <4> QED
          BY <4>1 DEF Comes, Who, Msg
      <3>3. CASE x = d /\ e = c
        <4>1. \E i \in DOMAIN down'[c] : down'[c][i] = Msg("joined", Who(d))
          BY <3>1, <3>3, <2>3, <1>2
        <4> QED
          BY <4>1 DEF Comes, Who, Msg
      <3>4. CASE ~(x = c /\ e = d) /\ ~(x = d /\ e = c)
        <4>1. (Greets(c, d) => Greets(c, d)') /\ (Greets(d, c) => Greets(d, c)')
          BY <2>1, <3>1, <3>4 DEF Greets
        <4>2. c \notin lost /\ Within(down[c], down'[c])
          BY <3>1, <1>2
        <4> QED
          BY <2>2, <4>1, <4>2, <1>1, OthersSeen
      <3> QED
        BY <3>2, <3>3, <3>4
    <2> QED
      BY <2>1, <2>4, <2>5
  <1>6. CASE SayLeft \/ CloseConn
    <2>1. PICK x \in Conn :
            /\ peer'[x].at \in {"drop", "closed"}
            /\ \A y \in Conn : y # x => peer'[y] = peer[y]
            /\ \A y \in Conn :
                  /\ y \in lost => y \in lost'
                  /\ y # x /\ y \notin lost' => Within(down[y], down'[y])
      <3>1. CASE SayLeft
        BY <3>1, SayFields
      <3>2. CASE CloseConn
        BY <3>2, CloseFields
      <3> QED
        BY <1>6, <3>1, <3>2
    <2>2. x \notin {c, d}
      BY <2>1, <1>2 DEF Present
    <2> QED
      BY <2>1, <2>2, <1>3
  <1>7. CASE HandleEnd \/ Drop
    <2>1. down' = down /\ lost' = lost
      BY <1>7, EndFields
    <2>2. PICK x \in Conn :
            /\ peer'[x].at \in {"left", "drop", "gone"}
            /\ \A y \in Conn : y # x => peer'[y] = peer[y]
      BY <1>7, EndFields
    <2>3. x \notin {c, d}
      BY <2>2, <1>2 DEF Present
    <2> QED
      BY <2>1, <2>2, <2>3, <1>3, WithinSelf
  <1> QED
    BY <1>4, <1>5, <1>6, <1>7 DEF ServiceStep

LEMMA NextSeen ==
  CallTypeOK /\ SocketInv /\ PresentInv /\ SeenInv /\ [CallNext]_callVars => SeenInv'
  <1> SUFFICES ASSUME CallTypeOK, SocketInv, PresentInv, SeenInv, [CallNext]_callVars,
                      NEW c \in Conn, NEW d \in Conn
               PROVE  NewsOf(c, d)'
    BY DEF SeenInv
  <1> SUFFICES ASSUME Pair(c, d)'
               PROVE  Seen(c, d)' \/ Comes(c, d)' \/ Greets(c, d)' \/ Greets(d, c)'
    BY PairSeenNext
  <1>1. NewsOf(c, d) /\ OnlyConn(c) /\ OnlyConn(d)
    BY OnlyBefore DEF CallActs, SeenInv, Pair
  <1>2. CASE PageActs
    BY <1>1, <1>2, PageSeen
  <1>3. CASE ServiceStep
    BY <1>1, <1>3, ServiceSeen
  <1>4. CASE UNCHANGED callVars
    <2>1. NewsOf(c, d)'
      BY <1>1, <1>4 DEF callVars, NewsOf, OnlyConn, Present, Comes, Greets, Who, Msg
    <2> QED
      BY <2>1, PairSeenNext
  <1> QED
    BY <1>2, <1>3, <1>4 DEF CallNext, PageActs

LEMMA SeenImplies == CallTypeOK /\ SeenInv => MembersAreSeen
  <1> SUFFICES ASSUME CallTypeOK, SeenInv, NEW c \in Conn, NEW d \in Conn,
                      Settled(c), Settled(d), OnlyConn(c), OnlyConn(d), Who(c) # Who(d),
                      page[c[1]].at = "call"
               PROVE  Who(d) \in page[c[1]].tiles
    BY DEF MembersAreSeen
  <1>1. NewsOf(c, d) /\ Present(c) /\ Present(d) /\ ~Greets(c, d) /\ ~Greets(d, c)
    BY DEF SeenInv, Settled, Present, Greets
  <1>2. ~Comes(c, d)
    <2>1. down[c] = <<>>
      BY DEF Settled
    <2>2. \A i \in DOMAIN <<>> : FALSE
      OBVIOUS
    <2> QED
      BY <2>1, <2>2 DEF Comes
  <1> QED
    BY <1>1, <1>2 DEF NewsOf, Settled

\* Two users who have come to a call, each by one connection, see each other, whichever
\* handler was first and in whatever order the two told: MembersAreSeen.
THEOREM MembersSeeEachOther == CallSpec => []MembersAreSeen
  BY InitSeen, NextSeen, SeenImplies, CallTypes, CallSockets, CallPresent, PTL DEF CallSpec

-----------------------------------------------------------------------------
(* The instance for TLC: its behaviours are behaviours of both modules, so   *)
(* that what is proved of each holds of what the run checks.                 *)

\* While one module runs the other stands still: a behaviour of the instance is one of
\* the chats and one of a call.
THEOREM RoomsAreBoth == MCSpec => ChatSpec /\ CallSpec
  <1>1. MCInit => ChatInit /\ CallInit
    BY DEF MCInit
  <1>2. [MCNext]_roomsVars => [ChatNext]_chatVars /\ [CallNext]_callVars
    BY DEF MCNext, roomsVars
  <1>3. QED
    BY <1>1, <1>2, PTL DEF MCSpec, ChatSpec, CallSpec

\* Whatever the chats and the call do, every variable of both stays in its domain.
THEOREM RoomsTypes == MCSpec => []RoomsTypeOK
  <1>1. ChatTypeOK /\ FormInv /\ CallTypeOK => RoomsTypeOK
    BY DEF RoomsTypeOK
  <1>2. QED
    BY <1>1, RoomsAreBoth, ChatTypes, CallTypes, PTL

=============================================================================
