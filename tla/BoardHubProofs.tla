--------------------------- MODULE BoardHubProofs ---------------------------
(* Why a client of a board hears of every change once, in order and without  *)
(* a gap: the inductive invariants of BoardHub, for any number of instances, *)
(* changes, connections and slots of a channel, and for any placement.       *)
EXTENDS BoardHub, SequenceTheorems, TLAPS

USE HubAssumption

-----------------------------------------------------------------------------
(* Operators of the model.                                                 *)

\* The queue after a delivery is the tail of the queue.
LEMMA RestIsTail ==
  ASSUME TypeOK, NEW n \in Node, bus[n] # <<>>
  PROVE  /\ bus[n] \in Seq(Change) /\ bus[n][1] \in Change
         /\ RestOfBus(n) \in Seq(Change)
         /\ DOMAIN bus[n] = 1 .. Len(bus[n]) /\ Len(bus[n]) \in Nat \ {0}
         /\ DOMAIN RestOfBus(n) = 1 .. Len(bus[n]) - 1
         /\ \A i \in 1 .. Len(bus[n]) - 1 : RestOfBus(n)[i] = bus[n][i + 1]
  <1>1. bus[n] \in Seq(Change)
    BY DEF TypeOK
  <1>2. Len(bus[n]) \in Nat \ {0} /\ DOMAIN bus[n] = 1 .. Len(bus[n]) /\ bus[n][1] \in Change
    BY <1>1, LenProperties, EmptySeq
  <1>3. SubSeq(bus[n], 1, 0) = <<>>
    BY SubSeqEmpty
  <1>4. SubSeq(bus[n], 2, Len(bus[n])) = Tail(bus[n])
    BY <1>1, TailIsSubSeq
  <1>5. /\ Tail(bus[n]) \in Seq(Change) /\ Len(Tail(bus[n])) = Len(bus[n]) - 1
        /\ \A i \in 1 .. Len(Tail(bus[n])) : Tail(bus[n])[i] = bus[n][i + 1]
    BY <1>1, HeadTailProperties
  <1>6. RestOfBus(n) = Tail(bus[n])
    BY <1>3, <1>4, <1>5, ConcatEmptySeq DEF RestOfBus, NextOnBus
  <1>7. QED
    BY <1>1, <1>2, <1>5, <1>6, LenProperties

\* What Push leaves of the channels: a message is put on the channel, or lost.
LEMMA PushType ==
  ASSUME TypeOK, NEW c \in Conn, NEW m \in SUBSET Change, Push(c, m)
  PROVE  /\ used' \in [Conn -> 0 .. Capacity] /\ lost' \in [Conn -> SUBSET Change]
         /\ \/ /\ used' = [used EXCEPT ![c] = @ + 1] /\ lost' = lost /\ used'[c] # used[c]
            \/ /\ lost' = [lost EXCEPT ![c] = @ \cup m] /\ used' = used
  <1>1. used[c] \in 0 .. Capacity /\ Capacity \in Nat
    BY DEF TypeOK
  <1>2. CASE used[c] < Capacity
    <2>1. used' = [used EXCEPT ![c] = @ + 1] /\ lost' = lost
      BY <1>2 DEF Push
    <2>2. used[c] + 1 \in 0 .. Capacity /\ used[c] + 1 # used[c]
      BY <1>1, <1>2
    <2>3. QED
      BY <2>1, <2>2 DEF TypeOK
  <1>3. CASE ~(used[c] < Capacity)
    <2>1. lost' = [lost EXCEPT ![c] = @ \cup m] /\ used' = used
      BY <1>3 DEF Push
    <2>2. QED
      BY <2>1 DEF TypeOK
  <1>4. QED
    BY <1>2, <1>3

\* A handler that goes to one of two places stays at a place of a handler.
LEMMA GotoType ==
  ASSUME TypeOK, NEW g \in Change \cup Conn, NEW l \in ConnPC \cup ChangePC, Goto(g, l)
  PROVE  /\ pc' \in [Change \cup Conn -> ConnPC \cup ChangePC] /\ pc'[g] = l
         /\ \A h \in (Change \cup Conn) \ {g} : pc'[h] = pc[h]
  BY DEF Goto, TypeOK

LEMMA ForgetType ==
  ASSUME TypeOK, NEW S, Forget(S)
  PROVE  /\ used' \in [Conn -> 0 .. Capacity] /\ log' \in [Conn -> Seq(Change)]
         /\ covered' \in [Conn -> SUBSET Change] /\ lost' \in [Conn -> SUBSET Change]
         /\ \A c \in Conn : \/ /\ c \notin S /\ log'[c] = log[c]
                               /\ covered'[c] = covered[c] /\ lost'[c] = lost[c]
                            \/ c \in S /\ log'[c] = <<>>
  BY EmptySeq DEF Forget, TypeOK

LEMMA RoomType == \A n \in Node : Room(n) \subseteq Conn
  BY DEF Room

LEMMA PresenceLeftType ==
  ASSUME TypeOK, NEW c \in Conn
  PROVE  /\ at[c] \in Node /\ PresenceLeft(c) \in SUBSET User
         /\ UserOf[c] \in User
  BY DEF TypeOK, PresenceLeft, User

-----------------------------------------------------------------------------
LEMMA InitType == Init => TypeOK
  <1> SUFFICES ASSUME Init PROVE TypeOK
    OBVIOUS
  <1>1. at \in [Change \cup Conn -> Node]
    BY DEF Init
  <1>2. pc \in [Change \cup Conn -> ConnPC \cup ChangePC]
    BY DEF Init, ConnPC, ChangePC, InRoom, ClosedChannel
  <1>3. present \in [Node -> SUBSET User]
    BY DEF Init, User
  <1>4. bus \in [Node -> Seq(Change)] /\ log \in [Conn -> Seq(Change)]
    BY EmptySeq DEF Init
  <1>5. used \in [Conn -> 0 .. Capacity] /\ asked \in 0 .. Asks
    BY DEF Init
  <1>6. QED
    BY <1>1, <1>2, <1>3, <1>4, <1>5 DEF Init, TypeOK

LEMMA SendEventType ==
  ASSUME TypeOK, NEW g \in Goroutine, NEW e \in Change, SendEvent(g, e)
  PROVE  TypeOK'
  <1>1. PICK c \in targets[g] :
          /\ Push(c, {e})
          /\ targets' = [targets EXCEPT ![g] = @ \ {c}]
          /\ log' = [log EXCEPT ![c] = IF used'[c] = used[c] THEN @ ELSE Append(@, e)]
    BY DEF SendEvent
  <1>2. c \in Conn /\ log[c] \in Seq(Change)
    BY DEF TypeOK
  <1>3. used' \in [Conn -> 0 .. Capacity] /\ lost' \in [Conn -> SUBSET Change]
    BY <1>1, <1>2, PushType
  <1>4. Append(log[c], e) \in Seq(Change)
    BY <1>2, AppendProperties
  <1>5. log' \in [Conn -> Seq(Change)]
    BY <1>1, <1>4 DEF TypeOK
  <1>6. targets' \in [Goroutine -> SUBSET Conn]
    BY <1>1 DEF TypeOK
  <1>7. QED
    BY <1>3, <1>5, <1>6, SMTT(30) DEF SendEvent, TypeOK

LEMMA LeaveType ==
  ASSUME TypeOK, NEW c \in Conn, Leave(c), targets' \in [Goroutine -> SUBSET Conn]
  PROVE  TypeOK'
  <1>1. pc' \in [Change \cup Conn -> ConnPC \cup ChangePC]
    BY DEF Leave, Goto, TypeOK, ConnPC, ClosedChannel
  <1>2. present' \in [Node -> SUBSET User]
    BY PresenceLeftType DEF Leave, TypeOK
  <1>3. QED
    BY <1>1, <1>2, ForgetType DEF Leave, TypeOK

LEMMA ChangeType ==
  ASSUME TypeOK, NEW e \in Change, CommitChange(e) \/ PublishStep(e)
  PROVE  TypeOK'
  <1> USE DEF Goto, hub, channels, history
  <1>1. /\ "committed" \in ChangePC /\ "sending" \in ChangePC
        /\ "done" \in ChangePC /\ "aborted" \in ChangePC
    BY DEF ChangePC
  <1>2. CASE CommitChange(e)
    BY <1>1, <1>2 DEF CommitChange, TypeOK
  <1>3. CASE PublishLocal(e)
    BY <1>1, <1>3, RoomType DEF PublishLocal, Audience, TypeOK, Goroutine, Room
  <1>4. CASE SendLocal(e)
    BY <1>4, SendEventType DEF SendLocal, Goroutine
  <1>5. CASE PublishRedis(e)
    <2>1. pc' \in [Change \cup Conn -> ConnPC \cup ChangePC]
      BY <1>1, <1>5 DEF PublishRedis, TypeOK
    <2>2. bus' \in [Node -> Seq(Change)]
      <3>1. \A n \in Node : Append(bus[n], e) \in Seq(Change) /\ bus[n] \in Seq(Change)
        BY AppendProperties DEF TypeOK
      <3>2. \/ bus' = [n \in Node |-> IF n \in up THEN Append(bus[n], e) ELSE bus[n]]
            \/ bus' = bus
        BY <1>5 DEF PublishRedis
      <3>3. CASE bus' = bus
        BY <3>3 DEF TypeOK
      <3>4. CASE bus' = [n \in Node |-> IF n \in up THEN Append(bus[n], e) ELSE bus[n]]
        BY <3>1, <3>4
      <3>5. QED
        BY <3>2, <3>3, <3>4
    <2>3. unrelayed' \subseteq Change
      BY <1>5 DEF PublishRedis, TypeOK
    <2>4. QED
      BY <1>5, <2>1, <2>2, <2>3 DEF PublishRedis, TypeOK
  <1>6. CASE PanicInPublish(e)
    BY <1>1, <1>6 DEF PanicInPublish, TypeOK
  <1>7. QED
    BY <1>2, <1>3, <1>4, <1>5, <1>6 DEF PublishStep

LEMMA NodeType ==
  ASSUME TypeOK, NEW n \in Node, Receive(n) \/ SendRelayed(n) \/ PanicInRelay(n)
  PROVE  TypeOK'
  <1> USE DEF hub, channels, history
  <1>1. CASE Receive(n)
    <2>1. bus[n][1] \in Change /\ RestOfBus(n) \in Seq(Change)
      BY <1>1, RestIsTail DEF Receive
    <2>2. /\ relay' = [relay EXCEPT ![n] = bus[n][1]]
          /\ targets' = [targets EXCEPT ![n] = IF Relays(n, bus[n][1])
                                               THEN Audience(n, bus[n][1]) ELSE {}]
          /\ bus' = [bus EXCEPT ![n] = RestOfBus(n)]
      BY <1>1 DEF Receive, NextOnBus
    <2>3. Audience(n, bus[n][1]) \subseteq Conn
      BY DEF Audience, Room
    <2>4. /\ relay' \in [Node -> Change \cup {Nothing}] /\ bus' \in [Node -> Seq(Change)]
          /\ targets' \in [Goroutine -> SUBSET Conn]
      BY <2>1, <2>2, <2>3 DEF TypeOK
    <2>5. QED
      BY <1>1, <2>4 DEF Receive, TypeOK
  <1>2. CASE SendRelayed(n)
    BY <1>2, SendEventType DEF SendRelayed, Goroutine, TypeOK
  <1>3. CASE PanicInRelay(n)
    <2> USE <1>3 DEF PanicInRelay, Die
    <2>1. pc' \in [Change \cup Conn -> ConnPC \cup ChangePC]
      BY DEF TypeOK, ConnPC, ChangePC, ClosedChannel
    <2>2. targets' \in [Goroutine -> SUBSET Conn] /\ present' \in [Node -> SUBSET User]
      BY DEF TypeOK
    <2>3. bus' \in [Node -> Seq(Change)] /\ up' \subseteq Node
      BY EmptySeq DEF TypeOK
    <2>4. QED
      BY <2>1, <2>2, <2>3, ForgetType DEF TypeOK
  <1>4. QED
    BY <1>1, <1>2, <1>3

LEMMA ConnType ==
  ASSUME TypeOK, NEW c \in Conn,
         \/ Register(c) \/ TouchPresence(c) \/ BroadcastPresence(c)
         \/ SendPresence(c) \/ ReadBoard(c) \/ SendSnapshot(c) \/ Resync(c)
         \/ Unregister(c) \/ PanicInPresence(c) \/ TakeOut(c)
  PROVE  TypeOK'
  <1> USE DEF Goto, hub, channels, history, Goroutine
  <1>1. /\ at[c] \in Node /\ UserOf[c] \in User
        /\ {"joined", "reading", "loaded", "open", "touched", "leaked", "gone"} \subseteq ConnPC
    BY DEF TypeOK, User, ConnPC, InRoom, ClosedChannel
  <1>2. CASE Register(c)
    BY <1>1, <1>2 DEF Register, TypeOK
  <1>3. CASE TouchPresence(c)
    BY <1>1, <1>3 DEF TouchPresence, TypeOK
  <1>4. CASE BroadcastPresence(c)
    BY <1>1, <1>4 DEF BroadcastPresence, AfterPresence, Room, TypeOK
  <1>5. CASE SendPresence(c)
    <2>1. PICK d \in targets[c] : Push(d, {}) /\ targets' = [targets EXCEPT ![c] = @ \ {d}]
      BY <1>5 DEF SendPresence
    <2>2. d \in Conn
      BY DEF TypeOK
    <2>3. used' \in [Conn -> 0 .. Capacity] /\ lost' \in [Conn -> SUBSET Change]
      BY <2>1, <2>2, PushType
    <2>4. targets' \in [Goroutine -> SUBSET Conn]
      BY <2>1 DEF TypeOK
    <2>5. QED
      BY <1>5, <2>3, <2>4 DEF SendPresence, TypeOK
  <1>6. CASE ReadBoard(c)
    <2>1. Committed \subseteq Change /\ \A p \in Page : p \subseteq Change
      BY DEF Committed, Page
    <2>2. CASE /\ \E p \in Page : board' = [board EXCEPT ![c] = p]
               /\ Goto(c, "loaded") /\ UNCHANGED lost
      BY <1>1, <1>6, <2>1, <2>2 DEF ReadBoard, TypeOK
    <2>3. CASE /\ lost' = [lost EXCEPT ![c] = @ \cup Committed]
               /\ Goto(c, "open") /\ UNCHANGED board
      BY <1>1, <1>6, <2>1, <2>3 DEF ReadBoard, TypeOK
    <2>4. QED
      BY <1>6, <2>2, <2>3 DEF ReadBoard
  <1>7. CASE SendSnapshot(c)
    <2>1. board[c] \in SUBSET Change
      BY DEF TypeOK
    <2>2. used' \in [Conn -> 0 .. Capacity] /\ lost' \in [Conn -> SUBSET Change]
      BY <1>7, <2>1, PushType DEF SendSnapshot
    <2>3. covered' \in [Conn -> SUBSET Change] /\ board' \in [Conn -> SUBSET Change]
      BY <1>7, <2>1 DEF SendSnapshot, TypeOK
    <2>4. pc' \in [Change \cup Conn -> ConnPC \cup ChangePC]
      BY <1>1, <1>7 DEF SendSnapshot, TypeOK
    <2>5. QED
      BY <1>7, <2>2, <2>3, <2>4 DEF SendSnapshot, TypeOK
  <1>8. CASE Resync(c)
    BY <1>1, <1>8 DEF Resync, TypeOK
  <1>9. CASE Unregister(c)
    BY <1>9, LeaveType DEF Unregister, TypeOK
  <1>10. CASE PanicInPresence(c)
    <2>1. targets' \in [Goroutine -> SUBSET Conn]
      BY <1>10 DEF PanicInPresence, TypeOK
    <2>2. CASE pc[c] = "open"
      BY <1>10, <2>1, <2>2, LeaveType DEF PanicInPresence
    <2>3. CASE pc[c] # "open"
      <3>1. Goto(c, IF pc[c] = "reading" THEN "leaked" ELSE "gone")
        BY <1>10, <2>3 DEF PanicInPresence
      <3>2. pc' \in [Change \cup Conn -> ConnPC \cup ChangePC]
        BY <1>1, <3>1, GotoType
      <3>3. QED
        BY <1>10, <2>1, <2>3, <3>2 DEF PanicInPresence, TypeOK
    <2>4. QED
      BY <2>2, <2>3
  <1>11. CASE TakeOut(c)
    BY <1>11 DEF TakeOut, TypeOK
  <1>12. QED
    BY <1>2, <1>3, <1>4, <1>5, <1>6, <1>7, <1>8, <1>9, <1>10, <1>11

LEMMA NextType == TypeOK /\ [Next]_vars => TypeOK'
  <1> SUFFICES ASSUME TypeOK, [Next]_vars PROVE TypeOK'
    OBVIOUS
  <1>1. CASE UNCHANGED vars
    BY <1>1 DEF vars, hub, channels, history, TypeOK
  <1>2. QED
    BY <1>1, ChangeType, NodeType, ConnType DEF Next

\* Every variable of the hub stays in its domain: no channel of a client ever holds
\* more than its slots.
THEOREM HubTypes == Spec => []TypeOK
  BY InitType, NextType, PTL DEF Spec

-----------------------------------------------------------------------------
(* What each goroutine leaves alone.                                       *)

LEMMA ChangeFrame ==
  ASSUME TypeOK, NEW e \in Change, CommitChange(e) \/ PublishStep(e)
  PROVE  /\ at' = at /\ up' = up /\ present' = present /\ relay' = relay
         /\ board' = board /\ covered' = covered
         /\ \A h \in (Change \cup Conn) \ {e} : pc'[h] = pc[h]
         /\ \A g \in Goroutine \ {e} : targets'[g] = targets[g]
         /\ pc'[e] # "idle"
  <1> USE DEF Goto, hub, channels, history, Goroutine
  <1>1. CASE CommitChange(e)
    BY <1>1 DEF CommitChange, TypeOK
  <1>2. CASE PublishLocal(e)
    BY <1>2 DEF PublishLocal, TypeOK
  <1>3. CASE SendLocal(e)
    BY <1>3 DEF SendLocal, SendEvent, TypeOK
  <1>4. CASE PublishRedis(e)
    BY <1>4 DEF PublishRedis, TypeOK
  <1>5. CASE PanicInPublish(e)
    BY <1>5 DEF PanicInPublish, TypeOK
  <1>6. QED
    BY <1>1, <1>2, <1>3, <1>4, <1>5 DEF PublishStep

LEMMA NodeFrame ==
  ASSUME TypeOK, NEW n \in Node, Receive(n) \/ SendRelayed(n)
  PROVE  /\ at' = at /\ up' = up /\ present' = present /\ pc' = pc
         /\ board' = board /\ covered' = covered /\ before' = before
         /\ unrelayed' = unrelayed
         /\ \A g \in Goroutine \ {n} : targets'[g] = targets[g]
         /\ \A m \in Node \ {n} : relay'[m] = relay[m] /\ bus'[m] = bus[m]
  <1> USE DEF hub, channels, history, Goroutine
  <1>1. CASE Receive(n)
    BY <1>1 DEF Receive, TypeOK
  <1>2. CASE SendRelayed(n)
    BY <1>2 DEF SendRelayed, SendEvent, TypeOK
  <1>3. QED
    BY <1>1, <1>2

ConnStep(c) ==
    \/ Register(c) \/ TouchPresence(c) \/ BroadcastPresence(c)
    \/ SendPresence(c) \/ ReadBoard(c) \/ SendSnapshot(c) \/ Resync(c)
    \/ Unregister(c) \/ PanicInPresence(c) \/ TakeOut(c)

LEMMA ConnFrame ==
  ASSUME TypeOK, NEW c \in Conn, ConnStep(c)
  PROVE  /\ at' = at /\ up' = up /\ relay' = relay /\ bus' = bus
         /\ before' = before /\ unrelayed' = unrelayed
         /\ \A h \in (Change \cup Conn) \ {c} : pc'[h] = pc[h]
         /\ \A g \in Goroutine \ {c} : targets'[g] = targets[g]
  <1> USE DEF Goto, hub, channels, history, Goroutine
  <1>1. CASE Register(c) \/ TouchPresence(c) \/ BroadcastPresence(c)
    BY <1>1 DEF Register, TouchPresence, BroadcastPresence, TypeOK
  <1>2. CASE SendPresence(c) \/ TakeOut(c) \/ Resync(c)
    BY <1>2 DEF SendPresence, TakeOut, Resync, TypeOK
  <1>3. CASE ReadBoard(c) \/ SendSnapshot(c)
    BY <1>3 DEF ReadBoard, SendSnapshot, TypeOK
  <1>4. CASE Unregister(c)
    BY <1>4 DEF Unregister, Leave, TypeOK
  <1>5. CASE PanicInPresence(c)
    BY <1>5 DEF PanicInPresence, Leave, TypeOK
  <1>6. QED
    BY <1>1, <1>2, <1>3, <1>4, <1>5 DEF ConnStep

LEMMA DieFrame ==
  ASSUME TypeOK, NEW n \in Node, PanicInRelay(n)
  PROVE  /\ at' = at /\ up' = up \ {n} /\ relay' = relay /\ before' = before
         /\ unrelayed' = unrelayed /\ board' = board
         /\ \A m \in Node : /\ bus'[m] = IF m = n THEN <<>> ELSE bus[m]
                            /\ present'[m] = IF m = n THEN {} ELSE present[m]
         /\ \A h \in Change \cup Conn : at[h] # n => pc'[h] = pc[h]
         /\ \A c \in Conn : at[c] = n => pc'[c] = "gone"
         /\ \A e \in Change : at[e] = n =>
               pc'[e] = IF pc[e] \in {"committed", "sending"} THEN "aborted" ELSE pc[e]
         /\ targets'[n] = {}
         /\ \A h \in Change \cup Conn :
               targets'[h] = IF at[h] = n THEN {} ELSE targets[h]
         /\ \A m \in Node \ {n} : targets'[m] = targets[m]
  BY DEF PanicInRelay, Die, Goroutine, TypeOK

LEMMA DieForgets ==
  ASSUME NEW n \in Node, PanicInRelay(n)
  PROVE  Forget({c \in Conn : at[c] = n})
  BY DEF PanicInRelay, Die

\* Where the handler of a websocket can go in a step of its own.
LEMMA PlaceOfConn ==
  ASSUME TypeOK, Handlers, NEW c \in Conn, ConnStep(c)
  PROVE  \/ Register(c) /\ pc[c] = "off" /\ pc'[c] = "joined"
         \/ Leave(c) /\ pc[c] = "open" /\ pc'[c] = "closed" /\ targets'[c] = {}
         \/ /\ pc[c] \in InRoom <=> pc'[c] \in InRoom
            /\ present' = present \/ TouchPresence(c)
  <1> USE DEF Goto, hub, InRoom, Reached
  <1>1. CASE Register(c)
    BY <1>1 DEF Register, TypeOK
  <1>2. CASE TouchPresence(c)
    BY <1>2 DEF TouchPresence, TypeOK
  <1>3. CASE BroadcastPresence(c)
    BY <1>3 DEF BroadcastPresence, Announcing, AfterPresence, TypeOK
  <1>4. CASE SendPresence(c) \/ TakeOut(c) \/ Resync(c)
    BY <1>4 DEF SendPresence, TakeOut, Resync, TypeOK
  <1>5. CASE ReadBoard(c)
    BY <1>5 DEF ReadBoard, TypeOK
  <1>6. CASE SendSnapshot(c)
    BY <1>6 DEF SendSnapshot, TypeOK
  <1>7. CASE Unregister(c)
    BY <1>7 DEF Unregister, Leave, TypeOK
  <1>8. CASE PanicInPresence(c)
    <2>1. pc[c] \in {"reading", "open", "gone"} /\ targets'[c] = {}
      BY <1>8 DEF PanicInPresence, MeetsClosed, Handlers, HandlerOf, TypeOK, Goroutine
    <2>2. CASE pc[c] = "open"
      BY <1>8, <2>1, <2>2 DEF PanicInPresence, Leave, TypeOK
    <2>3. CASE pc[c] # "open"
      BY <1>8, <2>1, <2>3 DEF PanicInPresence, TypeOK
    <2>4. QED
      BY <2>2, <2>3
  <1>9. QED
    BY <1>1, <1>2, <1>3, <1>4, <1>5, <1>6, <1>7, <1>8 DEF ConnStep

LEMMA InitHandlers == Init => Handlers
  BY DEF Init, Handlers, HandlerOf, Goroutine

LEMMA ConnHandlers ==
  ASSUME TypeOK, Handlers, NEW c \in Conn, ConnStep(c)
  PROVE  Handlers'
  <1>1. \A d \in Conn \ {c} : HandlerOf(d)'
    BY ConnFrame DEF Handlers, HandlerOf, Goroutine
  <1>2. pc'[c] \in InRoom => at'[c] \in up'
    <2>1. CASE Register(c)
      BY <2>1 DEF Register, NodesUp, hub
    <2>2. CASE pc[c] \in InRoom
      BY <2>2, ConnFrame DEF Handlers, HandlerOf
    <2>3. CASE pc'[c] = "closed"
      BY <2>3 DEF InRoom
    <2>4. QED
      BY <2>1, <2>2, <2>3, PlaceOfConn
  <1>3. targets'[c] # {} => pc'[c] \in {"reading", "open", "gone"}
    <2> USE DEF Goto, hub, Reached, Goroutine, Handlers, HandlerOf
    <2>1. CASE Register(c) \/ TouchPresence(c) \/ Resync(c)
      BY <2>1 DEF Register, TouchPresence, Resync, TypeOK
    <2>2. CASE BroadcastPresence(c)
      BY <2>2 DEF BroadcastPresence, Announcing, AfterPresence, TypeOK
    <2>3. CASE SendPresence(c) \/ TakeOut(c)
      BY <2>3 DEF SendPresence, TakeOut, TypeOK
    <2>4. CASE ReadBoard(c) \/ SendSnapshot(c)
      BY <2>4 DEF ReadBoard, SendSnapshot, TypeOK
    <2>5. CASE Unregister(c)
      BY <2>5 DEF Unregister
    <2>6. CASE PanicInPresence(c)
      BY <2>6 DEF PanicInPresence, TypeOK
    <2>7. QED
      BY <2>1, <2>2, <2>3, <2>4, <2>5, <2>6 DEF ConnStep
  <1>4. QED
    BY <1>1, <1>2, <1>3 DEF Handlers, HandlerOf

LEMMA NextHandlers == TypeOK /\ Handlers /\ [Next]_vars => Handlers'
  <1> SUFFICES ASSUME TypeOK, Handlers, [Next]_vars PROVE Handlers'
    OBVIOUS
  <1>1. CASE UNCHANGED vars
    BY <1>1 DEF vars, hub, Handlers, HandlerOf
  <1>2. ASSUME NEW e \in Change, CommitChange(e) \/ PublishStep(e) PROVE Handlers'
    BY <1>2, ChangeFrame DEF Handlers, HandlerOf, Goroutine
  <1>3. ASSUME NEW n \in Node, Receive(n) \/ SendRelayed(n) PROVE Handlers'
    BY <1>3, NodeFrame DEF Handlers, HandlerOf, Goroutine
  <1>4. ASSUME NEW n \in Node, PanicInRelay(n) PROVE Handlers'
    BY <1>4, DieFrame DEF Handlers, HandlerOf, InRoom
  <1>5. ASSUME NEW c \in Conn, ConnStep(c) PROVE Handlers'
    BY <1>5, ConnHandlers
  <1>6. QED
    BY <1>1, <1>2, <1>3, <1>4, <1>5 DEF Next, ConnStep

-----------------------------------------------------------------------------
(* Presence.                                                               *)

LEMMA InitPresence == Init => PresenceHasClient
  <1> SUFFICES ASSUME Init, NEW n \in Node, NEW u \in present[n]
               PROVE  \E c \in Room(n) : UserOf[c] = u
    BY DEF PresenceHasClient
  <1>1. PICK c \in Connected : at[c] = n /\ u = UserOf[c]
    BY DEF Init
  <1>2. c \in Room(n)
    BY <1>1 DEF Init, Room, InRoom
  <1>3. QED
    BY <1>1, <1>2

\* Rooms that nobody leaves keep whoever is present.
LEMMA PresenceKept2 ==
  ASSUME TypeOK, PresenceHasClient, at' = at, NEW n \in Node, present'[n] = present[n],
         \A c \in Conn : at[c] = n /\ pc[c] \in InRoom => pc'[c] \in InRoom
  PROVE  \A u \in present'[n] : \E c \in Room(n)' : UserOf[c] = u
  BY DEF PresenceHasClient, Room

LEMMA ConnPresence ==
  ASSUME TypeOK, Handlers, PresenceHasClient, NEW c \in Conn, ConnStep(c)
  PROVE  PresenceHasClient'
  <1>1. ASSUME NEW n \in Node
        PROVE  \A u \in present'[n] : \E d \in Room(n)' : UserOf[d] = u
    <2>1. at' = at /\ \A d \in Conn \ {c} : pc'[d] = pc[d]
      BY ConnFrame
    <2>2. CASE Register(c) \/ TouchPresence(c)
      <3>1. present'[n] \subseteq present[n] \cup (IF at[c] = n THEN {UserOf[c]} ELSE {})
        <4>1. present' = [present EXCEPT ![at[c]] = @ \cup {UserOf[c]}]
          BY <2>2 DEF Register, TouchPresence
        <4>2. QED
          BY <4>1 DEF TypeOK
      <3>2. pc'[c] \in InRoom
        BY <2>2 DEF Register, TouchPresence, Goto, TypeOK, InRoom
      <3>3. Room(n) \subseteq Room(n)' /\ (at[c] = n => c \in Room(n)')
        BY <2>1, <3>2 DEF Room
      <3>4. QED
        BY <3>1, <3>3 DEF PresenceHasClient
    <2>3. CASE Leave(c) /\ pc'[c] = "closed"
      <3>1. present'[n] = IF at[c] = n THEN present[n] \ {UserOf[c]} ELSE present[n]
        BY <2>3 DEF Leave, PresenceLeft, TypeOK
      <3>2. Room(n) \ {c} \subseteq Room(n)' /\ (at[c] # n => c \notin Room(n))
        BY <2>1 DEF Room
      <3>3. ASSUME NEW u \in present'[n] PROVE \E d \in Room(n)' : UserOf[d] = u
        <4>1. u \in present[n] /\ (at[c] = n => u # UserOf[c])
          BY <3>1
        <4>2. PICK d \in Room(n) : UserOf[d] = u
          BY <4>1 DEF PresenceHasClient
        <4>3. QED
          BY <3>2, <4>1, <4>2
      <3>4. QED
        BY <3>3
    <2>4. CASE (pc[c] \in InRoom <=> pc'[c] \in InRoom) /\ present' = present
      BY <2>1, <2>4, PresenceKept2
    <2>5. QED
      BY <2>2, <2>3, <2>4, PlaceOfConn
  <1>2. QED
    BY <1>1 DEF PresenceHasClient

LEMMA NextPresence ==
  TypeOK /\ Handlers /\ PresenceHasClient /\ [Next]_vars => PresenceHasClient'
  <1> SUFFICES ASSUME TypeOK, Handlers, PresenceHasClient, [Next]_vars
               PROVE  PresenceHasClient'
    OBVIOUS
  <1>1. CASE UNCHANGED vars
    BY <1>1 DEF vars, hub, PresenceHasClient, Room
  <1>2. ASSUME NEW e \in Change, CommitChange(e) \/ PublishStep(e) PROVE PresenceHasClient'
    <2>1. at' = at /\ present' = present /\ \A c \in Conn : pc'[c] = pc[c]
      BY <1>2, ChangeFrame
    <2>2. QED
      BY <2>1 DEF PresenceHasClient, Room
  <1>3. ASSUME NEW n \in Node, Receive(n) \/ SendRelayed(n) PROVE PresenceHasClient'
    BY <1>3, NodeFrame, PresenceKept2 DEF PresenceHasClient
  <1>4. ASSUME NEW n \in Node, PanicInRelay(n) PROVE PresenceHasClient'
    <2>1. present'[n] = {}
      BY <1>4, DieFrame DEF TypeOK
    <2>2. ASSUME NEW m \in Node \ {n}
          PROVE  \A u \in present'[m] : \E c \in Room(m)' : UserOf[c] = u
      <3>1. present'[m] = present[m] /\ at' = at
        BY <1>4, DieFrame DEF TypeOK
      <3>2. \A c \in Conn : at[c] = m => pc'[c] = pc[c]
        BY <1>4, DieFrame
      <3>3. QED
        BY <3>1, <3>2, PresenceKept2
    <2>3. QED
      BY <2>1, <2>2 DEF PresenceHasClient
  <1>5. ASSUME NEW c \in Conn, ConnStep(c) PROVE PresenceHasClient'
    BY <1>5, ConnPresence
  <1>6. QED
    BY <1>1, <1>2, <1>3, <1>4, <1>5 DEF Next, ConnStep

LEMMA HubHandlers == Spec => []Handlers
  BY InitHandlers, NextHandlers, HubTypes, PTL DEF Spec

\* The presence list of an instance names nobody who has no connection to it, for any
\* number of tabs, pings, panics and instances.
THEOREM PresenceIsReal == Spec => []PresenceHasClient
  BY InitPresence, NextPresence, HubTypes, HubHandlers, PTL DEF Spec
-----------------------------------------------------------------------------
(* The way of an event: from the commit to the channels of the clients.    *)

LEMMA SeqFacts ==
  ASSUME TypeOK
  PROVE  /\ \A n \in Node : /\ bus[n] \in Seq(Change) /\ Len(bus[n]) \in Nat
                            /\ DOMAIN bus[n] = 1 .. Len(bus[n])
                            /\ \A i \in DOMAIN bus[n] : bus[n][i] \in Change
         /\ \A c \in Conn : /\ log[c] \in Seq(Change) /\ Len(log[c]) \in Nat
                            /\ DOMAIN log[c] = 1 .. Len(log[c])
                            /\ \A i \in DOMAIN log[c] : log[c][i] \in Change /\ i \in Nat
         /\ \A h \in Change \cup Conn : at[h] \in Node
  BY LenProperties, ElementOfSeq DEF TypeOK

\* One more element at the end of a sequence.
LEMMA AppendFacts ==
  ASSUME NEW s \in Seq(Change), NEW e \in Change, NEW t, t = Append(s, e)
  PROVE  /\ DOMAIN t = 1 .. Len(s) + 1 /\ DOMAIN s = 1 .. Len(s) /\ Len(s) \in Nat
         /\ \A i \in DOMAIN t :
               \/ i \in DOMAIN s /\ t[i] = s[i]
               \/ i = Len(s) + 1 /\ t[i] = e
  BY AppendProperties, LenProperties

LEMMA InitFlow == Init => FlowInv
  <1> SUFFICES ASSUME Init PROVE FlowInv
    OBVIOUS
  <1>1. \A c \in Conn : DOMAIN log[c] = {}
    BY EmptySeq, LenProperties DEF Init
  <1>2. \A n \in Node : DOMAIN bus[n] = {} /\ targets[n] = {}
    BY EmptySeq, LenProperties DEF Init, Goroutine
  <1>3. \A e \in Change : targets[e] = {} /\ before[e] = {}
    BY DEF Init, Goroutine
  <1>4. (\A c \in Conn : StreamOf(c)) /\ AtMostOnce /\ SameNodeOrder
    BY <1>1 DEF StreamOf, AtMostOnce, IsInjective, SameNodeOrder
  <1>5. \A e \in Change : PublicationOf(e)
    BY <1>3 DEF PublicationOf
  <1>6. \A n \in Node : SubscriberOf(n)
    BY <1>2 DEF SubscriberOf
  <1>7. QED
    BY <1>4, <1>5, <1>6 DEF FlowInv

\* Steps that take away: targets, queues, logs, publications that are given up.
LEMMA QuietFlow ==
  ASSUME TypeOK, FlowInv, at' = at, before' = before, relay' = relay,
         \A n \in Node : bus'[n] = bus[n] \/ bus'[n] = <<>>,
         \A e \in Change : \/ pc'[e] = pc[e] /\ targets'[e] \subseteq targets[e]
                           \/ /\ pc[e] \in {"committed", "sending"} /\ pc'[e] = "aborted"
                              /\ targets'[e] = {},
         \A n \in Node : targets'[n] \subseteq targets[n],
         \A c \in Conn : log'[c] = log[c] \/ log'[c] = <<>>
  PROVE  FlowInv'
  <1>0. DOMAIN <<>> = {}
    BY EmptySeq, LenProperties
  <1>1. \A n \in Node : \A i \in DOMAIN bus'[n] : i \in DOMAIN bus[n] /\ bus'[n][i] = bus[n][i]
    BY <1>0
  <1>2. \A c \in Conn : \A i \in DOMAIN log'[c] : i \in DOMAIN log[c] /\ log'[c][i] = log[c][i]
    BY <1>0
  <1>3. ASSUME NEW e \in Change PROVE PublicationOf(e)'
    <2>1. PublicationOf(e) /\ before[e] \subseteq Change
      BY DEF FlowInv, TypeOK
    <2>2. \A f \in before[e] : f # e /\ at[f] = at[e] /\ pc'[f] = "done"
      BY <2>1 DEF PublicationOf
    <2>3. targets'[e] # {} => pc'[e] = "sending"
      BY <2>1 DEF PublicationOf
    <2>4. \A c \in targets'[e] : at[c] = at[e]
      BY <2>1 DEF PublicationOf
    <2>5. pc'[e] = "idle" => before[e] = {}
      BY <2>1 DEF PublicationOf
    <2>6. QED
      BY <2>2, <2>3, <2>4, <2>5 DEF PublicationOf
  <1>4. ASSUME NEW n \in Node PROVE SubscriberOf(n)'
    <2>1. \A i \in DOMAIN bus[n] : bus[n][i] \in Change
      BY SeqFacts
    <2>2. SubscriberOf(n)
      BY DEF FlowInv
    <2>3. QED
      BY <1>1, <2>1, <2>2 DEF SubscriberOf
  <1>5. ASSUME NEW c \in Conn PROVE StreamOf(c)'
    <2>1. at[c] \in Node /\ \A i \in DOMAIN log[c] : log[c][i] \in Change
      BY SeqFacts
    <2>2. StreamOf(c)
      BY DEF FlowInv
    <2>3. ASSUME NEW e \in Change, OnItsWay(e, c)' PROVE OnItsWay(e, c)
      BY <1>1, <2>1, <2>3 DEF OnItsWay, Range
    <2>4. ASSUME NEW e \in Change, pc[e] # "idle" PROVE pc'[e] # "idle"
      BY <2>4
    <2>5. QED
      BY <1>1, <1>2, <2>1, <2>2, <2>3, <2>4 DEF StreamOf
  <1>6. AtMostOnce'
    BY <1>2 DEF FlowInv, AtMostOnce, IsInjective
  <1>7. SameNodeOrder'
    BY <1>2 DEF FlowInv, SameNodeOrder
  <1>8. QED
    BY <1>3, <1>4, <1>5, <1>6, <1>7 DEF FlowInv

LEMMA CommitFlow == ASSUME TypeOK, FlowInv, NEW e \in Change, CommitChange(e) PROVE FlowInv'
  <1>1. /\ pc[e] = "idle" /\ pc'[e] = "committed"
        /\ \A f \in Change \ {e} : pc'[f] = pc[f] /\ before'[f] = before[f]
        /\ before'[e] = {f \in Change : pc[f] = "done" /\ at[f] = at[e]}
        /\ at' = at /\ targets' = targets /\ relay' = relay /\ bus' = bus /\ log' = log
    BY DEF CommitChange, Goto, TypeOK, hub, channels, history
  <1>2. ASSUME NEW f \in Change PROVE PublicationOf(f)'
    <2>1. PublicationOf(f) /\ before[f] \subseteq Change /\ targets[f] \subseteq Conn
      BY DEF FlowInv, TypeOK, Goroutine
    <2>2. QED
      BY <1>1, <2>1 DEF PublicationOf
  <1>3. ASSUME NEW n \in Node PROVE SubscriberOf(n)'
    <2>1. SubscriberOf(n) /\ \A i \in DOMAIN bus[n] : bus[n][i] \in Change
      BY SeqFacts DEF FlowInv
    <2>2. QED
      BY <1>1, <2>1 DEF SubscriberOf
  <1>4. ASSUME NEW c \in Conn PROVE StreamOf(c)'
    <2>1. StreamOf(c) /\ at[c] \in Node /\ \A i \in DOMAIN log[c] : log[c][i] \in Change
      BY SeqFacts DEF FlowInv
    <2>2. \A f \in Change \ {e} : OnItsWay(f, c)' <=> OnItsWay(f, c)
      BY <1>1 DEF OnItsWay
    <2>3. QED
      BY <1>1, <2>1, <2>2 DEF StreamOf
  <1>5. SameNodeOrder'
    <2>1. \A c \in Conn : \A i \in DOMAIN log[c] : log[c][i] \in Change \ {e}
      BY <1>1, SeqFacts DEF FlowInv, StreamOf
    <2>2. QED
      BY <1>1, <2>1 DEF FlowInv, SameNodeOrder
  <1>6. QED
    BY <1>1, <1>2, <1>3, <1>4, <1>5 DEF FlowInv, AtMostOnce

\* While a change is only committed, it is in no log.
LEMMA PublishLocalFlow ==
  ASSUME TypeOK, FlowInv, NEW e \in Change, PublishLocal(e)
  PROVE  FlowInv'
  <1>1. /\ pc[e] = "committed" /\ pc'[e] = "sending"
        /\ \A f \in Change \ {e} : pc'[f] = pc[f] /\ targets'[f] = targets[f]
        /\ \A n \in Node : targets'[n] = targets[n]
        /\ targets'[e] = Audience(at[e], e)
        /\ at' = at /\ before' = before /\ relay' = relay /\ bus' = bus /\ log' = log
    BY DEF PublishLocal, Goto, TypeOK, channels, history, Goroutine
  <1>2. ASSUME NEW f \in Change PROVE PublicationOf(f)'
    <2>1. PublicationOf(f) /\ before[f] \subseteq Change
      BY DEF FlowInv, TypeOK
    <2>2. \A c \in targets'[e] : at[c] = at[e]
      BY <1>1 DEF Audience, Room
    <2>3. QED
      BY <1>1, <2>1, <2>2 DEF PublicationOf
  <1>3. ASSUME NEW n \in Node PROVE SubscriberOf(n)'
    <2>1. SubscriberOf(n) /\ \A i \in DOMAIN bus[n] : bus[n][i] \in Change
      BY SeqFacts DEF FlowInv
    <2>2. QED
      BY <1>1, <2>1 DEF SubscriberOf
  <1>4. ASSUME NEW c \in Conn PROVE StreamOf(c)'
    <2>1. StreamOf(c) /\ at[c] \in Node /\ \A i \in DOMAIN log[c] : log[c][i] \in Change
      BY SeqFacts DEF FlowInv
    <2>2. \A f \in Change \ {e} : OnItsWay(f, c)' <=> OnItsWay(f, c)
      BY <1>1, <2>1 DEF OnItsWay
    <2>3. OnItsWay(e, c)
      BY <1>1 DEF OnItsWay
    <2>4. QED
      BY <1>1, <2>1, <2>2, <2>3 DEF StreamOf
  <1>5. QED
    BY <1>1, <1>2, <1>3, <1>4 DEF FlowInv, AtMostOnce, SameNodeOrder

\* A goroutine sends event e to one of its targets: a publication to clients of its own
\* instance, or a subscriber to clients of its own what it relays.
LEMMA SendFlow ==
  ASSUME TypeOK, FlowInv, NEW g \in Change \cup Node, NEW e \in Change, SendEvent(g, e),
         \/ g \in Change /\ e = g /\ pc[e] = "sending"
         \/ g \in Node /\ e = relay[g]
  PROVE  FlowInv'
  <1>1. PICK c \in targets[g] :
          /\ targets' = [targets EXCEPT ![g] = @ \ {c}]
          /\ log' = [log EXCEPT ![c] = IF used'[c] = used[c] THEN @ ELSE Append(@, e)]
    BY DEF SendEvent
  <1>2. /\ at' = at /\ pc' = pc /\ before' = before /\ relay' = relay /\ bus' = bus
        /\ c \in Conn /\ at[c] \in Node
        /\ \A h \in Change \cup Node : targets'[h] \subseteq targets[h]
        /\ c \notin targets'[g]
        /\ \A d \in Conn \ {c} : log'[d] = log[d]
    BY <1>1, SeqFacts DEF SendEvent, TypeOK, Goroutine
  <1>3. log'[c] = log[c] \/ log'[c] = Append(log[c], e)
    BY <1>1, <1>2 DEF TypeOK
  <1>4. CASE log'[c] = log[c]
    BY <1>2, <1>4, QuietFlow
  <1>5. CASE log'[c] = Append(log[c], e)
    <2>1. /\ DOMAIN log'[c] = 1 .. Len(log[c]) + 1
          /\ DOMAIN log[c] = 1 .. Len(log[c]) /\ Len(log[c]) \in Nat
          /\ \A i \in DOMAIN log'[c] :
               \/ i \in DOMAIN log[c] /\ log'[c][i] = log[c][i]
               \/ i = Len(log[c]) + 1 /\ log'[c][i] = e
      BY <1>2, <1>5, SeqFacts, AppendFacts
    <2>2. OnItsWay(e, c) /\ ~OnItsWay(e, c)' /\ pc[e] # "idle"
      <3>1. CASE g \in Change /\ e = g /\ pc[e] = "sending"
        BY <1>1, <1>2, <3>1 DEF FlowInv, PublicationOf, OnItsWay
      <3>2. CASE g \in Node /\ e = relay[g]
        <4>1. /\ pc[e] = "done" /\ at[e] # g /\ at[c] = g
              /\ \A i \in DOMAIN bus[g] : bus[g][i] # e
          BY <1>1, <3>2 DEF FlowInv, SubscriberOf
        <4>2. QED
          BY <1>1, <1>2, <3>2, <4>1 DEF OnItsWay, Range
      <3>3. QED
        BY <3>1, <3>2
    <2>3. \A i \in DOMAIN log[c] : e # log[c][i] /\ e \notin before[log[c][i]]
      <3>1. \A i \in DOMAIN log[c] : log[c][i] \in Change
        BY <1>2, SeqFacts
      <3>2. \A i \in DOMAIN log[c] : e # log[c][i]
        BY <1>2, <2>2 DEF FlowInv, StreamOf
      <3>3. CASE g \in Change /\ e = g /\ pc[e] = "sending"
        BY <3>1, <3>2, <3>3 DEF FlowInv, PublicationOf
      <3>4. CASE g \in Node /\ e = relay[g]
        <4>1. at[c] = g
          BY <1>1, <3>4 DEF FlowInv, SubscriberOf
        <4>2. QED
          BY <1>1, <1>2, <3>2, <3>4, <4>1 DEF FlowInv, StreamOf
      <3>5. QED
        BY <3>3, <3>4
    <2>4. LET n == at[c] IN
          /\ \A j \in DOMAIN bus[n] : at[bus[n][j]] # n => bus[n][j] \notin before[e]
          /\ targets[n] # {} => relay[n] \notin before[e]
      <3>0. \A f \in before[e] : f # e /\ at[f] = at[e]
        BY DEF FlowInv, PublicationOf
      <3>1. CASE g \in Change /\ e = g /\ pc[e] = "sending"
        <4>1. at[c] = at[e]
          BY <1>1, <3>1 DEF FlowInv, PublicationOf
        <4>2. targets[at[c]] # {} => at[relay[at[c]]] # at[c]
          BY <1>2 DEF FlowInv, SubscriberOf
        <4>3. QED
          BY <3>0, <4>1, <4>2
      <3>2. CASE g \in Node /\ e = relay[g]
        <4>1. /\ at[c] = g /\ \A j \in DOMAIN bus[g] : bus[g][j] \notin before[e]
          BY <1>1, <3>2 DEF FlowInv, SubscriberOf
        <4>2. QED
          BY <3>0, <3>2, <4>1
      <3>3. QED
        BY <3>1, <3>2
    <2>5. ASSUME NEW d \in Conn PROVE StreamOf(d)'
      <3>1. StreamOf(d) /\ at[d] \in Node
        BY SeqFacts DEF FlowInv
      <3>2. \A f : OnItsWay(f, d)' => OnItsWay(f, d) \/ f \notin Change
        BY <1>2, <3>1 DEF OnItsWay
      <3>3. \A i \in DOMAIN log[d] : log[d][i] \in Change
        BY SeqFacts
      <3>4. ASSUME NEW i \in DOMAIN log[d], NEW x \in Change, x = log[d][i]
            PROVE  /\ pc[x] # "idle" /\ ~OnItsWay(x, d)'
                   /\ \A j \in DOMAIN bus[at[d]] :
                         at[bus[at[d]][j]] # at[d] => bus[at[d]][j] \notin before[x]
                   /\ targets'[at[d]] # {} => relay[at[d]] \notin before[x]
        <4>1. ~OnItsWay(x, d)'
          BY <3>1, <3>2, <3>4 DEF StreamOf
        <4>2. targets'[at[d]] # {} => targets[at[d]] # {}
          BY <1>2, <3>1
        <4>3. QED
          BY <3>1, <3>4, <4>1, <4>2 DEF StreamOf
      <3>5. CASE d # c
        <4>1. log'[d] = log[d]
          BY <1>2, <3>5
        <4>2. QED
          BY <1>2, <3>3, <3>4, <4>1 DEF StreamOf
      <3>6. CASE d = c
        BY <1>2, <2>1, <2>2, <2>4, <3>3, <3>4, <3>6, SMTT(30) DEF StreamOf
      <3>7. QED
        BY <3>5, <3>6
    <2>6. AtMostOnce'
      <3>1. IsInjective(log'[c])
        <4>1. IsInjective(log[c])
          BY <1>2 DEF FlowInv, AtMostOnce
        <4>2. QED
          BY <2>1, <2>3, <4>1 DEF IsInjective
      <3>2. QED
        BY <1>2, <3>1 DEF FlowInv, AtMostOnce
    <2>7. SameNodeOrder'
      <3>1. ASSUME NEW i \in DOMAIN log'[c], NEW j \in DOMAIN log'[c], i < j
            PROVE  log'[c][j] \notin before[log'[c][i]]
        <4>1. i \in DOMAIN log[c] /\ log'[c][i] = log[c][i]
          BY <2>1, <3>1
        <4>2. QED
          BY <1>2, <2>1, <2>3, <3>1, <4>1 DEF FlowInv, SameNodeOrder
      <3>2. QED
        BY <1>2, <3>1 DEF FlowInv, SameNodeOrder
    <2>8. ASSUME NEW f \in Change PROVE PublicationOf(f)'
      BY <1>2 DEF FlowInv, PublicationOf
    <2>9. ASSUME NEW n \in Node PROVE SubscriberOf(n)'
      BY <1>2 DEF FlowInv, SubscriberOf
    <2>10. QED
      BY <2>5, <2>6, <2>7, <2>8, <2>9 DEF FlowInv
  <1>6. QED
    BY <1>3, <1>4, <1>5

\* What is being published is not published yet, so nothing was committed after it, and
\* it comes last in every queue.
LEMMA PublishRedisFlow ==
  ASSUME TypeOK, FlowInv, NEW e \in Change, PublishRedis(e)
  PROVE  FlowInv'
  <1>1. /\ pc[e] = "sending" /\ pc'[e] = "done" /\ targets[e] = {}
        /\ \A f \in Change \ {e} : pc'[f] = pc[f]
        /\ at' = at /\ targets' = targets /\ before' = before /\ relay' = relay /\ log' = log
    BY DEF PublishRedis, Goto, TypeOK, channels
  <1>2. \A n \in Node : bus'[n] = bus[n] \/ bus'[n] = Append(bus[n], e)
    BY DEF PublishRedis
  <1>3. \A f \in Change : e \notin before[f]
    BY <1>1 DEF FlowInv, PublicationOf
  <1>4. ASSUME NEW n \in Node
        PROVE  \A i \in DOMAIN bus'[n] :
                  \/ i \in DOMAIN bus[n] /\ bus'[n][i] = bus[n][i]
                  \/ bus'[n][i] = e /\ \A j \in DOMAIN bus'[n] : ~(i < j)
    <2>1. CASE bus'[n] = bus[n]
      BY <2>1
    <2>2. CASE bus'[n] = Append(bus[n], e)
      BY <2>2, SeqFacts, AppendFacts
    <2>3. QED
      BY <1>2, <2>1, <2>2
  <1>5. ASSUME NEW f \in Change PROVE PublicationOf(f)'
    <2>1. PublicationOf(f) /\ before[f] \subseteq Change
      BY DEF FlowInv, TypeOK
    <2>2. QED
      BY <1>1, <2>1 DEF PublicationOf
  <1>6. ASSUME NEW n \in Node PROVE SubscriberOf(n)'
    <2>1. SubscriberOf(n) /\ \A i \in DOMAIN bus[n] : bus[n][i] \in Change
      BY SeqFacts DEF FlowInv
    <2>2. \A i \in DOMAIN bus[n] : bus[n][i] # e
      BY <1>1, <2>1 DEF SubscriberOf
    <2>3. \A i \in DOMAIN bus'[n] : pc'[bus'[n][i]] = "done"
      BY <1>1, <1>4, <2>1, <2>2 DEF SubscriberOf
    <2>4. \A i, j \in DOMAIN bus'[n] :
             i < j => bus'[n][i] # bus'[n][j] /\ bus'[n][j] \notin before[bus'[n][i]]
      <3>1. SUFFICES ASSUME NEW i \in DOMAIN bus'[n], NEW j \in DOMAIN bus'[n], i < j
                     PROVE  bus'[n][i] # bus'[n][j] /\ bus'[n][j] \notin before[bus'[n][i]]
        OBVIOUS
      <3>2. i \in DOMAIN bus[n] /\ bus'[n][i] = bus[n][i]
        BY <1>4, <3>1
      <3>3. QED
        BY <1>3, <1>4, <2>1, <2>2, <3>1, <3>2 DEF SubscriberOf
    <2>5. targets[n] # {} => relay[n] # e /\ relay[n] \in Change
      BY <1>1, <2>1 DEF SubscriberOf
    <2>6. targets[n] # {} => \A i \in DOMAIN bus'[n] :
                               bus'[n][i] # relay[n] /\ bus'[n][i] \notin before[relay[n]]
      BY <1>3, <1>4, <2>1, <2>5 DEF SubscriberOf
    <2>7. QED
      BY <1>1, <2>1, <2>3, <2>4, <2>5, <2>6 DEF SubscriberOf
  <1>7. ASSUME NEW c \in Conn PROVE StreamOf(c)'
    <2>1. StreamOf(c) /\ at[c] \in Node /\ \A i \in DOMAIN log[c] : log[c][i] \in Change
      BY SeqFacts DEF FlowInv
    <2>2. \A f \in Change \ {e} : OnItsWay(f, c)' => OnItsWay(f, c)
      BY <1>1, <1>4, <2>1 DEF OnItsWay, Range
    <2>3. OnItsWay(e, c)' => OnItsWay(e, c)
      BY <1>1 DEF OnItsWay
    <2>4. QED
      BY <1>1, <1>3, <1>4, <2>1, <2>2, <2>3 DEF StreamOf
  <1>8. QED
    BY <1>1, <1>5, <1>6, <1>7 DEF FlowInv, AtMostOnce, SameNodeOrder

LEMMA ReceiveFlow ==
  ASSUME TypeOK, FlowInv, NEW n \in Node, Receive(n)
  PROVE  FlowInv'
  <1> DEFINE e == bus[n][1]
  <1>1. /\ at' = at /\ pc' = pc /\ before' = before /\ log' = log
        /\ targets[n] = {} /\ bus[n] # <<>>
        /\ relay'[n] = e /\ bus'[n] = RestOfBus(n)
        /\ targets'[n] = IF at[e] # n THEN Audience(n, e) ELSE {}
        /\ \A m \in Node \ {n} : targets'[m] = targets[m] /\ relay'[m] = relay[m] /\ bus'[m] = bus[m]
        /\ \A f \in Change : targets'[f] = targets[f]
    BY DEF Receive, NextOnBus, Relays, TypeOK, channels, history, Goroutine
  <1>2. /\ e \in Change /\ 1 \in DOMAIN bus[n]
        /\ \A i \in DOMAIN bus'[n] :
              i \in Nat /\ i + 1 \in DOMAIN bus[n] /\ 1 < i + 1 /\ bus'[n][i] = bus[n][i + 1]
    <2>1. /\ DOMAIN bus[n] = 1 .. Len(bus[n]) /\ Len(bus[n]) \in Nat \ {0} /\ e \in Change
          /\ DOMAIN RestOfBus(n) = 1 .. Len(bus[n]) - 1
          /\ \A i \in 1 .. Len(bus[n]) - 1 : RestOfBus(n)[i] = bus[n][i + 1]
      BY <1>1, RestIsTail
    <2>2. \A i \in 1 .. Len(bus[n]) - 1 :
             i \in Nat /\ i + 1 \in 1 .. Len(bus[n]) /\ 1 < i + 1
      BY <2>1
    <2>3. bus'[n] = RestOfBus(n)
      BY <1>1
    <2>4. 1 \in DOMAIN bus[n]
      BY <2>1
    <2>5. QED
      BY <2>1, <2>2, <2>3, <2>4
  <1>3. ASSUME NEW f \in Change PROVE PublicationOf(f)'
    BY <1>1 DEF FlowInv, PublicationOf
  <1>4. ASSUME NEW m \in Node PROVE SubscriberOf(m)'
    <2>1. CASE m # n
      BY <1>1, <2>1 DEF FlowInv, SubscriberOf
    <2>2. CASE m = n
      <3>1. SubscriberOf(n)
        BY DEF FlowInv
      <3>2. \A i \in DOMAIN bus'[n] : pc'[bus'[n][i]] = "done"
        BY <1>1, <1>2, <3>1 DEF SubscriberOf
      <3>3. \A i, j \in DOMAIN bus'[n] :
               i < j => bus'[n][i] # bus'[n][j] /\ bus'[n][j] \notin before'[bus'[n][i]]
        BY <1>1, <1>2, <3>1 DEF SubscriberOf
      <3>4. pc[e] = "done" /\ \A i \in DOMAIN bus'[n] : bus'[n][i] # e /\ bus'[n][i] \notin before[e]
        BY <1>2, <3>1 DEF SubscriberOf
      <3>5. targets'[n] # {} => at[e] # n /\ \A c \in targets'[n] : at[c] = n
        <4>1. \A c \in Audience(n, e) : at[c] = n
          BY DEF Audience, Room
        <4>2. QED
          BY <1>1, <4>1
      <3>6. QED
        BY <1>1, <1>2, <2>2, <3>2, <3>3, <3>4, <3>5 DEF SubscriberOf
    <2>3. QED
      BY <2>1, <2>2
  <1>5. ASSUME NEW c \in Conn PROVE StreamOf(c)'
    <2>1. StreamOf(c) /\ at[c] \in Node /\ \A i \in DOMAIN log[c] : log[c][i] \in Change
      BY SeqFacts DEF FlowInv
    <2>2. ASSUME NEW f \in Change, OnItsWay(f, c)' PROVE OnItsWay(f, c)
      <3>1. CASE at[c] # n
        BY <1>1, <2>1, <2>2, <3>1 DEF OnItsWay
      <3>2. CASE at[c] = n /\ at[f] = n
        BY <1>1, <2>2, <3>2 DEF OnItsWay
      <3>3. CASE at[c] = n /\ at[f] # n
        BY <1>1, <1>2, <2>2, <3>3 DEF OnItsWay, Range
      <3>4. QED
        BY <3>1, <3>2, <3>3
    <2>3. CASE at[c] # n
      BY <1>1, <2>1, <2>2, <2>3 DEF StreamOf
    <2>4. CASE at[c] = n
      <3>1. targets'[n] # {} => at[e] # n
        BY <1>1
      <3>2. QED
        BY <1>1, <1>2, <2>1, <2>2, <2>4, <3>1 DEF StreamOf
    <2>5. QED
      BY <2>3, <2>4
  <1>6. QED
    BY <1>1, <1>3, <1>4, <1>5 DEF FlowInv, AtMostOnce, SameNodeOrder

LEMMA ConnFlow == ASSUME TypeOK, FlowInv, NEW c \in Conn, ConnStep(c) PROVE FlowInv'
  <1>1. \A d \in Conn : log'[d] = log[d] \/ log'[d] = <<>>
    <2> USE DEF hub, channels, history
    <2>1. CASE Register(c) \/ TouchPresence(c) \/ BroadcastPresence(c) \/ Resync(c)
      BY <2>1 DEF Register, TouchPresence, BroadcastPresence, Resync
    <2>2. CASE SendPresence(c) \/ TakeOut(c) \/ ReadBoard(c) \/ SendSnapshot(c)
      BY <2>2 DEF SendPresence, TakeOut, ReadBoard, SendSnapshot
    <2>3. CASE Unregister(c)
      BY <2>3 DEF Unregister, Leave, Forget
    <2>4. CASE PanicInPresence(c)
      BY <2>4 DEF PanicInPresence, Leave, Forget
    <2>5. QED
      BY <2>1, <2>2, <2>3, <2>4 DEF ConnStep
  <1>2. /\ at' = at /\ before' = before /\ relay' = relay /\ bus' = bus
        /\ \A e \in Change : pc'[e] = pc[e] /\ targets'[e] = targets[e]
        /\ \A n \in Node : targets'[n] = targets[n]
    BY ConnFrame DEF Goroutine
  <1>3. QED
    BY <1>1, <1>2, QuietFlow

LEMMA DieFlow == ASSUME TypeOK, FlowInv, NEW n \in Node, PanicInRelay(n) PROVE FlowInv'
  <1>1. \A d \in Conn : log'[d] = log[d] \/ log'[d] = <<>>
    BY DieForgets DEF Forget
  <1>2. /\ at' = at /\ before' = before /\ relay' = relay
        /\ \A m \in Node : bus'[m] = bus[m] \/ bus'[m] = <<>>
        /\ \A m \in Node : targets'[m] \subseteq targets[m]
    BY DieFrame
  <1>3. ASSUME NEW e \in Change
        PROVE  \/ pc'[e] = pc[e] /\ targets'[e] \subseteq targets[e]
               \/ /\ pc[e] \in {"committed", "sending"} /\ pc'[e] = "aborted"
                  /\ targets'[e] = {}
    BY DieFrame
  <1>4. QED
    BY <1>1, <1>2, <1>3, QuietFlow

LEMMA NextFlow == TypeOK /\ FlowInv /\ [Next]_vars => FlowInv'
  <1> SUFFICES ASSUME TypeOK, FlowInv, [Next]_vars PROVE FlowInv'
    OBVIOUS
  <1>1. CASE UNCHANGED vars
    BY <1>1, QuietFlow DEF vars, hub, history
  <1>2. ASSUME NEW e \in Change, CommitChange(e) \/ PublishStep(e) PROVE FlowInv'
    <2>1. CASE SendLocal(e)
      BY <2>1, SendFlow DEF SendLocal
    <2>2. CASE PanicInPublish(e)
      <3>1. /\ at' = at /\ before' = before /\ relay' = relay /\ bus' = bus /\ log' = log
            /\ pc[e] = "sending" /\ pc'[e] = "aborted" /\ targets'[e] = {}
            /\ \A f \in Change \ {e} : pc'[f] = pc[f] /\ targets'[f] = targets[f]
            /\ \A n \in Node : targets'[n] = targets[n]
        BY <2>2 DEF PanicInPublish, Goto, TypeOK, channels, history, Goroutine
      <3>2. QED
        BY <3>1, QuietFlow
    <2>3. QED
      BY <1>2, <2>1, <2>2, CommitFlow, PublishLocalFlow, PublishRedisFlow DEF PublishStep
  <1>3. ASSUME NEW n \in Node, Receive(n) PROVE FlowInv'
    BY <1>3, ReceiveFlow
  <1>4. ASSUME NEW n \in Node, SendRelayed(n) PROVE FlowInv'
    <2>1. relay[n] \in Change
      BY <1>4 DEF SendRelayed, TypeOK
    <2>2. QED
      BY <1>4, <2>1, SendFlow DEF SendRelayed
  <1>5. ASSUME NEW n \in Node, PanicInRelay(n) PROVE FlowInv'
    BY <1>5, DieFlow
  <1>6. ASSUME NEW c \in Conn, ConnStep(c) PROVE FlowInv'
    BY <1>6, ConnFlow
  <1>7. QED
    BY <1>1, <1>2, <1>3, <1>4, <1>5, <1>6 DEF Next, ConnStep

LEMMA HubFlow == Spec => []FlowInv
  BY InitFlow, NextFlow, HubTypes, PTL DEF Spec

\* No event reaches a client twice, on whichever of its two ways it comes.
THEOREM EventsComeOnce == Spec => []AtMostOnce
  <1>1. FlowInv => AtMostOnce
    BY DEF FlowInv
  <1>2. QED
    BY <1>1, HubFlow, PTL

\* Changes that one instance made one after the other reach every client of every
\* instance in that order.
THEOREM EventsComeInOrder == Spec => []SameNodeOrder
  <1>1. FlowInv => SameNodeOrder
    BY DEF FlowInv
  <1>2. QED
    BY <1>1, HubFlow, PTL

-----------------------------------------------------------------------------
(* No gap between the snapshot and the events.                             *)

\* Client c has left the state in which it has been sent its snapshot, or is accounted
\* for as before.
LEMMA QuietGap ==
  ASSUME NEW c \in Conn, NEW e \in Change, Gapless(c, e),
         pc'[c] \in {"loaded", "open", "touched"} =>
             /\ pc[c] \in {"loaded", "open", "touched"}
             /\ pc[c] = "loaded" => pc'[c] = "loaded" /\ board'[c] = board[c]
             /\ covered[c] \subseteq covered'[c] /\ lost[c] \subseteq lost'[c]
             /\ Range(log[c]) \subseteq Range(log'[c])
             /\ UserOf[e] # UserOf[c] /\ OnItsWay(e, c) => Accounted(e, c)',
         unrelayed \subseteq unrelayed',
         pc[e] = "aborted" => pc'[e] = "aborted"
  PROVE  Gapless(c, e)'
  BY DEF Gapless, Accounted

\* An event that is sent is in the log of the client it was sent to, or lost.
LEMMA SendTells ==
  ASSUME TypeOK, NEW g \in Change \cup Node, NEW e \in Change, SendEvent(g, e)
  PROVE  /\ at' = at /\ pc' = pc /\ bus' = bus /\ relay' = relay /\ board' = board
         /\ covered' = covered /\ unrelayed' = unrelayed
         /\ \A h \in (Change \cup Node) \ {g} : targets'[h] = targets[h]
         /\ \A d \in Conn :
               /\ lost[d] \subseteq lost'[d] /\ Range(log[d]) \subseteq Range(log'[d])
               /\ d \in targets[g] =>
                     d \in targets'[g] \/ e \in Range(log'[d]) \cup lost'[d]
  <1>1. PICK c \in targets[g] :
          /\ Push(c, {e})
          /\ targets' = [targets EXCEPT ![g] = @ \ {c}]
          /\ log' = [log EXCEPT ![c] = IF used'[c] = used[c] THEN @ ELSE Append(@, e)]
    BY DEF SendEvent
  <1>2. c \in Conn /\ log[c] \in Seq(Change)
    BY DEF TypeOK, Goroutine
  <1>3. /\ at' = at /\ pc' = pc /\ bus' = bus /\ relay' = relay /\ board' = board
        /\ covered' = covered /\ unrelayed' = unrelayed
    BY DEF SendEvent
  <1>4. /\ \A h \in (Change \cup Node) \ {g} : targets'[h] = targets[h]
        /\ targets'[g] = targets[g] \ {c}
    BY <1>1 DEF TypeOK, Goroutine
  <1>5. \/ lost' = lost /\ used'[c] # used[c]
        \/ lost' = [lost EXCEPT ![c] = @ \cup {e}] /\ used' = used
    BY <1>1, <1>2, PushType
  <1>6. \A d \in Conn \ {c} : lost[d] \subseteq lost'[d] /\ log'[d] = log[d]
    BY <1>1, <1>5 DEF TypeOK
  <1>7. /\ lost[c] \subseteq lost'[c] /\ Range(log[c]) \subseteq Range(log'[c])
        /\ e \in Range(log'[c]) \cup lost'[c]
    <2>1. CASE lost' = lost /\ used'[c] # used[c]
      <3>1. log'[c] = Append(log[c], e)
        BY <1>1, <1>2, <2>1 DEF TypeOK
      <3>2. /\ DOMAIN log'[c] = 1 .. Len(log[c]) + 1
            /\ DOMAIN log[c] = 1 .. Len(log[c]) /\ Len(log[c]) \in Nat
            /\ \A i \in DOMAIN log'[c] :
                  \/ i \in DOMAIN log[c] /\ log'[c][i] = log[c][i]
                  \/ i = Len(log[c]) + 1 /\ log'[c][i] = e
        BY <1>2, <3>1, AppendFacts
      <3>3. \A i \in DOMAIN log[c] : i \in DOMAIN log'[c] /\ log'[c][i] = log[c][i]
        BY <3>2
      <3>4. \E i \in DOMAIN log'[c] : log'[c][i] = e
        <4>1. Len(log[c]) + 1 \in DOMAIN log'[c] /\ Len(log[c]) + 1 \notin DOMAIN log[c]
          BY <3>2
        <4>2. QED
          BY <3>2, <4>1
      <3>5. QED
        BY <2>1, <3>3, <3>4 DEF Range
    <2>2. CASE lost' = [lost EXCEPT ![c] = @ \cup {e}] /\ used' = used
      <3>1. log'[c] = log[c] /\ lost'[c] = lost[c] \cup {e}
        BY <1>1, <1>2, <2>2 DEF TypeOK
      <3>2. QED
        BY <3>1
    <2>3. QED
      BY <1>5, <2>1, <2>2
  <1>8. QED
    BY <1>3, <1>4, <1>6, <1>7

LEMMA SendGap ==
  ASSUME TypeOK, FlowInv, NoGap, NEW g \in Change \cup Node, NEW e \in Change,
         SendEvent(g, e),
         \/ g \in Change /\ e = g /\ pc[e] = "sending"
         \/ g \in Node /\ e = relay[g]
  PROVE  NoGap'
  <1>1. Committed' = Committed
    BY SendTells DEF Committed
  <1>2. SUFFICES ASSUME NEW c \in Conn, NEW f \in Committed PROVE Gapless(c, f)'
    BY <1>1 DEF NoGap
  <1>3. f \in Change /\ Gapless(c, f) /\ at[c] \in Node
    BY SeqFacts DEF NoGap, Committed
  <1>4. OnItsWay(f, c) => Accounted(f, c)'
    <2>1. SUFFICES ASSUME OnItsWay(f, c), ~OnItsWay(f, c)' PROVE f \in Range(log'[c]) \cup lost'[c]
      BY DEF Accounted
    <2>2. /\ c \in targets[g] /\ c \notin targets'[g]
          /\ f = e
      BY <1>3, <2>1, SendTells DEF OnItsWay
    <2>3. QED
      BY <2>2, SendTells
  <1>5. QED
    BY <1>3, <1>4, QuietGap, SendTells

\* The steps of a change that send nothing: it sets out, reaches every instance that
\* runs, or is given up.
LEMMA ChangeGap ==
  ASSUME TypeOK, Handlers, NoGap, NEW e \in Change,
         CommitChange(e) \/ PublishLocal(e) \/ PublishRedis(e) \/ PanicInPublish(e)
  PROVE  NoGap'
  <1>1. /\ at' = at /\ relay' = relay /\ board' = board /\ covered' = covered
        /\ \A h \in (Change \cup Conn) \ {e} : pc'[h] = pc[h]
        /\ \A h \in Goroutine \ {e} : targets'[h] = targets[h]
    BY ChangeFrame DEF PublishStep
  <1>2. log' = log /\ lost' = lost /\ unrelayed \subseteq unrelayed' /\ pc[e] # "aborted"
    BY DEF CommitChange, PublishLocal, PublishRedis, PanicInPublish, channels, history
  <1>3. SUFFICES ASSUME NEW c \in Conn, NEW f \in Committed' PROVE Gapless(c, f)'
    BY DEF NoGap
  <1>4. f \in Change /\ pc'[f] # "idle" /\ at[c] \in Node
    BY SeqFacts DEF Committed
  <1>5. /\ pc'[c] = pc[c] /\ targets'[at[c]] = targets[at[c]]
        /\ \A n \in Node : \A x \in Range(bus[n]) : x \in Range(bus'[n])
    <2>1. ASSUME NEW n \in Node, bus'[n] = Append(bus[n], e)
          PROVE  Range(bus[n]) \subseteq Range(bus'[n])
      <3>1. \A i \in DOMAIN bus[n] : i \in DOMAIN bus'[n] /\ bus'[n][i] = bus[n][i]
        BY <2>1, SeqFacts, AppendFacts
      <3>2. QED
        BY <3>1 DEF Range
    <2>2. \A n \in Node : bus'[n] = bus[n] \/ bus'[n] = Append(bus[n], e)
      BY DEF CommitChange, PublishLocal, PublishRedis, PanicInPublish
    <2>3. QED
      BY <1>1, <1>4, <2>1, <2>2 DEF Goroutine
  <1>6. CASE f # e
    <2>1. Gapless(c, f) /\ pc'[f] = pc[f] /\ targets'[f] = targets[f]
      BY <1>1, <1>4, <1>6 DEF NoGap, Committed, Goroutine
    <2>2. OnItsWay(f, c) => OnItsWay(f, c)'
      BY <1>1, <1>4, <1>5, <2>1 DEF OnItsWay
    <2>3. QED
      BY <1>1, <1>2, <1>4, <1>5, <2>1, <2>2, QuietGap DEF Accounted
  <1>7. CASE f = e /\ CommitChange(e)
    <2>1. pc'[e] = "committed"
      BY <1>7 DEF CommitChange, Goto, TypeOK
    <2>2. QED
      BY <1>7, <2>1 DEF Gapless, Accounted, OnItsWay
  <1>8. CASE f = e /\ PanicInPublish(e)
    <2>1. pc'[e] = "aborted"
      BY <1>8 DEF PanicInPublish, Goto, TypeOK
    <2>2. QED
      BY <1>8, <2>1 DEF Gapless, Accounted
  <1>9. CASE f = e /\ PublishLocal(e)
    <2>1. Gapless(c, e) /\ pc'[e] = "sending" /\ targets'[e] = Audience(at[e], e)
      BY <1>9 DEF PublishLocal, Goto, TypeOK, NoGap, Committed, Goroutine
    <2>2. pc[c] \in {"loaded", "open", "touched"} /\ UserOf[e] # UserOf[c] => OnItsWay(e, c)'
      BY <1>1, <2>1 DEF OnItsWay, Audience, Room, InRoom
    <2>3. QED
      BY <1>5, <1>9, <2>2 DEF Gapless, Accounted
  <1>10. CASE f = e /\ PublishRedis(e)
    <2>1. /\ Gapless(c, e) /\ pc[e] = "sending" /\ targets[e] = {}
          /\ \/ \A n \in up : bus'[n] = Append(bus[n], e)
             \/ e \in unrelayed'
      BY <1>10 DEF PublishRedis, NoGap, Committed, TypeOK
    <2>2. \A n \in up : bus'[n] = Append(bus[n], e) => e \in Range(bus'[n])
      <3>1. ASSUME NEW n \in up, bus'[n] = Append(bus[n], e) PROVE e \in Range(bus'[n])
        <4>1. n \in Node /\ bus[n] \in Seq(Change) /\ Len(bus[n]) \in Nat
          BY SeqFacts DEF TypeOK
        <4>2. Len(bus[n]) + 1 \in DOMAIN bus'[n] /\ bus'[n][Len(bus[n]) + 1] = e
          BY <3>1, <4>1, AppendProperties, LenProperties
        <4>3. QED
          BY <4>2 DEF Range
      <3>2. QED
        BY <3>1
    <2>3. pc[c] \in {"loaded", "open", "touched"} => at[c] \in up
      BY DEF Handlers, HandlerOf, InRoom
    <2>4. pc[c] \in {"loaded", "open", "touched"} /\ OnItsWay(e, c) => Accounted(e, c)'
      BY <1>1, <2>1, <2>2, <2>3 DEF OnItsWay, Accounted
    <2>5. QED
      BY <1>1, <1>2, <1>5, <1>10, <2>1, <2>4, QuietGap
  <1>11. QED
    BY <1>6, <1>7, <1>8, <1>9, <1>10

\* What a subscriber takes from its queue it sends to everybody in the room.
LEMMA ReceiveGap ==
  ASSUME TypeOK, NoGap, NEW n \in Node, Receive(n)
  PROVE  NoGap'
  <1> DEFINE e == bus[n][1]
  <1>1. /\ at' = at /\ pc' = pc /\ log' = log /\ lost' = lost /\ covered' = covered
        /\ unrelayed' = unrelayed /\ board' = board
        /\ targets[n] = {} /\ bus[n] # <<>>
        /\ relay'[n] = e /\ bus'[n] = RestOfBus(n)
        /\ targets'[n] = IF at[e] # n THEN Audience(n, e) ELSE {}
        /\ \A m \in Node \ {n} : targets'[m] = targets[m] /\ relay'[m] = relay[m] /\ bus'[m] = bus[m]
        /\ \A f \in Change : targets'[f] = targets[f]
    BY DEF Receive, NextOnBus, Relays, TypeOK, channels, history, Goroutine
  <1>2. \A f \in Range(bus[n]) : f = e \/ f \in Range(bus'[n])
    <2>1. /\ DOMAIN bus[n] = 1 .. Len(bus[n]) /\ Len(bus[n]) \in Nat \ {0}
          /\ DOMAIN RestOfBus(n) = 1 .. Len(bus[n]) - 1
          /\ \A i \in 1 .. Len(bus[n]) - 1 : RestOfBus(n)[i] = bus[n][i + 1]
      BY <1>1, RestIsTail
    <2>2. ASSUME NEW i \in DOMAIN bus[n], i # 1
          PROVE  i - 1 \in DOMAIN RestOfBus(n) /\ RestOfBus(n)[i - 1] = bus[n][i]
      <3>1. i \in Nat /\ i - 1 \in 1 .. Len(bus[n]) - 1 /\ (i - 1) + 1 = i
        BY <2>1, <2>2
      <3>2. RestOfBus(n)[i - 1] = bus[n][(i - 1) + 1]
        BY <2>1, <3>1
      <3>3. QED
        BY <2>1, <3>1, <3>2
    <2>3. bus'[n] = RestOfBus(n)
      BY <1>1
    <2>4. QED
      BY <2>2, <2>3 DEF Range
  <1>3. Committed' = Committed
    BY <1>1 DEF Committed
  <1>4. SUFFICES ASSUME NEW c \in Conn, NEW f \in Committed PROVE Gapless(c, f)'
    BY <1>3 DEF NoGap
  <1>5. f \in Change /\ Gapless(c, f) /\ at[c] \in Node
    BY SeqFacts DEF NoGap, Committed
  <1>6. CASE at[c] # n
    <2>1. OnItsWay(f, c) => OnItsWay(f, c)'
      BY <1>1, <1>5, <1>6 DEF OnItsWay
    <2>2. QED
      BY <1>1, <1>5, <2>1, QuietGap DEF Accounted
  <1>7. CASE at[c] = n
    <2>1. pc[c] \in InRoom /\ UserOf[f] # UserOf[c] /\ OnItsWay(f, c) => OnItsWay(f, c)'
      <3>1. SUFFICES ASSUME pc[c] \in InRoom, UserOf[f] # UserOf[c], OnItsWay(f, c)
                     PROVE  OnItsWay(f, c)'
        OBVIOUS
      <3>2. CASE at[f] = n \/ f # e
        BY <1>1, <1>2, <1>5, <1>7, <3>1, <3>2 DEF OnItsWay
      <3>3. CASE at[f] # n /\ f = e
        <4>1. relay'[n] = f /\ c \in targets'[n]
          BY <1>1, <1>7, <3>1, <3>3 DEF Audience, Room
        <4>2. QED
          BY <1>1, <1>7, <3>3, <4>1 DEF OnItsWay
      <3>4. QED
        BY <3>2, <3>3
    <2>2. pc[c] \in {"loaded", "open", "touched"} => pc[c] \in InRoom
      BY DEF InRoom
    <2>3. QED
      BY <1>1, <1>5, <2>1, <2>2, QuietGap DEF Accounted
  <1>8. QED
    BY <1>6, <1>7

\* An instance dies with the clients it had; for the others its publications are given up.
LEMMA DieGap ==
  ASSUME TypeOK, NoGap, NEW n \in Node, PanicInRelay(n)
  PROVE  NoGap'
  <1>1. /\ at' = at /\ relay' = relay /\ unrelayed' = unrelayed /\ board' = board
        /\ \A m \in Node \ {n} : bus'[m] = bus[m] /\ targets'[m] = targets[m]
        /\ \A h \in Change \cup Conn : at[h] # n => pc'[h] = pc[h] /\ targets'[h] = targets[h]
        /\ \A c \in Conn : at[c] = n => pc'[c] = "gone"
        /\ \A e \in Change : at[e] = n =>
              pc'[e] = IF pc[e] \in {"committed", "sending"} THEN "aborted" ELSE pc[e]
    BY DieFrame
  <1>2. \A c \in Conn : at[c] # n =>
           log'[c] = log[c] /\ covered'[c] = covered[c] /\ lost'[c] = lost[c]
    BY DieForgets DEF Forget
  <1>3. Committed' = Committed
    BY <1>1 DEF Committed
  <1>4. SUFFICES ASSUME NEW c \in Conn, NEW f \in Committed PROVE Gapless(c, f)'
    BY <1>3 DEF NoGap
  <1>5. f \in Change /\ Gapless(c, f) /\ at[c] \in Node
    BY SeqFacts DEF NoGap, Committed
  <1>6. CASE at[c] = n
    BY <1>1, <1>6 DEF Gapless
  <1>7. CASE at[c] # n
    <2>1. OnItsWay(f, c) => OnItsWay(f, c)' \/ pc'[f] = "aborted"
      BY <1>1, <1>5, <1>7 DEF OnItsWay
    <2>2. pc[f] = "aborted" => pc'[f] = "aborted"
      BY <1>1, <1>5
    <2>3. QED
      BY <1>1, <1>2, <1>5, <1>7, <2>1, <2>2, QuietGap DEF Accounted
  <1>8. QED
    BY <1>6, <1>7

\* Nobody else's handler touches what client d has been told.
LEMMA ConnTells ==
  ASSUME TypeOK, NEW c \in Conn, ConnStep(c)
  PROVE  \A d \in Conn \ {c} :
            /\ board'[d] = board[d] /\ covered'[d] = covered[d]
            /\ log'[d] = log[d] /\ lost'[d] = lost[d]
  <1> USE DEF hub, channels, history
  <1>1. CASE Register(c) \/ TouchPresence(c) \/ BroadcastPresence(c) \/ Resync(c) \/ TakeOut(c)
    BY <1>1 DEF Register, TouchPresence, BroadcastPresence, Resync, TakeOut
  <1>2. CASE SendPresence(c)
    <2>1. PICK d \in targets[c] : Push(d, {})
      BY <1>2 DEF SendPresence
    <2>2. d \in Conn
      BY DEF TypeOK, Goroutine
    <2>3. lost' = lost \/ lost' = [lost EXCEPT ![d] = @ \cup {}]
      BY <2>1, <2>2, PushType
    <2>4. \A x \in Conn : lost'[x] = lost[x]
      BY <2>3 DEF TypeOK
    <2>5. QED
      BY <1>2, <2>4 DEF SendPresence
  <1>3. CASE ReadBoard(c)
    <2>1. /\ log' = log /\ covered' = covered
          /\ board' = board \/ \E page : board' = [board EXCEPT ![c] = page]
          /\ lost' = lost \/ lost' = [lost EXCEPT ![c] = @ \cup Committed]
      BY <1>3 DEF ReadBoard
    <2>2. \A d \in Conn \ {c} : board'[d] = board[d]
      BY <2>1 DEF TypeOK
    <2>3. \A d \in Conn \ {c} : lost'[d] = lost[d]
      BY <2>1 DEF TypeOK
    <2>4. QED
      BY <2>1, <2>2, <2>3
  <1>4. CASE SendSnapshot(c)
    <2>1. /\ log' = log /\ board' = [board EXCEPT ![c] = {}] /\ Push(c, board[c])
          /\ covered' = [covered EXCEPT ![c] = IF used'[c] = used[c] THEN @ ELSE @ \cup board[c]]
      BY <1>4 DEF SendSnapshot
    <2>2. lost' = lost \/ lost' = [lost EXCEPT ![c] = @ \cup board[c]]
      BY <2>1, PushType DEF TypeOK
    <2>3. \A d \in Conn \ {c} : lost'[d] = lost[d]
      BY <2>2 DEF TypeOK
    <2>4. QED
      BY <2>1, <2>3 DEF TypeOK
  <1>5. CASE Unregister(c)
    BY <1>5 DEF Unregister, Leave, Forget
  <1>6. CASE PanicInPresence(c)
    BY <1>6 DEF PanicInPresence, Leave, Forget
  <1>7. QED
    BY <1>1, <1>2, <1>3, <1>4, <1>5, <1>6 DEF ConnStep

\* The handler itself: what it reads of the board it sends or loses.
LEMMA OwnGap ==
  ASSUME TypeOK, Handlers, Fits, NEW c \in Conn, ConnStep(c), NEW e \in Committed,
         Gapless(c, e)
  PROVE  Gapless(c, e)'
  <1> USE DEF Goto, Reached
  <1>0. /\ e \in Change /\ at' = at /\ relay' = relay /\ bus' = bus /\ unrelayed' = unrelayed
        /\ pc'[e] = pc[e] /\ targets'[e] = targets[e]
        /\ at[c] \in Node /\ targets'[at[c]] = targets[at[c]]
    BY ConnFrame, SeqFacts DEF Committed, Goroutine
  <1>1. OnItsWay(e, c)' <=> OnItsWay(e, c)
    BY <1>0 DEF OnItsWay
  <1>2. CASE pc'[c] \notin {"loaded", "open", "touched"}
    BY <1>2 DEF Gapless
  <1>3. CASE Register(c) \/ Resync(c) \/ Unregister(c)
    <2>1. pc'[c] \in {"joined", "reading", "closed"}
      BY <1>3 DEF Register, Resync, Unregister, Leave, TypeOK
    <2>2. QED
      BY <1>2, <2>1
  <1>4. CASE PanicInPresence(c)
    <2>1. pc'[c] \in {"closed", "leaked", "gone"}
      BY <1>4 DEF PanicInPresence, Leave, TypeOK
    <2>2. QED
      BY <1>2, <2>1
  <1>5. CASE TouchPresence(c) \/ BroadcastPresence(c) \/ TakeOut(c) \/ SendPresence(c)
    <2>1. board' = board /\ covered' = covered /\ log' = log
      BY <1>5 DEF TouchPresence, BroadcastPresence, TakeOut, SendPresence, channels, history
    <2>2. lost'[c] = lost[c]
      <3>1. CASE SendPresence(c)
        <4>1. PICK d \in targets[c] : Push(d, {})
          BY <3>1 DEF SendPresence
        <4>2. d \in Conn
          BY DEF TypeOK, Goroutine
        <4>3. lost' = lost \/ lost' = [lost EXCEPT ![d] = @ \cup {}]
          BY <4>1, <4>2, PushType
        <4>4. QED
          BY <4>3 DEF TypeOK
      <3>2. CASE ~SendPresence(c)
        BY <1>5, <3>2 DEF TouchPresence, BroadcastPresence, TakeOut, channels
      <3>3. QED
        BY <3>1, <3>2
    <2>3. \/ pc'[c] = pc[c]
          \/ pc[c] \in {"open", "touched"} /\ pc'[c] \in {"open", "touched"}
          \/ pc'[c] \in {"reading", "gone"}
      <3>1. CASE TouchPresence(c)
        BY <3>1 DEF TouchPresence, TypeOK
      <3>2. CASE BroadcastPresence(c)
        BY <3>2 DEF BroadcastPresence, Announcing, AfterPresence, TypeOK
      <3>3. CASE TakeOut(c) \/ SendPresence(c)
        BY <3>3 DEF TakeOut, SendPresence, hub
      <3>4. QED
        BY <1>5, <3>1, <3>2, <3>3
    <2>4. QED
      BY <1>0, <1>1, <1>2, <2>1, <2>2, <2>3, QuietGap DEF Accounted
  <1>6. CASE ReadBoard(c)
    <2>1. \/ pc'[c] = "loaded" /\ board'[c] = Committed
          \/ pc'[c] = "open" /\ lost'[c] = lost[c] \cup Committed
      BY <1>6 DEF ReadBoard, Page, TypeOK
    <2>2. QED
      BY <2>1 DEF Gapless, Accounted
  <1>7. CASE SendSnapshot(c)
    <2>1. /\ pc[c] = "loaded" /\ pc'[c] = "open" /\ log' = log /\ Push(c, board[c])
          /\ covered'[c] = IF used'[c] = used[c] THEN covered[c] ELSE covered[c] \cup board[c]
      BY <1>7 DEF SendSnapshot, TypeOK
    <2>2. board[c] \in SUBSET Change
      BY DEF TypeOK
    <2>3. \/ lost' = lost /\ used'[c] # used[c]
          \/ lost' = [lost EXCEPT ![c] = @ \cup board[c]] /\ used' = used
      BY <2>1, <2>2, PushType
    <2>4. /\ covered[c] \subseteq covered'[c] /\ lost[c] \subseteq lost'[c]
          /\ board[c] \subseteq covered'[c] \cup lost'[c]
      BY <2>1, <2>3 DEF TypeOK
    <2>5. QED
      BY <1>0, <1>1, <2>1, <2>4 DEF Gapless, Accounted
  <1>8. QED
    BY <1>3, <1>4, <1>5, <1>6, <1>7 DEF ConnStep

LEMMA ConnGap ==
  ASSUME TypeOK, Handlers, NoGap, Fits, NEW c \in Conn, ConnStep(c)
  PROVE  NoGap'
  <1>1. Committed' = Committed
    BY ConnFrame DEF Committed
  <1>2. SUFFICES ASSUME NEW d \in Conn, NEW e \in Committed PROVE Gapless(d, e)'
    BY <1>1 DEF NoGap
  <1>3. CASE d = c
    BY <1>3, OwnGap DEF NoGap
  <1>4. CASE d # c
    <2>1. /\ e \in Change /\ at' = at /\ relay' = relay /\ bus' = bus /\ unrelayed' = unrelayed
          /\ pc'[e] = pc[e] /\ targets'[e] = targets[e] /\ pc'[d] = pc[d]
          /\ at[d] \in Node /\ targets'[at[d]] = targets[at[d]]
      BY <1>4, ConnFrame, SeqFacts DEF Committed, Goroutine
    <2>2. OnItsWay(e, d) => OnItsWay(e, d)'
      BY <2>1 DEF OnItsWay
    <2>3. Gapless(d, e)
      BY DEF NoGap
    <2>4. QED
      BY <1>4, <2>1, <2>2, <2>3, ConnTells, QuietGap DEF Accounted
  <1>5. QED
    BY <1>3, <1>4

LEMMA NextGap ==
  ASSUME Fits
  PROVE  TypeOK /\ Handlers /\ FlowInv /\ NoGap /\ [Next]_vars => NoGap'
  <1> SUFFICES ASSUME TypeOK, Handlers, FlowInv, NoGap, [Next]_vars PROVE NoGap'
    OBVIOUS
  <1>1. CASE UNCHANGED vars
    BY <1>1 DEF vars, hub, channels, history, NoGap, Gapless, Accounted, OnItsWay, Committed
  <1>2. ASSUME NEW e \in Change, CommitChange(e) \/ PublishStep(e) PROVE NoGap'
    <2>1. CASE SendLocal(e)
      BY <2>1, SendGap DEF SendLocal
    <2>2. QED
      BY <1>2, <2>1, ChangeGap DEF PublishStep
  <1>3. ASSUME NEW n \in Node, Receive(n) PROVE NoGap'
    BY <1>3, ReceiveGap
  <1>4. ASSUME NEW n \in Node, SendRelayed(n) PROVE NoGap'
    <2>1. relay[n] \in Change
      BY <1>4 DEF SendRelayed, TypeOK
    <2>2. QED
      BY <1>4, <2>1, SendGap DEF SendRelayed
  <1>5. ASSUME NEW n \in Node, PanicInRelay(n) PROVE NoGap'
    BY <1>5, DieGap
  <1>6. ASSUME NEW c \in Conn, ConnStep(c) PROVE NoGap'
    BY <1>6, ConnGap
  <1>7. QED
    BY <1>1, <1>2, <1>3, <1>4, <1>5, <1>6 DEF Next, ConnStep

\* Register before the snapshot leaves no gap: when the board fits in the page of a
\* snapshot, a client that was sent one has every later change of somebody else, or it
\* is on its way, or it was lost for a reason the code accepts.
THEOREM NothingIsMissed == ASSUME Fits PROVE Spec => []NoEventIsMissed
  <1>1. Init => NoGap
    BY DEF Init, NoGap, Committed
  <1>2. TypeOK /\ Handlers /\ FlowInv /\ NoGap /\ [Next]_vars => NoGap'
    BY NextGap
  <1>3. NoGap => NoEventIsMissed
    BY DEF NoGap, Gapless, NoEventIsMissed
  <1>4. QED
    BY <1>1, <1>2, <1>3, HubTypes, HubHandlers, HubFlow, PTL DEF Spec

=============================================================================
