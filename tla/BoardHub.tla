------------------------------ MODULE BoardHub ------------------------------
(***************************************************************************)
(* The realtime half of task-service: the Hub that keeps the websocket     *)
(* clients of a board, the DistributedHub that links the hubs of several   *)
(* instances through Redis, and the websocket handler boardStream.         *)
(*                                                                         *)
(* Everything runs in goroutines that share the hub under one mutex, held  *)
(* only to look at or to change the room and the presence map: messages    *)
(* are sent after it is released, to the clients that were in the room     *)
(* while it was held.  A goroutine here is a Change (the HTTP handler that *)
(* commits it and then publishes it), a Conn (the handler of a websocket)  *)
(* or a Node (the Redis subscriber of an instance).                        *)
(*                                                                         *)
(* A message counts for the changes it tells of: {e} for an event, the     *)
(* changes committed so far for a snapshot, {} for a presence list.        *)
(***************************************************************************)
EXTENDS Naturals, Sequences, FiniteSets, Functions

CONSTANTS
    Node,        \* instances of task-service
    Change,      \* changes of one board, each committed once
    Conn,        \* websocket connections to it, each opened once
    UserOf,      \* UserOf[g]: the user behind a change or a conn
    Connected,   \* the connections that are open when we begin to look
    Capacity,    \* slots of a client's Send channel (32 in the code)
    Asks,        \* bound: pings and resyncs that clients send altogether
    Fits,        \* whether the board fits in the page that a snapshot holds
    Placements,  \* which instances may serve the changes and the connections
    Nothing      \* "this subscriber relays nothing"

Goroutine == Node \cup Change \cup Conn
User == {UserOf[g] : g \in Change \cup Conn}

ASSUME HubAssumption ==
    /\ UserOf = [g \in Change \cup Conn |-> UserOf[g]]
    /\ Node \cap (Change \cup Conn) = {} /\ Change \cap Conn = {}
    /\ Connected \subseteq Conn
    /\ Capacity \in Nat \ {0} /\ Asks \in Nat
    /\ Fits \in BOOLEAN
    /\ Placements \subseteq [Change \cup Conn -> Node]
    /\ Nothing \notin Change

VARIABLES
    at,         \* at[g]: the instance that serves a change or a conn
    up,         \* the instances that run
    pc,         \* pc[g]: where a change or a conn is in its handler
    present,    \* present[n]: Hub.presence of the board on instance n
    targets,    \* targets[g]: clients that goroutine g still has to send to
    relay,      \* relay[n]: the change that the subscriber of n sends
    used,       \* used[c]: slots used of the Send channel of the client
    bus,        \* bus[n]: what Redis delivers to the subscriber of n
    board,      \* board[c]: what conn c read to build its snapshot
    asked,      \* pings and resyncs so far
    before,     \* before[e]: changes published when e was committed (history)
    log,        \* log[c]: events put on the channel of c, in order (history)
    covered,    \* covered[c]: changes in snapshots put there (history)
    lost,       \* lost[c]: changes in messages that were discarded (history)
    unrelayed   \* changes that Redis did not take (history)

hub == <<at, up, pc, present, targets, relay>>
channels == <<used, lost>>
history == <<before, log, covered, unrelayed>>
vars == <<hub, channels, history, bus, board, asked>>

\* A client is in the room from Register's critical section to unregister's, and
\* its channel is closed right after that.  A conn with targets is announcing
\* the presence list, whatever it is going to do then.
InRoom == {"joined", "reading", "loaded", "open", "touched", "leaked"}
ClosedChannel == {"closed", "gone"}
ConnPC == InRoom \cup ClosedChannel \cup {"off"}
ChangePC == {"idle", "committed", "sending", "done", "aborted"}

Room(n) == {c \in Conn : at[c] = n /\ pc[c] \in InRoom}
Committed == {e \in Change : pc[e] # "idle"}
NodesUp(g) == at[g] \in up
Goto(g, label) == pc' = [pc EXCEPT ![g] = label]

\* The handler of the websocket is at this place and has nothing left to send.
Reached(c, label) == pc[c] = label /\ targets[c] = {} /\ NodesUp(c)

Init ==
    /\ at \in Placements
    /\ asked = 0
    /\ up = Node
    /\ pc = [g \in Change \cup Conn |->
               IF g \in Connected THEN "open" ELSE IF g \in Conn THEN "off" ELSE "idle"]
    /\ present = [n \in Node |-> {UserOf[c] : c \in {d \in Connected : at[d] = n}}]
    /\ targets = [g \in Goroutine |-> {}]
    /\ relay = [n \in Node |-> Nothing]
    /\ used = [c \in Conn |-> 0]
    /\ bus = [n \in Node |-> <<>>]
    /\ board = [c \in Conn |-> {}]
    /\ before = [e \in Change |-> {}]
    /\ log = [c \in Conn |-> <<>>]
    /\ covered = [c \in Conn |-> {}]
    /\ lost = [c \in Conn |-> {}]
    /\ unrelayed = {}

-----------------------------------------------------------------------------
(* The Send channel of a client.  Its contents are not kept, only how many *)
(* slots are used: what was put there is in `log` and `covered`.           *)

\* Hub.sendToClient: a select that never blocks.  On a full channel the message
\* is discarded, and a goroutine is started that takes the oldest one out.
Push(c, changes) ==
    IF used[c] < Capacity
    THEN used' = [used EXCEPT ![c] = @ + 1] /\ UNCHANGED lost
    ELSE lost' = [lost EXCEPT ![c] = @ \cup changes] /\ UNCHANGED used

\* A message leaves the channel: the writer goroutine of boardStream writes it to
\* the socket, or a draining goroutine throws it away.
TakeOut(c) ==
    /\ pc[c] \notin ClosedChannel
    /\ used[c] > 0
    /\ used' = [used EXCEPT ![c] = @ - 1]
    /\ UNCHANGED <<hub, lost, history, bus, board, asked>>

-----------------------------------------------------------------------------
(* Publish: the clients of this instance, then Redis.                      *)

\* The statement of TaskService that commits the change.
CommitChange(e) ==
    /\ pc[e] = "idle" /\ NodesUp(e)
    /\ Goto(e, "committed")
    /\ before' = [before EXCEPT ![e] =
                    {f \in Change : pc[f] = "done" /\ at[f] = at[e]}]
    /\ UNCHANGED <<at, up, present, targets, relay, channels, log, covered,
                   unrelayed, bus, board, asked>>

\* broadcastRaw under the read lock: everybody but the clients of the actor.
\* (The variant sends to those only who have read their snapshot.)
SettledAudience(n, e) ==
    {c \in Room(n) : pc[c] = "open" /\ UserOf[c] # UserOf[e]}
Audience(n, e) == {c \in Room(n) : UserOf[c] # UserOf[e]}

PublishLocal(e) ==
    /\ pc[e] = "committed" /\ NodesUp(e)
    /\ targets' = [targets EXCEPT ![e] = Audience(at[e], e)]
    /\ Goto(e, "sending")
    /\ UNCHANGED <<at, up, present, relay, channels, history, bus, board, asked>>

\* The loop of broadcastRaw, after the lock is released, for a client whose
\* channel is still open.
SendEvent(g, e) ==
    \E c \in targets[g] :
        /\ pc[c] \notin ClosedChannel
        /\ Push(c, {e})
        /\ targets' = [targets EXCEPT ![g] = @ \ {c}]
        /\ log' = [log EXCEPT ![c] = IF used'[c] = used[c] THEN @ ELSE Append(@, e)]
    /\ UNCHANGED <<at, up, pc, present, relay, before, covered, unrelayed, bus,
                   board, asked>>

SendLocal(e) == pc[e] = "sending" /\ NodesUp(e) /\ SendEvent(e, e)

\* DistributedHub.Publish after the local clients.  Redis delivers to every
\* subscriber, this instance included, or to none when it is down or was never
\* configured; an error is logged and forgotten.
PublishRedis(e) ==
    /\ pc[e] = "sending" /\ NodesUp(e) /\ targets[e] = {}
    /\ \/ /\ bus' = [n \in Node |-> IF n \in up THEN Append(bus[n], e) ELSE bus[n]]
          /\ UNCHANGED unrelayed
       \/ unrelayed' = unrelayed \cup {e} /\ UNCHANGED bus
    /\ Goto(e, "done")
    /\ UNCHANGED <<at, up, present, targets, relay, channels, before, log, covered,
                   board, asked>>

-----------------------------------------------------------------------------
(* subscribeLoop: one message at a time, and none of its own.              *)

RelaysAll(n, e) == TRUE
Relays(n, e) == at[e] # n

\* The place in the queue of the message that is taken.
NextOnBusNewest(n) == Len(bus[n])
NextOnBus(n) == 1
RestOfBus(n) ==
    SubSeq(bus[n], 1, NextOnBus(n) - 1) \o SubSeq(bus[n], NextOnBus(n) + 1, Len(bus[n]))

Receive(n) ==
    /\ n \in up /\ targets[n] = {} /\ bus[n] # <<>>
    /\ LET e == bus[n][NextOnBus(n)] IN
       /\ relay' = [relay EXCEPT ![n] = e]
       /\ targets' = [targets EXCEPT ![n] = IF Relays(n, e) THEN Audience(n, e) ELSE {}]
    /\ bus' = [bus EXCEPT ![n] = RestOfBus(n)]
    /\ UNCHANGED <<at, up, pc, present, channels, history, board, asked>>

SendRelayed(n) == n \in up /\ relay[n] # Nothing /\ SendEvent(n, relay[n])

-----------------------------------------------------------------------------
(* boardStream: Register, the snapshot, the read loop, unregister.         *)

Register(c) ==
    /\ pc[c] = "off" /\ NodesUp(c)
    /\ Goto(c, "joined")
    /\ present' = [present EXCEPT ![at[c]] = @ \cup {UserOf[c]}]
    /\ UNCHANGED <<at, up, targets, relay, channels, history, bus, board, asked>>

\* presence.ping: TouchPresence puts the user back, who may have been removed
\* when another tab of the same user was closed.
TouchPresence(c) ==
    /\ Reached(c, "open") /\ asked < Asks
    /\ asked' = asked + 1
    /\ Goto(c, "touched")
    /\ present' = [present EXCEPT ![at[c]] = @ \cup {UserOf[c]}]
    /\ UNCHANGED <<at, up, targets, relay, channels, history, bus, board>>

\* broadcastPresence, at the end of Register, TouchPresence and unregister, and
\* what the handler does after it.
Announcing == {"joined", "touched", "closed"}
AfterPresence(label) ==
    IF label = "joined" THEN "reading" ELSE IF label = "touched" THEN "open" ELSE "gone"

BroadcastPresence(c) ==
    /\ pc[c] \in Announcing /\ NodesUp(c)
    /\ Goto(c, AfterPresence(pc[c]))
    /\ targets' = [targets EXCEPT ![c] = Room(at[c])]
    /\ UNCHANGED <<at, up, present, relay, channels, history, bus, board, asked>>

SendPresence(c) ==
    /\ NodesUp(c)
    /\ \E d \in targets[c] :
          /\ pc[d] \notin ClosedChannel
          /\ Push(d, {})
          /\ targets' = [targets EXCEPT ![c] = @ \ {d}]
    /\ UNCHANGED <<at, up, pc, present, relay, history, bus, board, asked>>

\* sendBoardSnapshot reads the board (task and column lists, taken as one read)
\* and then puts it on the channel.  It asks for 200 tasks, which ListByProject
\* turns into 20: of a larger board some tasks are left out.  When the read fails
\* no snapshot is sent, and the client is not told.
Page == IF Fits THEN {Committed} ELSE SUBSET Committed

ReadBoard(c) ==
    /\ Reached(c, "reading")
    /\ \/ /\ \E page \in Page : board' = [board EXCEPT ![c] = page]
          /\ Goto(c, "loaded")
          /\ UNCHANGED lost
       \/ /\ lost' = [lost EXCEPT ![c] = @ \cup Committed]
          /\ Goto(c, "open")
          /\ UNCHANGED board
    /\ UNCHANGED <<at, up, present, targets, relay, used, history, bus, asked>>

SendSnapshot(c) ==
    /\ Reached(c, "loaded")
    /\ Push(c, board[c])
    /\ covered' = [covered EXCEPT ![c] =
                     IF used'[c] = used[c] THEN @ ELSE @ \cup board[c]]
    /\ board' = [board EXCEPT ![c] = {}]
    /\ Goto(c, "open")
    /\ UNCHANGED <<at, up, present, targets, relay, before, log, unrelayed, bus, asked>>

Resync(c) ==
    /\ Reached(c, "open") /\ asked < Asks
    /\ asked' = asked + 1
    /\ Goto(c, "reading")
    /\ UNCHANGED <<at, up, present, targets, relay, channels, history, bus, board>>

\* What is still in the channel of a client that is gone is written to nobody,
\* and what it was sent is of no interest any more.
Forget(S) ==
    /\ used' = [c \in Conn |-> IF c \in S THEN 0 ELSE used[c]]
    /\ log' = [c \in Conn |-> IF c \in S THEN <<>> ELSE log[c]]
    /\ covered' = [c \in Conn |-> IF c \in S THEN {} ELSE covered[c]]
    /\ lost' = [c \in Conn |-> IF c \in S THEN {} ELSE lost[c]]

\* The presence map is keyed by user: the other tabs of the user vanish with it.
\* (The variant first looks for another tab, when this one is still in the room.)
PresenceKept(c) ==
    IF \E d \in Room(at[c]) : UserOf[d] = UserOf[c] THEN present[at[c]]
    ELSE present[at[c]] \ {UserOf[c]}
PresenceLeft(c) == present[at[c]] \ {UserOf[c]}

\* conn.Close, the critical section of unregister and close(c.Send).
Leave(c) ==
    /\ Goto(c, "closed")
    /\ present' = [present EXCEPT ![at[c]] = PresenceLeft(c)]
    /\ Forget({c})
    /\ UNCHANGED <<at, up, relay, before, unrelayed, bus, board, asked>>

\* The read loop ends.
Unregister(c) == Reached(c, "open") /\ Leave(c) /\ UNCHANGED targets

-----------------------------------------------------------------------------
(* A send on a closed channel panics.                                      *)

MeetsClosed(g) == \E c \in targets[g] : pc[c] \in ClosedChannel

\* The instance is gone, with its clients and whatever its handlers had to do.
Die(n) ==
    /\ up' = up \ {n}
    /\ pc' = [g \in Change \cup Conn |->
                IF at[g] # n THEN pc[g]
                ELSE IF g \in Conn THEN "gone"
                ELSE IF pc[g] \in {"committed", "sending"} THEN "aborted" ELSE pc[g]]
    /\ targets' = [g \in Goroutine |->
                     IF g = n \/ (g \in Change \cup Conn /\ at[g] = n)
                     THEN {} ELSE targets[g]]
    /\ present' = [present EXCEPT ![n] = {}]
    /\ bus' = [bus EXCEPT ![n] = <<>>]
    /\ Forget({c \in Conn : at[c] = n})
    /\ UNCHANGED <<at, relay, before, unrelayed, board, asked>>

\* net/http recovers in the handler of a change: the rest of the clients and
\* the other instances are not told.
PanicInPublish(e) ==
    /\ pc[e] = "sending" /\ NodesUp(e) /\ MeetsClosed(e)
    /\ Goto(e, "aborted")
    /\ targets' = [targets EXCEPT ![e] = {}]
    /\ UNCHANGED <<at, up, present, relay, channels, history, bus, board, asked>>

\* In a websocket handler the deferred unregister runs, unless Register has not
\* returned it yet (then the client stays in the room for ever) or it is the one
\* that panics.
PanicInPresence(c) ==
    /\ NodesUp(c) /\ MeetsClosed(c)
    /\ targets' = [targets EXCEPT ![c] = {}]
    /\ IF pc[c] = "open"
       THEN Leave(c)
       ELSE /\ Goto(c, IF pc[c] = "reading" THEN "leaked" ELSE "gone")
            /\ UNCHANGED <<at, up, present, relay, channels, history, bus, board,
                           asked>>

\* Nobody recovers in the goroutine of the subscriber: the process ends.
PanicInRelay(n) == n \in up /\ MeetsClosed(n) /\ Die(n)

-----------------------------------------------------------------------------
PublishStep(e) == PublishLocal(e) \/ SendLocal(e) \/ PublishRedis(e) \/ PanicInPublish(e)

Next ==
    \/ \E e \in Change : CommitChange(e) \/ PublishStep(e)
    \/ \E n \in Node : Receive(n) \/ SendRelayed(n) \/ PanicInRelay(n)
    \/ \E c \in Conn :
          \/ Register(c) \/ TouchPresence(c) \/ BroadcastPresence(c)
          \/ SendPresence(c) \/ ReadBoard(c) \/ SendSnapshot(c) \/ Resync(c)
          \/ Unregister(c) \/ PanicInPresence(c)
          \/ TakeOut(c)

Spec == Init /\ [][Next]_vars

-----------------------------------------------------------------------------
\* Every variable stays in its domain, and no channel exceeds its capacity.
TypeOK ==
    /\ at \in [Change \cup Conn -> Node]
    /\ up \subseteq Node
    /\ pc \in [Change \cup Conn -> ConnPC \cup ChangePC]
    /\ present \in [Node -> SUBSET User]
    /\ targets \in [Goroutine -> SUBSET Conn]
    /\ relay \in [Node -> Change \cup {Nothing}]
    /\ used \in [Conn -> 0 .. Capacity]
    /\ bus \in [Node -> Seq(Change)]
    /\ board \in [Conn -> SUBSET Change]
    /\ asked \in 0 .. Asks
    /\ before \in [Change -> SUBSET Change]
    /\ log \in [Conn -> Seq(Change)]
    /\ covered \in [Conn -> SUBSET Change]
    /\ lost \in [Conn -> SUBSET Change]
    /\ unrelayed \subseteq Change

\* The presence list names nobody who has no connection, whatever the order in
\* which the tabs of a user come, ping and go.
PresenceHasClient ==
    \A n \in Node : \A u \in present[n] : \E c \in Room(n) : UserOf[c] = u

\* No event reaches a client twice, although each travels two ways.
AtMostOnce == \A c \in Conn : IsInjective(log[c])

\* Where change e still is when client c has not got it yet.
OnItsWay(e, c) ==
    LET n == at[c] IN
    IF at[e] = n
    THEN pc[e] = "committed" \/ (pc[e] = "sending" /\ c \in targets[e])
    ELSE \/ pc[e] \in {"committed", "sending"}
         \/ e \in Range(bus[n])
         \/ (relay[n] = e /\ c \in targets[n])

\* Change e is in a message that was sent to c, still on its way, or lost for one of
\* the reasons the code accepts (a full channel, a snapshot that could not be read,
\* Redis, a publication that panicked).
Accounted(e, c) ==
    \/ e \in covered[c] \cup Range(log[c]) \cup lost[c]
    \/ OnItsWay(e, c)
    \/ e \in unrelayed
    \/ pc[e] = "aborted"

\* Register before the snapshot leaves no gap: once a client has been sent its
\* snapshot, every committed change of somebody else is accounted for.
NoEventIsMissed ==
    \A c \in Conn, e \in Committed :
        pc[c] = "open" /\ UserOf[e] # UserOf[c] => Accounted(e, c)

\* Changes that one instance made one after the other (the second committed
\* when the first had been published) reach every client in that order, on the
\* other instances too.
SameNodeOrder ==
    \A c \in Conn : \A i, j \in DOMAIN log[c] :
        i < j => log[c][j] \notin before[log[c][i]]

\* redis_broker.go:24: the hub "broadcasts to local websocket clients and other
\* task-service instances via Redis"; as long as the instance runs, a
\* publication is not given up half way.
PublishIsNotAborted ==
    \A e \in Change : pc[e] = "aborted" => at[e] \notin up

-----------------------------------------------------------------------------
(* The inductive invariant: why the promises hold.                         *)

\* A handler that is announcing the presence list does nothing else, and whoever is in
\* a room is at an instance that runs.
HandlerOf(c) ==
    /\ targets[c] # {} => pc[c] \in {"reading", "open", "gone"}
    /\ pc[c] \in InRoom => at[c] \in up

Handlers == \A c \in Conn : HandlerOf(c)

\* A publication sends to clients of its own instance, and the changes published before
\* it are past that.
PublicationOf(e) ==
    /\ targets[e] # {} => pc[e] = "sending"
    /\ \A c \in targets[e] : at[c] = at[e]
    /\ \A f \in before[e] : f # e /\ at[f] = at[e] /\ pc[f] = "done"
    /\ pc[e] = "idle" => before[e] = {}

\* What Redis has for a subscriber are published changes, each once, in an order that
\* agrees with the commits; what the subscriber relays comes before them.
SubscriberOf(n) ==
    /\ \A i \in DOMAIN bus[n] : pc[bus[n][i]] = "done"
    /\ \A i, j \in DOMAIN bus[n] :
          i < j => bus[n][i] # bus[n][j] /\ bus[n][j] \notin before[bus[n][i]]
    /\ targets[n] # {} =>
          /\ relay[n] \in Change /\ pc[relay[n]] = "done" /\ at[relay[n]] # n
          /\ \A c \in targets[n] : at[c] = n
          /\ \A i \in DOMAIN bus[n] :
                bus[n][i] # relay[n] /\ bus[n][i] \notin before[relay[n]]

\* A client that has got event e gets neither e again nor a change from before e.
StreamOf(c) ==
    \A i \in DOMAIN log[c] :
        LET n == at[c]  e == log[c][i] IN
        /\ pc[e] # "idle" /\ ~OnItsWay(e, c)
        /\ \A j \in DOMAIN bus[n] : at[bus[n][j]] # n => bus[n][j] \notin before[e]
        /\ targets[n] # {} => relay[n] \notin before[e]

\* Where the messages are and what the logs hold.
FlowInv ==
    /\ \A c \in Conn : StreamOf(c)
    /\ \A e \in Change : PublicationOf(e)
    /\ \A n \in Node : SubscriberOf(n)
    /\ AtMostOnce /\ SameNodeOrder

\* NoEventIsMissed at every place of the handler after the snapshot has been read.
Gapless(c, e) ==
    pc[c] \in {"loaded", "open", "touched"} /\ UserOf[e] # UserOf[c] =>
        Accounted(e, c) \/ (pc[c] = "loaded" /\ e \in board[c])
NoGap == \A c \in Conn, e \in Committed : Gapless(c, e)

=============================================================================
