------------------------------ MODULE CallRoom ------------------------------
(***************************************************************************)
(* Who is in a call: the pages that take part (CallJoiner, CallCreator,    *)
(* VideoCall), the websocket of each with its reconnects (useWebSocket),   *)
(* and the room of the call in the SFU (main.go), which tells members of   *)
(* each other.  What is negotiated about sound is in CallMedia.            *)
(*                                                                         *)
(* A socket has two ends that close at different times.  The handler of a  *)
(* connection takes the room's lock for a moment, and sends to the others  *)
(* after it has released it.                                               *)
(***************************************************************************)
EXTENDS Naturals, Sequences, FiniteSets

CONSTANTS
    Page, User,
    UserOf,      \* the user of a page: [Page -> User]
    Tries,       \* bound: the connections of each page: [Page -> Nat]
    MaxConn,     \* bound: the connections of all pages
    Capacity,    \* the channel of a peer: 16 messages
    MaxTrouble   \* bound: failures of the network, renewed tokens, lost requests

ASSUME CallAssumption ==
    /\ UserOf \in [Page -> User] /\ Tries \in [Page -> Nat] /\ MaxConn \in Nat
    /\ Capacity \in Nat \ {0} /\ MaxTrouble \in Nat

VARIABLES
    call,      \* the status of the call: live, ended
    page,      \* what each page shows and waits for
    sock,      \* each connection: its page, its two ends, whether its onOpen goes on
    up, down,  \* messages on the way to the service and to the page
    peer,      \* the handler of each connection
    members,   \* room.peers: the connection of each user
    lost,    \* history: connections that lost a message for their page
    trouble

callVars == <<call, page, sock, up, down, peer, members, lost, trouble>>
callNet == <<sock, up, down>>

\* A connection is the n-th of its page.
Conn == UNION {{p} \X (1 .. Tries[p]) : p \in Page}
NoConn == <<>>
Fresh == [client |-> "free", server |-> "free", opening |-> FALSE]
Out == [at |-> "home", ws |-> NoConn, run |-> FALSE, timer |-> FALSE, queue |-> <<>>,
        tiles |-> {}, over |-> FALSE]
Idle == [at |-> "read", todo |-> {}, in |-> FALSE]

CallInit ==
    /\ call = "live"
    /\ page = [p \in Page |-> Out]
    /\ sock = [c \in Conn |-> Fresh]
    /\ up = [c \in Conn |-> <<>>] /\ down = [c \in Conn |-> <<>>]
    /\ peer = [c \in Conn |-> Idle]
    /\ members = [u \in User |-> NoConn]
    /\ lost = {} /\ trouble = 0

Who(c) == UserOf[c[1]]
Trouble == trouble < MaxTrouble /\ trouble' = trouble + 1
IsNext(p, c) ==
    /\ Cardinality({d \in Conn : sock[d].client # "free"}) < MaxConn
    /\ c[1] = p /\ sock[c].client = "free" /\ \A n \in 1 .. c[2] - 1 : sock[<<p, n>>].client # "free"

-----------------------------------------------------------------------------
(* The page and its socket.                                                *)

Using(pg, c) == [[pg EXCEPT !.ws = c] EXCEPT !.timer = FALSE]

\* connect: a page opens a socket, whatever became of the one it had.
Connect(p, c, pg) ==
    /\ IsNext(p, c)
    /\ sock' = [sock EXCEPT ![c] = [Fresh EXCEPT !.client = "dialing"]]
    /\ page' = [page EXCEPT ![p] = Using(pg, c)]

\* handleCreateCall or handleJoinCall has asked the service, which knows a live call,
\* and the page of the call is mounted.
Entered == [[Out EXCEPT !.at = "call"] EXCEPT !.run = TRUE]
Enter ==
    /\ call = "live"
    /\ \E p \in Page, c \in Conn : page[p].at = "home" /\ Connect(p, c, Entered)
    /\ UNCHANGED <<call, up, down, peer, members, lost, trouble>>

\* onopen: queued messages go out, and onOpen asks for the microphone.
Opened ==
    /\ \E c \in Conn :
          LET p == c[1] IN
          /\ sock[c].client = "dialing"
          /\ sock' = [sock EXCEPT ![c] = [client |-> "open", server |-> "open", opening |-> TRUE]]
          /\ up' = [up EXCEPT ![c] = page[p].queue]
          /\ page' = [page EXCEPT ![p].queue = <<>>]
    /\ UNCHANGED <<call, down, peer, members, lost, trouble>>

\* The rest of onOpen: join, through the socket that the page has by now, or in the queue
\* when that one is not open.
Sends(p, pg, msgs) ==
    LET c == pg.ws IN
    IF c # NoConn /\ sock[c].client = "open"
    THEN up' = [up EXCEPT ![c] = @ \o msgs] /\ page' = [page EXCEPT ![p] = pg]
    ELSE page' = [page EXCEPT ![p] = [pg EXCEPT !.queue = @ \o msgs]] /\ UNCHANGED up
Join ==
    /\ \E c \in Conn :
          /\ sock[c].opening
          /\ sock' = [sock EXCEPT ![c].opening = FALSE]
          /\ Sends(c[1], page[c[1]], <<"join">>)
    /\ UNCHANGED <<call, down, peer, members, lost, trouble>>

\* The microphone is refused: a message, and no join.
NoMicrophone ==
    /\ Trouble
    /\ \E c \in Conn : sock[c].opening /\ sock' = [sock EXCEPT ![c].opening = FALSE]
    /\ UNCHANGED <<call, page, up, down, peer, members, lost>>

\* close: of the hook's effect, and when the call ends.
Shut(pg) == [Using(pg, NoConn) EXCEPT !.run = FALSE]
Close(p) ==   \* what is on the way to the page is never heard
    IF page[p].ws = NoConn THEN UNCHANGED <<sock, down>>
    ELSE /\ sock' = [sock EXCEPT ![page[p].ws].client = "closing"]
         /\ down' = [down EXCEPT ![page[p].ws] = <<>>]

\* onclose, of any socket that the page had: unless the page has closed for good, or
\* was told why, it sets a timer.
OnClose ==
    /\ \E c \in Conn :
          LET p == c[1] IN
          /\ \/ sock[c].client = "closing"
             \/ sock[c].client = "open" /\ sock[c].server \in {"cut", "closed"} /\ down[c] = <<>>
          /\ sock' = [sock EXCEPT ![c].client = "closed"]
          /\ page' = [page EXCEPT ![p].timer = @ \/ (page[p].run /\ ~page[p].over)]
    /\ UNCHANGED <<call, up, down, peer, members, lost, trouble>>

Reconnect ==
    /\ \E p \in Page, c \in Conn : page[p].timer /\ Connect(p, c, page[p])
    /\ UNCHANGED <<call, up, down, peer, members, lost, trouble>>

\* The network fails: the page notices at once, the service in its own time.
LinkFails ==
    /\ Trouble
    /\ \E c \in Conn :
          /\ sock[c].client = "open"
          /\ sock' = [sock EXCEPT ![c].client = "closing"]
          /\ \E n \in 0 .. Len(up[c]) : up' = [up EXCEPT ![c] = SubSeq(@, 1, n)]
          /\ down' = [down EXCEPT ![c] = <<>>]
    /\ UNCHANGED <<call, page, peer, members, lost>>

\* A new access token is a new address of the socket: the effect closes and connects.
TokenChanges ==
    /\ Trouble
    /\ \E p \in Page, c \in Conn :
          /\ IsNext(p, c) /\ page[p].at \in {"call", "ending"}
          /\ sock' = [d \in Conn |-> IF d = c THEN [Fresh EXCEPT !.client = "dialing"]
                                     ELSE IF d = page[p].ws THEN [sock[d] EXCEPT !.client = "closing"]
                                     ELSE sock[d]]
          /\ down' = [d \in Conn |-> IF d = page[p].ws THEN <<>> ELSE down[d]]
          /\ page' = [page EXCEPT ![p] = Using(@, c)]
    /\ UNCHANGED <<call, up, peer, members, lost>>

\* Messages of the service: a tile appears with any news of a user, and goes when the
\* user has left; a session that was replaced ends.
Told(pg, p, m) ==
    IF m.kind = "left" THEN [pg EXCEPT !.tiles = @ \ {m.who}]
    ELSE IF m.kind = "replaced" THEN [[Shut(pg) EXCEPT !.at = "left"] EXCEPT !.over = TRUE]
    ELSE IF m.kind = "unavailable" THEN [pg EXCEPT !.over = TRUE]
    ELSE [pg EXCEPT !.tiles = @ \cup ({m.who} \ {UserOf[p]})]
Hear ==
    /\ \E c \in Conn :
          LET p == c[1] IN
          /\ sock[c].client = "open" /\ down[c] # <<>>
          /\ IF page[p].at \notin {"call", "ending"}
             THEN down' = [down EXCEPT ![c] = Tail(@)] /\ UNCHANGED <<page, sock>>
             ELSE /\ page' = [page EXCEPT ![p] = Told(@, p, Head(down[c]))]
                  /\ IF Head(down[c]).kind = "replaced" THEN Close(p)
                     ELSE down' = [down EXCEPT ![c] = Tail(@)] /\ UNCHANGED sock
    /\ UNCHANGED <<call, up, peer, members, lost, trouble>>

\* handleCallEnd: 'end' through the socket and a request that ends the call for all who
\* come later, which may be lost; then, as at a change of page, everything is closed.
HangUp ==
    /\ \E p \in Page :
          page[p].at = "call" /\ Sends(p, [page[p] EXCEPT !.at = "ending"], <<"end">>)
    /\ \/ call' = "ended" /\ UNCHANGED trouble
       \/ Trouble /\ UNCHANGED call
    /\ UNCHANGED <<sock, down, peer, members, lost>>

Leave ==
    /\ \E p \in Page :
          /\ page[p].at \in {"call", "ending"}
          /\ page' = [page EXCEPT ![p] = [Shut(@) EXCEPT !.at = "left"]]
          /\ Close(p)
    /\ UNCHANGED <<call, up, peer, members, lost, trouble>>

\* The user comes back to the call, when the old sockets are closed at this end.
ComeBack ==
    /\ call = "live"
    /\ \E p \in Page :
          /\ page[p].at = "left" /\ page' = [page EXCEPT ![p] = Out]
          /\ \A c \in Conn : c[1] = p => sock[c].client \in {"free", "closed"} /\ ~sock[c].opening
    /\ UNCHANGED <<call, sock, up, down, peer, members, lost, trouble>>

-----------------------------------------------------------------------------
(* The service.                                                            *)

\* sendMessage: what does not fit is dropped.  (The variant lets the queue grow.)
Reaches(c) == sock[c].server = "open" /\ sock[c].client = "open"
FitsAll(msgs) == msgs
Fits(msgs) == IF Len(msgs) > Capacity THEN SubSeq(msgs, 1, Capacity) ELSE msgs
Delivered(news) ==   \* news: [Conn -> Seq of messages]
    /\ down' = [c \in Conn |-> IF Reaches(c) THEN Fits(down[c] \o news[c]) ELSE down[c]]
    /\ lost' = lost \cup {c \in Conn : Reaches(c) /\ Len(down[c] \o news[c]) > Capacity}
Only(c, msgs) == [d \in Conn |-> IF d = c THEN msgs ELSE <<>>]
Msg(kind, u) == [kind |-> kind, who |-> u]

\* addPeer, under the lock: the newcomer takes the user's place, and sees the others.
\* (The variant looks before it enters.)
Others(u, ms) == {ms[v] : v \in User \ {u}} \ {NoConn}
EnterBlind(c) ==
    /\ members' = [members EXCEPT ![Who(c)] = c]
    /\ peer' = [peer EXCEPT ![c] =
          [at |-> "greet", in |-> TRUE,
           todo |-> Others(Who(c), members) \ {d \in Conn : peer[d].at = "greet"}]]
EnterRoom(c) ==
    /\ members' = [members EXCEPT ![Who(c)] = c]
    /\ peer' = [peer EXCEPT ![c] =
          [at |-> "greet", in |-> TRUE, todo |-> Others(Who(c), members)]]

\* The connection that the user had is told and closed.
HandleJoin ==
    /\ \E c \in Conn :
          LET old == members[Who(c)]
              replaced == old \notin {NoConn, c}
          IN  /\ sock[c].server = "open" /\ peer[c].at = "read" /\ up[c] # <<>> /\ Head(up[c]) = "join"
              /\ up' = [up EXCEPT ![c] = Tail(@)]
              /\ IF call = "ended"
                 THEN /\ Delivered(Only(c, <<Msg("unavailable", Who(c))>>))
                      /\ peer' = [peer EXCEPT ![c].at = "drop"]
                      /\ UNCHANGED <<members, sock>>
                 ELSE /\ EnterRoom(c)
                      /\ IF ~replaced THEN UNCHANGED <<sock, down, lost>>
                         ELSE /\ sock' = [sock EXCEPT ![old].server = "cut"]
                              /\ \E n \in IF Reaches(old) THEN 0 .. Len(Fits(Append(down[old], Msg("replaced", Who(c))))) ELSE {0} :
                                    down' = [down EXCEPT ![old] = SubSeq(Append(@, Msg("replaced", Who(c))), 1, n)]
                              /\ UNCHANGED lost
    /\ UNCHANGED <<call, page, trouble>>

\* Then each of them hears of the other.
Greet ==
    /\ \E c \in Conn :
          /\ peer[c].at = "greet"
          /\ IF peer[c].todo = {}
             THEN peer' = [peer EXCEPT ![c].at = "read"] /\ UNCHANGED <<down, lost>>
             ELSE \E d \in peer[c].todo :
                    /\ peer' = [peer EXCEPT ![c].todo = @ \ {d}]
                    /\ Delivered([e \in Conn |-> IF e = d THEN <<Msg("joined", Who(c))>>
                                                 ELSE IF e = c THEN <<Msg("media", Who(d))>> ELSE <<>>])
    /\ UNCHANGED <<call, page, sock, up, members, trouble>>

\* 'end' removes the peer, and so does the end of the handler again; removePeer deletes
\* whatever connection the user has.  (The variant forgets the end of the handler.)
LeavesOnEnd(c, why) == why = "end" /\ peer[c].in
Leaves(c, why) == peer[c].in
RemovePeer(c, next) ==
    /\ members' = [members EXCEPT ![Who(c)] = NoConn]
    /\ peer' = [peer EXCEPT ![c] =
          [at |-> next, in |-> @.in, todo |-> Others(Who(c), members)]]
HandleEnd ==
    /\ \E c \in Conn :
          /\ sock[c].server = "open" /\ peer[c].at = "read" /\ up[c] # <<>> /\ Head(up[c]) = "end"
          /\ up' = [up EXCEPT ![c] = <<>>]
          /\ IF Leaves(c, "end") THEN RemovePeer(c, "left")
             ELSE peer' = [peer EXCEPT ![c].at = "drop"] /\ UNCHANGED members
    /\ UNCHANGED <<call, page, sock, down, lost, trouble>>
SayLeft ==
    /\ \E c \in Conn :
          /\ peer[c].at = "left"
          /\ Delivered([d \in Conn |-> IF d \in peer[c].todo THEN <<Msg("left", Who(c))>> ELSE <<>>])
          /\ peer' = [peer EXCEPT ![c] = [at |-> "drop", in |-> @.in, todo |-> {}]]
    /\ UNCHANGED <<call, page, sock, up, members, trouble>>

\* The handler ends after 'end' or an error, or when its read fails: the page or the
\* network has closed, or a newer connection did it.
Ends(c) ==
    \/ peer[c].at = "drop"
    \/ /\ peer[c].at = "read"
       /\ \/ sock[c].server = "open" /\ sock[c].client \in {"closing", "closed"} /\ up[c] = <<>>
          \/ sock[c].server = "cut"
Drop ==
    /\ \E c \in Conn :
          /\ Ends(c)
          /\ IF Leaves(c, "drop") THEN RemovePeer(c, "gone")
             ELSE peer' = [peer EXCEPT ![c].at = "gone"] /\ UNCHANGED members
    /\ UNCHANGED <<call, page, sock, up, down, lost, trouble>>

\* The others hear of it and the socket is closed; what the write pump has not sent
\* by then is lost.
CloseConn ==
    /\ \E c \in Conn :
          /\ peer[c].at = "gone"
          /\ peer' = [peer EXCEPT ![c] = [at |-> "closed", in |-> @.in, todo |-> {}]]
          /\ sock' = [sock EXCEPT ![c].server = "closed"]
          /\ up' = [up EXCEPT ![c] = <<>>]
          /\ LET told == [d \in Conn |-> IF d \in peer[c].todo /\ Reaches(d)
                                          THEN Append(down[d], Msg("left", Who(c))) ELSE down[d]]
             IN  /\ \E n \in IF sock[c].server = "cut" THEN {Len(down[c])} ELSE 0 .. Len(down[c]) :
                       down' = [d \in Conn |-> IF d = c THEN SubSeq(down[d], 1, n) ELSE Fits(told[d])]
                 /\ lost' = lost \cup {d \in Conn : Len(told[d]) > Capacity}
    /\ UNCHANGED <<call, page, members, trouble>>

-----------------------------------------------------------------------------
ServiceStep ==
    HandleJoin \/ Greet \/ HandleEnd \/ SayLeft \/ Drop \/ CloseConn

CallNext ==
    \/ Enter \/ Opened \/ Join \/ NoMicrophone \/ OnClose \/ Reconnect \/ LinkFails \/ TokenChanges
    \/ Hear \/ HangUp \/ Leave \/ ComeBack
    \/ ServiceStep

CallSpec == CallInit /\ [][CallNext]_callVars

Word == {"join", "end"}
News == [kind : {"joined", "media", "left", "replaced", "unavailable"}, who : User]
CallTypeOK ==
    /\ call \in {"live", "ended"} /\ lost \subseteq Conn
    /\ page \in [Page -> [at : {"home", "call", "ending", "left"}, ws : Conn \cup {NoConn},
                          run : BOOLEAN, timer : BOOLEAN, queue : Seq(Word),
                          tiles : SUBSET User, over : BOOLEAN]]
    /\ \A p \in Page : UserOf[p] \notin page[p].tiles
    /\ sock \in [Conn -> [client : {"free", "dialing", "open", "closing", "closed"},
                          server : {"free", "open", "cut", "closed"}, opening : BOOLEAN]]
    /\ up \in [Conn -> Seq(Word)] /\ down \in [Conn -> Seq(News)]
    /\ \A c \in Conn : Len(down[c]) <= Capacity
    /\ peer \in [Conn -> [at : {"read", "greet", "left", "drop", "gone", "closed"},
                          todo : SUBSET Conn, in : BOOLEAN]]
    /\ members \in [User -> Conn \cup {NoConn}]
    /\ trouble \in 0 .. MaxTrouble

\* Two users who have come to a call, each by one connection, and stay, see each
\* other when all news has arrived, in whatever order the handlers of the two went
\* about it (addPeer sends after it has released the lock).
Settled(c) ==
    /\ sock[c].client = "open" /\ peer[c].at = "read" /\ peer[c].in
    /\ down[c] = <<>> /\ c \notin lost
OnlyConn(c) == \A d \in Conn : Who(d) = Who(c) /\ sock[d].client # "free" => d = c
MembersAreSeen ==
    \A c, d \in Conn :
        Settled(c) /\ Settled(d) /\ OnlyConn(c) /\ OnlyConn(d) /\ Who(c) # Who(d)
            /\ page[c[1]].at = "call"
        => Who(d) \in page[c[1]].tiles

\* A user whose sockets are all closed at the user's end does not stay in the room for
\* good, however it ended: with 'end', with the page, or with the network.
Away(u) == \A c \in Conn : Who(c) = u => sock[c].client \notin {"dialing", "open"}
LeftIsGone == \A u \in User : []<>(Away(u) => members[u] = NoConn)

-----------------------------------------------------------------------------
(* The inductive invariant of MembersAreSeen.                              *)

\* The service knows nothing of a socket that is not open yet.
UnopenedOf(c) ==
    /\ sock[c].client \in {"free", "dialing"} => sock[c].server = "free"
    /\ sock[c].client = "open" => sock[c].server # "free"
    /\ sock[c].server = "free" => peer[c] = Idle

\* Who is in the room is there by a connection of their own that has joined.
MemberOf(u) ==
    LET c == members[u] IN
    c # NoConn => Who(c) = u /\ sock[c].server # "free"

\* A connection that has joined and was not removed, the only one of its user, is open
\* and in the room, and nobody has been told that the user left.
Present(c) == peer[c].in /\ peer[c].at \in {"read", "greet"}
OnlyOf(c) ==
    OnlyConn(c) =>
        /\ Present(c) => members[Who(c)] = c /\ sock[c].server = "open"
        /\ peer[c].at \in {"read", "greet"} =>
              \A d \in Conn : \A i \in DOMAIN down[d] : down[d][i] # Msg("left", Who(c))

\* Of two such connections, each has a tile for the other, or news of it on its way, or
\* one of the two handlers is still going to tell.
Comes(c, d) ==
    \E i \in DOMAIN down[c] : down[c][i] \in {Msg("joined", Who(d)), Msg("media", Who(d))}
Greets(c, d) == peer[c].at = "greet" /\ d \in peer[c].todo
NewsOf(c, d) ==
    /\ OnlyConn(c) /\ OnlyConn(d) /\ Who(c) # Who(d) /\ Present(c) /\ Present(d)
    /\ sock[c].client = "open" /\ c \notin lost /\ page[c[1]].at = "call"
    => Who(d) \in page[c[1]].tiles \/ Comes(c, d) \/ Greets(c, d) \/ Greets(d, c)

SocketInv == (\A c \in Conn : UnopenedOf(c)) /\ \A u \in User : MemberOf(u)
PresentInv == \A c \in Conn : OnlyOf(c)
SeenInv == \A c, d \in Conn : NewsOf(c, d)
=============================================================================
