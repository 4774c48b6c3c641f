------------------------------ MODULE BoardSync ------------------------------
(***************************************************************************)
(* The board stream on the side of the page: useBoardSync.js.  An effect   *)
(* owns the socket of one project and one access token; its cleanup closes *)
(* the socket, whose close event comes later, when the next effect has one *)
(* of its own.  The references that remember the socket, the heartbeat and *)
(* whether the stream shall run are shared by all the effects.             *)
(***************************************************************************)
EXTENDS Naturals, FiniteSets

CONSTANTS
    Board,     \* projects whose board can be shown
    NoBoard,   \* none selected, or no session
    MaxRuns,   \* bound: effects
    MaxBreaks  \* bound: connections that the network breaks

ASSUME SyncAssumption == {MaxRuns, MaxBreaks} \subseteq Nat /\ NoBoard \notin Board

VARIABLES
    showing,    \* projectId
    run,        \* number of the last effect; those before are disposed
    sockets,    \* those whose close event has not come yet
    timer,      \* the sockets that a reconnectTimer will open
    attempt,    \* reconnectAttemptRef
    heartbeat,  \* the socket that heartbeatRef pings; 0 for none
    connected,  \* boardConnected
    breaks

syncVars == <<showing, run, sockets, timer, attempt, heartbeat, connected, breaks>>

SyncInit ==
    /\ showing = NoBoard /\ run = 0 /\ sockets = {} /\ timer = {} /\ attempt = 0
    /\ heartbeat = 0 /\ connected = FALSE /\ breaks = 0

Socket(n, b) == [of |-> n, board |-> b, state |-> "connecting"]
As(s, state) == [of |-> s.of, board |-> s.board, state |-> state]
Closing(s) == As(s, "closing")
ShouldRun == showing # NoBoard

\* The effect runs again: another project, another token, a sign-out.  The cleanup of
\* the last one is run first.
ChangeBoard ==
    /\ run < MaxRuns /\ run' = run + 1
    /\ \E b \in Board \cup {NoBoard} :
          /\ showing' = b
          /\ sockets' = {Closing(s) : s \in sockets}
                        \cup (IF b = NoBoard THEN {} ELSE {Socket(run', b)})
          /\ heartbeat' = IF b = NoBoard THEN 0 ELSE run'
    /\ timer' = {t \in timer : t.of # run}
    /\ UNCHANGED <<attempt, connected, breaks>>

OnOpen ==
    /\ \E s \in sockets :
          /\ s.state = "connecting"
          /\ sockets' = (sockets \ {s}) \cup {As(s, "open")}
    /\ attempt' = 0 /\ connected' = TRUE
    /\ UNCHANGED <<showing, run, timer, heartbeat, breaks>>

\* A socket that was closed reconnects when its effect is not disposed.  (The variant
\* looks only at the reference, which the next effect has set.)
ReconnectsIfRunning(s) == ShouldRun
Reconnects(s) == s.of = run /\ ShouldRun

\* onclose: of the page's own closing, or of a broken connection.  It clears the one
\* heartbeat there is and says "not connected", whatever socket is open by then.
EndSocket(s) ==
    /\ sockets' = sockets \ {s}
    /\ heartbeat' = 0 /\ connected' = FALSE
    /\ IF Reconnects(s)
       THEN timer' = timer \cup {Socket(s.of, s.board)} /\ attempt' = attempt + 1
       ELSE UNCHANGED <<timer, attempt>>
    /\ UNCHANGED <<showing, run>>
Closed == \E s \in sockets : s.state = "closing" /\ EndSocket(s) /\ UNCHANGED breaks
Breaks ==
    /\ breaks < MaxBreaks /\ breaks' = breaks + 1
    /\ \E s \in sockets : s.state # "closing" /\ EndSocket(s)

\* The timer, after 1, 2, 4, ... at most 30 seconds: connect.
Retry ==
    /\ \E s \in timer :
          /\ timer' = timer \ {s}
          /\ IF ShouldRun
             THEN sockets' = sockets \cup {s} /\ heartbeat' = s.of
             ELSE UNCHANGED <<sockets, heartbeat>>
    /\ UNCHANGED <<showing, run, attempt, connected, breaks>>

SyncNext == ChangeBoard \/ OnOpen \/ Closed \/ Breaks \/ Retry

SyncSpec == SyncInit /\ [][SyncNext]_syncVars

-----------------------------------------------------------------------------
SyncTypeOK ==
    /\ showing \in Board \cup {NoBoard} /\ run \in 0 .. MaxRuns
    /\ sockets \cup timer \subseteq
          [of : 1 .. run, board : Board, state : {"connecting", "open", "closing"}]
    /\ attempt \in Nat /\ heartbeat \in 0 .. run /\ connected \in BOOLEAN
    /\ breaks \in 0 .. MaxBreaks

CurrentSockets == {s \in sockets : s.state # "closing"}

\* However the projects, tokens and broken connections follow each other, events come
\* from one socket, which is that of the project shown, and while the stream shall run
\* there is such a socket or a timer for one.
OneStream ==
    /\ \A s, t \in CurrentSockets \cup timer : s = t
    /\ CurrentSockets = {} \/ timer = {}
    /\ \A s \in CurrentSockets : s.board = showing
    /\ ShouldRun <=> CurrentSockets \cup timer # {}

\* The inductive invariant: what opens or is open belongs to the last effect, what
\* is being closed to an earlier one.
SyncInv ==
    /\ SyncTypeOK
    /\ OneStream
    /\ \A s \in CurrentSockets \cup timer : s.of = run /\ s.board = showing
    /\ \A s \in timer : s.state = "connecting"
    /\ \A s \in sockets \ CurrentSockets : s.of # run
=============================================================================
