------------------------------ MODULE MCRooms ------------------------------
(* An instance for TLC of the modules of the chats and the calls, which      *)
(* several people share: one of them, the focus, runs while the other stays  *)
(* where it starts.                                                          *)
(*   chat    two rooms, the user and bob                                     *)
(*   call    ann, who may connect twice, and bob                             *)
EXTENDS ChatRooms, CallRoom, TLC

CONSTANTS room1, room2, me, bob, page1, page2, ann

MCUserOf == page1 :> ann @@ page2 :> bob
MCTries == page1 :> 2 @@ page2 :> 1

VARIABLE focus

roomsVars == <<chatVars, callVars, focus>>

MCInit ==
    /\ focus \in {"chat", "call"}
    /\ ChatInit /\ CallInit
    /\ focus # "chat" => \A r \in Room : roster[r] = {} /\ founder[r] = Self

MCNext ==
    /\ UNCHANGED focus
    /\ \/ focus = "chat" /\ ChatNext /\ UNCHANGED callVars
       \/ focus = "call" /\ CallNext /\ UNCHANGED chatVars

\* The page polls, its loads are answered and the answers handled; the service goes on
\* with what it has begun.  Nobody needs to act, no request or link to fail.
Answers == ServeGet \/ ReceiveRooms \/ ReceiveDetails \/ ReceiveMessages
MCFairness ==
    /\ WF_chatVars(focus = "chat" /\ Poll)
    /\ WF_chatVars(focus = "chat" /\ Answers)
    /\ WF_callVars(focus = "call" /\ ServiceStep)

MCSpec == MCInit /\ [][MCNext]_roomsVars /\ MCFairness

\* The types of both modules.
RoomsTypeOK == ChatTypeOK /\ CallTypeOK
=============================================================================
