----------------------------- MODULE CallMedia -----------------------------
(***************************************************************************)
(* The sound of one page of a call: useWebRTC.js with the part of          *)
(* VideoCall.jsx that negotiates.  The microphone is asked for when the    *)
(* socket opens, an answer and candidates come back for each offer, and    *)
(* every await lets other callbacks run.  Who is in the call is in         *)
(* CallRoom.                                                               *)
(*                                                                         *)
(* The service answers offers in their order; it sends the candidates of   *)
(* an answer from another goroutine, so that they may come before it.      *)
(***************************************************************************)
EXTENDS Naturals, Sequences, FiniteSets

CONSTANTS
    Stream,     \* what getUserMedia returns: one for each request
    NoStream,
    Speaker,    \* other people whose sound the service forwards
    Candidate,  \* the addresses that the service finds for its end
    MaxOffers,  \* bound: offers of the page under way
    MaxWire     \* bound: messages under way when a voice comes or goes

ASSUME MediaAssumption ==
    /\ NoStream \notin Stream /\ IsFiniteSet(Speaker)
    /\ {MaxOffers, MaxWire} \subseteq Nat

VARIABLES
    callState,    \* of the page: in the call, left (runEndSession), gone (unmounted)
    unmuted,      \* isAudioEnabled
    requested,    \* requests for the microphone that wait
    stream,       \* localStreamRef
    live,         \* streams that record
    loud,         \* those whose tracks are enabled
    tardy,        \* history: streams granted to a page that had left
    rivals,       \* history: streams asked for while another request waited
    pc,           \* peerConnectionRef: what it sends, slots to receive, descriptions
    waiting,      \* pendingCandidatesRef
    remoteTracks, \* remoteAudioTrackIdsRef
    heard, applied, \* history: candidates that came, and those the connection knows
    publish,      \* publishOfferTimerRef
    renegotiated, \* hasRemoteOfferRef
    joined,       \* the service has the page's connection in the room
    speaking,     \* the voices that the service forwards
    offered,      \* offers that the service has not answered
    wire          \* messages on the way to the page

mediaPage == <<callState, unmuted>>
microphone == <<requested, stream, live, loud, tardy, rivals>>
negotiation == <<pc, waiting, remoteTracks, heard, applied>>
room == <<joined, speaking>>
mediaVars == <<mediaPage, microphone, negotiation, publish, renegotiated, room, offered, wire>>

NoPc == [open |-> FALSE, sends |-> {}, slots |-> 0, offering |-> FALSE, remote |-> FALSE]

MediaInit ==
    /\ callState = "call" /\ unmuted = FALSE
    /\ requested = {} /\ stream = NoStream /\ live = {} /\ loud = {} /\ tardy = {} /\ rivals = {}
    /\ pc = NoPc /\ waiting = {} /\ remoteTracks = {} /\ heard = {} /\ applied = {}
    /\ publish = FALSE /\ renegotiated = FALSE
    /\ joined = FALSE /\ speaking = {} /\ offered = 0 /\ wire = <<>>

-----------------------------------------------------------------------------
(* The microphone.                                                         *)

\* The page joins: the service tells it of the voices there are and asks for an offer;
\* the timer of the page's own offer is set.
Track(s) == [kind |-> "track", of |-> {s}]
Renew(ss) == [kind |-> "renegotiate", of |-> ss]
JoinRoom ==
    /\ publish' = TRUE /\ joined' = TRUE
    /\ wire' = IF speaking = {} THEN <<>> ELSE <<Renew(speaking)>>

\* onOpen, after a reconnect too, when what was on the way is lost.  A stream that
\* records is used again, silent; otherwise the browser is asked, and meanwhile the
\* connection exists.
AskMicrophone ==
    /\ callState = "call" /\ offered' = 0
    /\ pc' = [[pc EXCEPT !.open = TRUE] EXCEPT !.sends = @ \cup ({stream} \ {NoStream})]
    /\ IF stream # NoStream
       THEN loud' = loud \ {stream} /\ JoinRoom /\ UNCHANGED <<requested, rivals>>
       ELSE /\ \E s \in Stream \ (live \cup rivals \cup requested) :
                 /\ requested' = requested \cup {s}
                 /\ rivals' = IF requested = {} THEN rivals ELSE rivals \cup {s}
            /\ joined' = FALSE /\ wire' = <<>> /\ UNCHANGED <<loud, publish>>
    /\ UNCHANGED <<mediaPage, stream, live, tardy, waiting, remoteTracks, heard, applied,
                   renegotiated, speaking>>

\* The tracks of a new stream that are enabled.  (The variant leaves them as they come.)
EnabledAsGiven(s) == {s}
Enabled(s) == {}

\* The stream comes, silent, and is sent by the connection; a closed connection refuses
\* it, and there is no join.
Granted ==
    /\ \E s \in requested :
          /\ requested' = requested \ {s}
          /\ stream' = s /\ live' = live \cup {s} /\ loud' = loud \cup Enabled(s)
          /\ tardy' = IF callState = "call" THEN tardy ELSE tardy \cup {s}
          /\ IF pc.open
             THEN pc' = [pc EXCEPT !.sends = @ \cup {s}] /\ JoinRoom
             ELSE UNCHANGED <<pc, publish, joined, wire>>
    /\ UNCHANGED <<mediaPage, rivals, waiting, remoteTracks, heard, applied,
                   renegotiated, speaking, offered>>

Denied ==
    /\ \E s \in requested : requested' = requested \ {s}
    /\ UNCHANGED <<mediaPage, stream, live, loud, tardy, rivals, negotiation,
                   publish, renegotiated, room, offered, wire>>

\* handleToggleAudio: the tracks of the last stream.
ToggleAudio ==
    /\ callState = "call"
    /\ unmuted' = ~unmuted
    /\ loud' = IF unmuted THEN loud \ {stream} ELSE loud \cup ({stream} \ {NoStream})
    /\ UNCHANGED <<callState, requested, stream, live, tardy, rivals, negotiation,
                   publish, renegotiated, room, offered, wire>>

\* close: what the connection sends, and the stream, stop.  (The variant stops the
\* stream alone.)
StoppedStream == {stream}
Stopped == pc.sends \cup {stream}
CloseMedia(next) ==
    /\ callState' = next
    /\ live' = live \ Stopped /\ loud' = loud \ Stopped
    /\ stream' = NoStream
    /\ pc' = NoPc
    /\ joined' = FALSE /\ wire' = <<>>
    /\ UNCHANGED <<unmuted, requested, tardy, rivals, waiting, remoteTracks, heard, applied,
                   renegotiated, speaking, offered>>
Quit == callState = "call" /\ CloseMedia("left") /\ UNCHANGED publish
Unmount == callState # "gone" /\ CloseMedia("gone") /\ publish' = FALSE

-----------------------------------------------------------------------------
(* Offers and answers.                                                     *)

\* createOffer: with a slot for each voice that the page knows of.
SlotsFor(known) == IF pc.slots < Cardinality(known) THEN Cardinality(known) ELSE pc.slots
Offer(known) ==
    /\ offered < MaxOffers
    /\ pc' = [[pc EXCEPT !.slots = SlotsFor(known)] EXCEPT !.offering = TRUE]
    /\ offered' = offered + 1

\* The timer of the first offer, which is left to the service when it has asked for one.
FirstOffer ==
    /\ publish /\ publish' = FALSE
    /\ IF renegotiated \/ ~pc.open THEN UNCHANGED <<pc, offered>> ELSE Offer(remoteTracks)
    /\ UNCHANGED <<mediaPage, microphone, waiting, remoteTracks, heard, applied, renegotiated, room, wire>>

\* A message of the service: a voice comes (and an offer is asked for) or goes.
Hears(kind) == callState = "call" /\ wire # <<>> /\ Head(wire).kind = kind /\ wire' = Tail(wire)
TrackAdded ==
    /\ Hears("track")
    /\ remoteTracks' = remoteTracks \cup Head(wire).of
    /\ UNCHANGED <<mediaPage, microphone, pc, waiting, heard, applied, publish, renegotiated, room, offered>>

KnownWith(ss) == remoteTracks \cup ss
Renegotiate ==
    /\ Hears("renegotiate") /\ renegotiated' = TRUE
    /\ remoteTracks' = remoteTracks \cup Head(wire).of
    /\ IF pc.open THEN Offer(KnownWith(Head(wire).of)) ELSE UNCHANGED <<pc, offered>>
    /\ UNCHANGED <<mediaPage, microphone, waiting, heard, applied, publish, room>>
ParticipantLeft ==
    /\ Hears("left")
    /\ remoteTracks' = remoteTracks \ Head(wire).of
    /\ UNCHANGED <<mediaPage, microphone, pc, waiting, heard, applied, publish, renegotiated, room, offered>>

\* setRemoteDescription with an answer: an error when no offer waits for one; otherwise
\* the candidates that have waited are added, and those that come now are not kept.
Answer ==
    /\ Hears("answer")
    /\ IF pc.open /\ pc.offering
       THEN /\ pc' = [[pc EXCEPT !.offering = FALSE] EXCEPT !.remote = TRUE]
            /\ applied' = applied \cup waiting /\ waiting' = {}
       ELSE UNCHANGED <<pc, applied, waiting>>
    /\ UNCHANGED <<mediaPage, microphone, remoteTracks, heard, publish, renegotiated, room, offered>>

\* addIceCandidate: kept until there is a remote description.  (The variant does not
\* keep them: the browser refuses a candidate without a description.)
AddAtOnce(c) ==
    applied' = (IF pc.remote THEN applied \cup {c} ELSE applied) /\ UNCHANGED waiting
AddCandidate(c) ==
    IF pc.remote THEN applied' = applied \cup {c} /\ UNCHANGED waiting
    ELSE waiting' = waiting \cup {c} /\ UNCHANGED applied
IceCandidate ==
    /\ Hears("ice")
    /\ IF pc.open THEN (\E c \in Head(wire).of : AddCandidate(c)) /\ heard' = heard \cup Head(wire).of
       ELSE UNCHANGED <<waiting, applied, heard>>
    /\ UNCHANGED <<mediaPage, microphone, pc, remoteTracks, publish, renegotiated, room, offered>>

-----------------------------------------------------------------------------
(* The service.                                                            *)

Say(msgs) == wire' = wire \o msgs
ServiceAnswers ==
    /\ joined /\ offered > 0 /\ offered' = offered - 1
    /\ \E c \in Candidate :
          LET answer == [kind |-> "answer", of |-> {}]
              ice == [kind |-> "ice", of |-> {c}]
          IN  Say(<<answer, ice>>) \/ Say(<<ice, answer>>)
    /\ UNCHANGED <<mediaPage, microphone, negotiation, publish, renegotiated, room>>
SomeoneSpeaks ==
    /\ callState = "call" /\ Len(wire) < MaxWire
    /\ \E s \in Speaker \ speaking :
          /\ speaking' = speaking \cup {s}
          /\ IF joined THEN Say(<<Track(s), Renew({s})>>) ELSE UNCHANGED wire
    /\ UNCHANGED <<mediaPage, microphone, negotiation, publish, renegotiated, joined, offered>>
SomeoneLeaves ==
    /\ callState = "call" /\ Len(wire) < MaxWire
    /\ \E s \in speaking :
          /\ speaking' = speaking \ {s}
          /\ IF joined THEN Say(<<Renew({}), [kind |-> "left", of |-> {s}]>>) ELSE UNCHANGED wire
    /\ UNCHANGED <<mediaPage, microphone, negotiation, publish, renegotiated, joined, offered>>

MediaNext ==
    \/ AskMicrophone \/ Granted \/ Denied \/ ToggleAudio \/ Quit \/ Unmount
    \/ FirstOffer \/ TrackAdded \/ Renegotiate \/ ParticipantLeft \/ Answer \/ IceCandidate
    \/ ServiceAnswers \/ SomeoneSpeaks \/ SomeoneLeaves

MediaSpec == MediaInit /\ [][MediaNext]_mediaVars

-----------------------------------------------------------------------------
MediaTypeOK ==
    /\ callState \in {"call", "left", "gone"} /\ unmuted \in BOOLEAN
    /\ stream \in Stream \cup {NoStream} /\ live \subseteq Stream /\ loud \subseteq live
    /\ pc.sends \subseteq Stream /\ waiting \cup applied \subseteq Candidate
    /\ remoteTracks \subseteq Speaker /\ offered \in 0 .. MaxOffers

\* 'Камера и микрофон отключаются при выходе' (CallHome.jsx): after the user has left,
\* nothing records but a stream that was asked for before and granted after, however
\* many requests, reconnects and unmounts there were.
MicrophoneReleased == callState # "call" => live \subseteq tardy

\* What a page sends whose microphone is shown as off is silent, unless two requests
\* for the microphone were under way at once.
MutedIsSilent == callState = "call" /\ ~unmuted /\ rivals = {} => loud = {}

\* Nothing that came for the connection is lost on the way in, in whatever order the
\* answer, the candidates and the voices came: once there is a description, all
\* candidates are known, and there is a slot for every voice that is forwarded.
NothingHeardIsLost ==
    pc.open /\ wire = <<>> =>
        /\ pc.remote => heard \subseteq applied
        /\ joined => Cardinality(speaking) <= pc.slots

-----------------------------------------------------------------------------
(* The inductive invariants.                                               *)

Message ==
    [kind : {"track", "renegotiate", "left"}, of : SUBSET Speaker]
    \cup [kind : {"answer"}, of : {{}}]
    \cup [kind : {"ice"}, of : {{c} : c \in Candidate}]

\* What MediaTypeOK does not say of the connection and of what is under way.
MediaTypes ==
    /\ MediaTypeOK
    /\ requested \subseteq Stream /\ rivals \subseteq Stream
    /\ stream \in live \cup {NoStream}
    /\ pc \in [open : BOOLEAN, sends : SUBSET Stream, slots : Nat, offering : BOOLEAN, remote : BOOLEAN]
    /\ speaking \subseteq Speaker
    /\ wire \in Seq(Message)

\* The connection of a page in the call sends every stream that records, and there is
\* one wherever a request waits; a page that has left has none.
MicrophoneInv ==
    /\ callState = "call" => live \subseteq pc.sends /\ (requested # {} => pc.open)
    /\ callState # "call" => live \subseteq tardy /\ ~pc.open

\* Without rivals one request waits at most, while there is no stream; only the stream
\* can be heard.
MuteInv ==
    callState = "call" /\ rivals = {} =>
        /\ \A s, t \in requested : s = t
        /\ requested # {} => stream = NoStream
        /\ loud \subseteq {stream}
        /\ ~unmuted => loud = {}

CandidateInv ==
    /\ heard \subseteq applied \cup waiting
    /\ pc.remote => waiting = {}

\* The page knows of a voice when it has heard the first i messages: the last of them
\* that is about the voice (number 0: what it knows already) does not take it away.
Brings(s, j) ==
    IF j = 0 THEN s \in remoteTracks
    ELSE wire[j].kind \in {"track", "renegotiate"} /\ s \in wire[j].of
TakesAway(s, j) == wire[j].kind = "left" /\ s \in wire[j].of
KnownAfter(s, i) ==
    \E j \in 0 .. i : Brings(s, j) /\ \A k \in j + 1 .. i : ~TakesAway(s, k)

\* In the end the page knows of every voice, and if it has no slot for one, then it will
\* be asked for an offer when it knows of them all.
SlotInv ==
    joined =>
        /\ pc.open
        /\ \A s \in speaking : KnownAfter(s, Len(wire))
        /\ \/ Cardinality(speaking) <= pc.slots
           \/ \E i \in 1 .. Len(wire) :
                 wire[i].kind = "renegotiate" /\ \A s \in speaking : KnownAfter(s, i)
=============================================================================
