----------------------------- MODULE PagesProofs -----------------------------
(***************************************************************************)
(* Why the sound of a page of a call is right, for any number of streams,  *)
(* voices, candidates and messages under way: the microphone is released,  *)
(* a muted page is silent, and nothing that was heard is lost.  And, last, *)
(* that the pages of the instance for TLC behave as their modules say, so  *)
(* that what is proved of each holds of what the run checks.               *)
(***************************************************************************)
EXTENDS MCPages, BoardPageProofs, BoardColumnsProofs, FiniteSetTheorems, TLAPS

USE MediaAssumption

Connection ==
    [open : BOOLEAN, sends : SUBSET Stream, slots : Nat, offering : BOOLEAN, remote : BOOLEAN]

MicrophoneOK ==
    /\ callState \in {"call", "left", "gone"} /\ unmuted \in BOOLEAN
    /\ stream \in live \cup {NoStream} /\ live \subseteq Stream /\ loud \subseteq live
    /\ requested \subseteq Stream /\ rivals \subseteq Stream
NegotiationOK ==
    /\ pc \in Connection
    /\ waiting \subseteq Candidate /\ applied \subseteq Candidate
    /\ remoteTracks \subseteq Speaker
ServiceOK ==
    /\ offered \in 0 .. MaxOffers
    /\ speaking \subseteq Speaker
WireOK == wire \in Seq(Message)
Typed == MicrophoneOK /\ NegotiationOK /\ ServiceOK /\ WireOK

LEMMA TypedIs == Typed <=> MediaTypes
  BY DEF Typed, MicrophoneOK, NegotiationOK, ServiceOK, WireOK, MediaTypes, MediaTypeOK, Connection

-----------------------------------------------------------------------------
(* The operators of the model.                                             *)

LEMMA HeadIsMessage ==
  ASSUME WireOK, wire # <<>>
  PROVE  /\ Head(wire) = wire[1] /\ wire[1] \in Message
         /\ Tail(wire) \in Seq(Message)
         /\ Len(wire) \in Nat /\ Len(wire) >= 1
         /\ Len(Tail(wire)) = Len(wire) - 1
         /\ \A i \in 1 .. Len(wire) - 1 : Tail(wire)[i] = wire[i + 1]
  BY DEF WireOK

LEMMA VoicesOf ==
  ASSUME NEW m \in Message, m.kind \in {"track", "renegotiate", "left"}
  PROVE  m.of \subseteq Speaker
  BY DEF Message

LEMMA CandidateOf ==
  ASSUME NEW m \in Message, m.kind = "ice"
  PROVE  \E c \in Candidate : m.of = {c}
  BY DEF Message

LEMMA SaidTyped ==
  ASSUME WireOK, NEW m \in Message, NEW n \in Message
  PROVE  /\ wire \o <<m, n>> \in Seq(Message)
         /\ Len(wire) \in Nat
         /\ Len(wire \o <<m, n>>) = Len(wire) + 2
         /\ \A i \in 1 .. Len(wire) : (wire \o <<m, n>>)[i] = wire[i]
         /\ (wire \o <<m, n>>)[Len(wire) + 1] = m
         /\ (wire \o <<m, n>>)[Len(wire) + 2] = n
  BY DEF WireOK

\* Voices are counted: a set with fewer of them is not larger.
LEMMA FewerVoices ==
  ASSUME NEW A, NEW B, A \subseteq B, B \subseteq Speaker
  PROVE  Cardinality(A) \in Nat /\ Cardinality(B) \in Nat /\ Cardinality(A) <= Cardinality(B)
  <1>1. IsFiniteSet(B)
    BY FS_Subset
  <1>2. QED
    BY <1>1, FS_Subset, FS_CardinalityType

LEMMA SlotsAreEnough ==
  ASSUME NegotiationOK, NEW known, known \subseteq Speaker
  PROVE  SlotsFor(known) \in Nat /\ SlotsFor(known) >= pc.slots /\ SlotsFor(known) >= Cardinality(known)
  <1>1. pc.slots \in Nat
    BY DEF NegotiationOK, Connection
  <1>2. Cardinality(known) \in Nat
    BY FewerVoices
  <1>3. QED
    BY <1>1, <1>2 DEF SlotsFor

LEMMA OfferFields ==
  ASSUME NegotiationOK, ServiceOK, NEW known, known \subseteq Speaker, Offer(known)
  PROVE  /\ pc' \in Connection
         /\ pc'.open = pc.open /\ pc'.sends = pc.sends /\ pc'.remote = pc.remote
         /\ pc'.slots >= pc.slots /\ pc'.slots >= Cardinality(known)
         /\ offered' \in 0 .. MaxOffers
  <1>1. SlotsFor(known) \in Nat /\ SlotsFor(known) >= pc.slots /\ SlotsFor(known) >= Cardinality(known)
    BY SlotsAreEnough
  <1>2. pc' = [[pc EXCEPT !.slots = SlotsFor(known)] EXCEPT !.offering = TRUE]
    BY DEF Offer
  <1>3. pc' \in Connection
    BY <1>1, <1>2 DEF NegotiationOK, Connection
  <1>4. /\ pc'.open = pc.open /\ pc'.sends = pc.sends /\ pc'.remote = pc.remote
        /\ pc'.slots = SlotsFor(known)
    BY <1>2 DEF NegotiationOK, Connection
  <1>5. QED
    BY <1>1, <1>3, <1>4 DEF Offer, ServiceOK

LEMMA JoinFields ==
  ASSUME ServiceOK, JoinRoom
  PROVE  /\ WireOK'
         /\ speaking = {} \/ wire' = <<Renew(speaking)>>
         /\ joined'
  <1>1. Renew(speaking) \in Message
    BY DEF Renew, Message, ServiceOK
  <1>2. CASE speaking = {}
    BY <1>2 DEF JoinRoom, WireOK
  <1>3. CASE speaking # {}
    BY <1>1, <1>3 DEF JoinRoom, WireOK
  <1>4. QED
    BY <1>2, <1>3 DEF JoinRoom

-----------------------------------------------------------------------------
(* The types, one lemma per action.                                        *)

LEMMA InitTyped == MediaInit => Typed
  <1> SUFFICES ASSUME MediaInit PROVE Typed
    OBVIOUS
  <1> USE DEF MediaInit
  <1>1. MicrophoneOK
    BY DEF MicrophoneOK
  <1>2. NegotiationOK
    BY DEF NegotiationOK, Connection, NoPc
  <1>3. ServiceOK /\ WireOK
    BY DEF ServiceOK, WireOK
  <1>4. QED
    BY <1>1, <1>2, <1>3 DEF Typed

LEMMA AskTyped == ASSUME Typed, AskMicrophone PROVE Typed'
  <1>1. MicrophoneOK'
    <2>1. CASE stream # NoStream
      BY <2>1 DEF AskMicrophone, Typed, MicrophoneOK, mediaPage
    <2>2. CASE stream = NoStream
      BY <2>2 DEF AskMicrophone, Typed, MicrophoneOK, mediaPage
    <2>3. QED
      BY <2>1, <2>2
  <1>2. NegotiationOK'
    <2>1. pc' = [[pc EXCEPT !.open = TRUE] EXCEPT !.sends = @ \cup ({stream} \ {NoStream})]
      BY DEF AskMicrophone
    <2>2. {stream} \ {NoStream} \subseteq Stream
      BY DEF Typed, MicrophoneOK
    <2>3. pc' \in Connection
      BY <2>1, <2>2 DEF Typed, NegotiationOK, Connection
    <2>4. QED
      BY <2>3 DEF AskMicrophone, Typed, NegotiationOK
  <1>3. ServiceOK'
    BY DEF AskMicrophone, Typed, ServiceOK
  <1>4. WireOK'
    <2>1. CASE stream # NoStream
      BY <2>1, JoinFields DEF AskMicrophone, Typed
    <2>2. CASE stream = NoStream
      BY <2>2 DEF AskMicrophone, WireOK
    <2>3. QED
      BY <2>1, <2>2
  <1>5. QED
    BY <1>1, <1>2, <1>3, <1>4 DEF Typed

LEMMA GrantedTyped == ASSUME Typed, Granted PROVE Typed'
  <1>1. PICK s \in requested :
          /\ requested' = requested \ {s}
          /\ stream' = s /\ live' = live \cup {s} /\ loud' = loud \cup Enabled(s)
          /\ IF pc.open
             THEN pc' = [pc EXCEPT !.sends = @ \cup {s}] /\ JoinRoom
             ELSE UNCHANGED <<pc, publish, joined, wire>>
    BY DEF Granted
  <1>2. s \in Stream
    BY DEF Typed, MicrophoneOK
  <1>3. MicrophoneOK'
    BY <1>1, <1>2 DEF Granted, Typed, MicrophoneOK, mediaPage, Enabled
  <1>4. pc' \in Connection
    BY <1>1, <1>2 DEF Typed, NegotiationOK, Connection
  <1>5. NegotiationOK'
    BY <1>4 DEF Granted, Typed, NegotiationOK
  <1>6. ServiceOK'
    BY DEF Granted, Typed, ServiceOK
  <1>7. WireOK'
    BY <1>1, JoinFields DEF Typed, WireOK
  <1>8. QED
    BY <1>3, <1>5, <1>6, <1>7 DEF Typed

LEMMA SwitchTyped == ASSUME Typed, Denied \/ ToggleAudio PROVE Typed'
  <1>1. UNCHANGED <<negotiation, room, offered, wire>>
    BY DEF Denied, ToggleAudio
  <1>2. NegotiationOK' /\ ServiceOK' /\ WireOK'
    BY <1>1 DEF negotiation, room, Typed, NegotiationOK, ServiceOK, WireOK
  <1>3. CASE Denied
    BY <1>2, <1>3 DEF Denied, Typed, MicrophoneOK, mediaPage
  <1>4. CASE ToggleAudio
    BY <1>2, <1>4 DEF ToggleAudio, Typed, MicrophoneOK
  <1>5. QED
    BY <1>3, <1>4

LEMMA CloseTyped == ASSUME Typed, Quit \/ Unmount PROVE Typed'
  <1>1. PICK next \in {"left", "gone"} : CloseMedia(next)
    BY DEF Quit, Unmount
  <1>2. MicrophoneOK'
    BY <1>1 DEF CloseMedia, Typed, MicrophoneOK
  <1>3. NegotiationOK'
    BY <1>1 DEF CloseMedia, Typed, NegotiationOK, Connection, NoPc
  <1>4. ServiceOK' /\ WireOK'
    BY <1>1 DEF CloseMedia, Typed, ServiceOK, WireOK
  <1>5. QED
    BY <1>2, <1>3, <1>4 DEF Typed

LEMMA FirstOfferTyped == ASSUME Typed, FirstOffer PROVE Typed'
  <1>1. remoteTracks \subseteq Speaker
    BY DEF Typed, NegotiationOK
  <1>2. pc' \in Connection /\ offered' \in 0 .. MaxOffers
    <2>1. CASE renegotiated \/ ~pc.open
      BY <2>1 DEF FirstOffer, Typed, NegotiationOK, ServiceOK
    <2>2. CASE ~(renegotiated \/ ~pc.open)
      BY <1>1, <2>2, OfferFields DEF FirstOffer, Typed
    <2>3. QED
      BY <2>1, <2>2
  <1>3. QED
    BY <1>2 DEF FirstOffer, mediaPage, microphone, room, Typed, MicrophoneOK, NegotiationOK,
                ServiceOK, WireOK

LEMMA HearsTyped ==
  ASSUME Typed,
         TrackAdded \/ Renegotiate \/ ParticipantLeft \/ Answer \/ IceCandidate
  PROVE  Typed'
  <1>1. wire # <<>> /\ wire' = Tail(wire)
    BY DEF TrackAdded, Renegotiate, ParticipantLeft, Answer, IceCandidate, Hears
  <1>2. Head(wire) \in Message /\ WireOK'
    BY <1>1, HeadIsMessage DEF Typed, WireOK
  <1>3. MicrophoneOK'
    BY DEF TrackAdded, Renegotiate, ParticipantLeft, Answer, IceCandidate, mediaPage, microphone,
           Typed, MicrophoneOK
  <1>4. speaking' \subseteq Speaker
    BY DEF TrackAdded, Renegotiate, ParticipantLeft, Answer, IceCandidate, room, Typed, ServiceOK
  <1>5. NegotiationOK' /\ offered' \in 0 .. MaxOffers
    <2>1. CASE TrackAdded
      <3>1. Head(wire).of \subseteq Speaker
        BY <1>2, <2>1, VoicesOf DEF TrackAdded, Hears
      <3>2. QED
        BY <2>1, <3>1 DEF TrackAdded, Typed, NegotiationOK, ServiceOK
    <2>2. CASE Renegotiate
      <3>1. Head(wire).of \subseteq Speaker
        BY <1>2, <2>2, VoicesOf DEF Renegotiate, Hears
      <3>2. KnownWith(Head(wire).of) \subseteq Speaker
        BY <3>1 DEF KnownWith, Typed, NegotiationOK
      <3>3. pc' \in Connection /\ offered' \in 0 .. MaxOffers
        <4>1. CASE pc.open
          BY <2>2, <3>2, <4>1, OfferFields DEF Renegotiate, Typed
        <4>2. CASE ~pc.open
          BY <2>2, <4>2 DEF Renegotiate, Typed, NegotiationOK, ServiceOK
        <4>3. QED
          BY <4>1, <4>2
      <3>4. QED
        BY <2>2, <3>1, <3>3 DEF Renegotiate, Typed, NegotiationOK
    <2>3. CASE ParticipantLeft
      BY <2>3 DEF ParticipantLeft, Typed, NegotiationOK, ServiceOK
    <2>4. CASE Answer
      <3>1. pc' \in Connection
        BY <2>4 DEF Answer, Typed, NegotiationOK, Connection
      <3>2. waiting' \subseteq Candidate /\ applied' \subseteq Candidate
        BY <2>4 DEF Answer, Typed, NegotiationOK
      <3>3. QED
        BY <2>4, <3>1, <3>2 DEF Answer, Typed, NegotiationOK, ServiceOK
    <2>5. CASE IceCandidate
      <3>1. Head(wire).of \subseteq Candidate
        BY <1>2, <2>5, CandidateOf DEF IceCandidate, Hears
      <3>2. waiting' \subseteq Candidate /\ applied' \subseteq Candidate
        BY <2>5, <3>1 DEF IceCandidate, AddCandidate, Typed, NegotiationOK
      <3>3. QED
        BY <2>5, <3>2 DEF IceCandidate, Typed, NegotiationOK, ServiceOK
    <2>6. QED
      BY <2>1, <2>2, <2>3, <2>4, <2>5
  <1>6. QED
    BY <1>2, <1>3, <1>4, <1>5 DEF Typed, ServiceOK

LEMMA SpeaksFields ==
  ASSUME Typed, SomeoneSpeaks
  PROVE  \E s \in Speaker :
            /\ Track(s) \in Message /\ Renew({s}) \in Message
            /\ speaking' = speaking \cup {s}
            /\ wire' = IF joined THEN wire \o <<Track(s), Renew({s})>> ELSE wire
  <1>1. PICK s \in Speaker \ speaking :
            /\ speaking' = speaking \cup {s}
            /\ IF joined THEN Say(<<Track(s), Renew({s})>>) ELSE UNCHANGED wire
    BY DEF SomeoneSpeaks
  <1>2. Track(s) \in Message /\ Renew({s}) \in Message
    BY DEF Track, Renew, Message
  <1>3. QED
    BY <1>1, <1>2 DEF Say

Gone(s) == [kind |-> "left", of |-> {s}]
LEMMA LeavesFields ==
  ASSUME Typed, SomeoneLeaves
  PROVE  \E s \in speaking :
            /\ Renew({}) \in Message /\ Gone(s) \in Message
            /\ speaking' = speaking \ {s}
            /\ wire' = IF joined THEN wire \o <<Renew({}), Gone(s)>> ELSE wire
  <1>1. PICK s \in speaking :
            /\ speaking' = speaking \ {s}
            /\ IF joined THEN Say(<<Renew({}), Gone(s)>>) ELSE UNCHANGED wire
    BY DEF SomeoneLeaves, Gone
  <1>2. s \in Speaker
    BY DEF Typed, ServiceOK
  <1>3. Renew({}) \in Message /\ Gone(s) \in Message
    BY <1>2 DEF Gone, Renew, Message
  <1>4. QED
    BY <1>1, <1>3 DEF Say

LEMMA AnswersFields ==
  ASSUME Typed, ServiceAnswers
  PROVE  /\ joined
         /\ \E m, n \in Message :
              /\ m.kind \in {"answer", "ice"} /\ n.kind \in {"answer", "ice"}
              /\ wire' = wire \o <<m, n>>
  <1>1. PICK c \in Candidate :
          LET answer == [kind |-> "answer", of |-> {}]
              ice == [kind |-> "ice", of |-> {c}]
          IN  Say(<<answer, ice>>) \/ Say(<<ice, answer>>)
    BY DEF ServiceAnswers
  <1> DEFINE answer == [kind |-> "answer", of |-> {}]
             ice == [kind |-> "ice", of |-> {c}]
  <1>2. answer \in Message /\ ice \in Message
    BY DEF Message
  <1>3. answer.kind = "answer" /\ ice.kind = "ice"
    OBVIOUS
  <1>4. wire' = wire \o <<answer, ice>> \/ wire' = wire \o <<ice, answer>>
    BY <1>1 DEF Say
  <1>5. QED
    BY <1>2, <1>3, <1>4 DEF ServiceAnswers

LEMMA RoomTyped ==
  ASSUME Typed, ServiceAnswers \/ SomeoneSpeaks \/ SomeoneLeaves
  PROVE  Typed'
  <1>1. UNCHANGED <<mediaPage, microphone, negotiation>>
    BY DEF ServiceAnswers, SomeoneSpeaks, SomeoneLeaves
  <1>2. MicrophoneOK' /\ NegotiationOK'
    BY <1>1 DEF mediaPage, microphone, negotiation, Typed, MicrophoneOK, NegotiationOK
  <1>3. offered' \in 0 .. MaxOffers
    BY DEF ServiceAnswers, SomeoneSpeaks, SomeoneLeaves, Typed, ServiceOK
  <1>4. speaking' \subseteq Speaker /\ WireOK'
    <2>1. CASE ServiceAnswers
      <3>1. WireOK'
        BY <2>1, AnswersFields, SaidTyped, ZenonT(40) DEF Typed, WireOK
      <3>2. QED
        BY <2>1, <3>1 DEF ServiceAnswers, room, Typed, ServiceOK
    <2>2. CASE SomeoneSpeaks
      <3>1. PICK s \in Speaker :
                /\ Track(s) \in Message /\ Renew({s}) \in Message
                /\ speaking' = speaking \cup {s}
                /\ wire' = IF joined THEN wire \o <<Track(s), Renew({s})>> ELSE wire
        BY <2>2, SpeaksFields
      <3>2. wire \o <<Track(s), Renew({s})>> \in Seq(Message)
        BY <3>1, SaidTyped DEF Typed
      <3>3. WireOK'
        BY <3>1, <3>2 DEF Typed, WireOK
      <3>4. QED
        BY <3>1, <3>3 DEF Typed, ServiceOK
    <2>3. CASE SomeoneLeaves
      BY <2>3, LeavesFields, SaidTyped, ZenonT(40) DEF Typed, WireOK, ServiceOK
    <2>4. QED
      BY <2>1, <2>2, <2>3
  <1>5. QED
    BY <1>2, <1>3, <1>4 DEF Typed, ServiceOK

LEMMA NextTyped == ASSUME Typed, [MediaNext]_mediaVars PROVE Typed'
  <1>1. CASE UNCHANGED mediaVars
    BY <1>1 DEF mediaVars, mediaPage, microphone, negotiation, room,
                Typed, MicrophoneOK, NegotiationOK, ServiceOK, WireOK
  <1>2. QED
    BY <1>1, AskTyped, GrantedTyped, SwitchTyped, CloseTyped, FirstOfferTyped, HearsTyped, RoomTyped
       DEF MediaNext

\* The page never hears what is not a message, knows of no voice and no candidate that
\* there is not, and only a stream that records can be heard.
THEOREM MediaTyped == MediaSpec => []MediaTypes
  <1>1. MediaSpec => []Typed
    BY InitTyped, NextTyped, PTL DEF MediaSpec
  <1>2. Typed => MediaTypes
    BY TypedIs
  <1>3. QED
    BY <1>1, <1>2, PTL

-----------------------------------------------------------------------------
(* The microphone.                                                         *)

LEMMA InitMicrophone == MediaInit => MicrophoneInv /\ MuteInv
  BY DEF MediaInit, MicrophoneInv, MuteInv, NoPc

LEMMA AskMicrophoneInv ==
  ASSUME Typed, MicrophoneInv, MuteInv, AskMicrophone
  PROVE  MicrophoneInv' /\ MuteInv'
  <1>1. UNCHANGED <<callState, unmuted, stream, live, tardy>> /\ callState = "call"
    BY DEF AskMicrophone, mediaPage
  <1>2. pc'.open /\ pc.sends \subseteq pc'.sends
    BY DEF AskMicrophone, Typed, NegotiationOK, Connection
  <1>3. MicrophoneInv'
    BY <1>1, <1>2 DEF MicrophoneInv
  <1>4. CASE stream # NoStream
    <2>1. UNCHANGED <<requested, rivals>> /\ loud' = loud \ {stream}
      BY <1>4 DEF AskMicrophone
    <2>2. QED
      BY <1>1, <1>3, <2>1 DEF MuteInv
  <1>5. CASE stream = NoStream
    <2>1. UNCHANGED loud
      BY <1>5 DEF AskMicrophone
    <2>2. PICK s \in Stream :
            /\ requested' = requested \cup {s}
            /\ rivals' = IF requested = {} THEN rivals ELSE rivals \cup {s}
      BY <1>5 DEF AskMicrophone
    <2>3. rivals' = {} => rivals = {} /\ requested = {}
      BY <2>2
    <2>4. QED
      BY <1>1, <1>3, <1>5, <2>1, <2>2, <2>3 DEF MuteInv
  <1>6. QED
    BY <1>4, <1>5

LEMMA GrantedInv ==
  ASSUME Typed, MicrophoneInv, MuteInv, Granted
  PROVE  MicrophoneInv' /\ MuteInv'
  <1>1. PICK s \in requested :
          /\ requested' = requested \ {s}
          /\ stream' = s /\ live' = live \cup {s} /\ loud' = loud \cup Enabled(s)
          /\ tardy' = IF callState = "call" THEN tardy ELSE tardy \cup {s}
          /\ IF pc.open THEN pc' = [pc EXCEPT !.sends = @ \cup {s}] ELSE UNCHANGED pc
    BY DEF Granted
  <1>2. UNCHANGED <<callState, unmuted, rivals>>
    BY DEF Granted, mediaPage
  <1>3. MicrophoneInv'
    <2>1. CASE callState = "call"
      <3>1. pc.open
        BY <1>1, <2>1 DEF MicrophoneInv
      <3>2. pc'.open /\ pc'.sends = pc.sends \cup {s}
        BY <1>1, <3>1 DEF Typed, NegotiationOK, Connection
      <3>3. QED
        BY <1>1, <1>2, <2>1, <3>2 DEF MicrophoneInv
    <2>2. CASE callState # "call"
      BY <1>1, <1>2, <2>2 DEF MicrophoneInv
    <2>3. QED
      BY <2>1, <2>2
  <1>4. MuteInv'
    <2> SUFFICES ASSUME callState = "call", rivals = {}
                 PROVE  /\ \A t, u \in requested' : t = u
                        /\ requested' # {} => stream' = NoStream
                        /\ loud' \subseteq {stream'}
                        /\ ~unmuted' => loud' = {}
      BY <1>2 DEF MuteInv
    <2>1. (\A t, u \in requested : t = u) /\ stream = NoStream /\ loud \subseteq {stream}
      BY <1>1 DEF MuteInv
    <2>2. loud = {}
      BY <2>1 DEF Typed, MicrophoneOK
    <2>3. requested' = {} /\ loud' = {}
      BY <1>1, <2>1, <2>2 DEF Enabled
    <2>4. QED
      BY <2>3
  <1>5. QED
    BY <1>3, <1>4

LEMMA CloseInv ==
  ASSUME Typed, MicrophoneInv, MuteInv, Quit \/ Unmount
  PROVE  MicrophoneInv' /\ MuteInv'
  <1>1. PICK next \in {"left", "gone"} : CloseMedia(next)
    BY DEF Quit, Unmount
  <1>2. callState' # "call" /\ live' = live \ Stopped /\ tardy' = tardy /\ ~(pc'.open)
    BY <1>1 DEF CloseMedia, NoPc
  <1>3. live' \subseteq tardy'
    BY <1>2 DEF MicrophoneInv, Stopped
  <1>4. QED
    BY <1>2, <1>3 DEF MicrophoneInv, MuteInv

\* What leaves the microphone alone and keeps what the connection sends.
LEMMA QuietMicrophone ==
  ASSUME MicrophoneInv, MuteInv, UNCHANGED <<mediaPage, microphone>>,
         pc'.open = pc.open, pc'.sends = pc.sends
  PROVE  MicrophoneInv' /\ MuteInv'
  BY DEF MicrophoneInv, MuteInv, mediaPage, microphone

LEMMA OffersKeep ==
  ASSUME Typed,
         \/ FirstOffer \/ TrackAdded \/ Renegotiate \/ ParticipantLeft \/ IceCandidate
         \/ ServiceAnswers \/ SomeoneSpeaks \/ SomeoneLeaves
  PROVE  /\ pc'.open = pc.open /\ pc'.sends = pc.sends
         /\ pc.slots <= pc'.slots
         /\ pc'.remote = pc.remote
  <1>0. pc.slots \in Nat
    BY DEF Typed, NegotiationOK, Connection
  <1>1. CASE FirstOffer
    <2>1. UNCHANGED pc \/ Offer(remoteTracks)
      BY <1>1 DEF FirstOffer
    <2>2. remoteTracks \subseteq Speaker
      BY DEF Typed, NegotiationOK
    <2>3. QED
      BY <1>0, <2>1, <2>2, OfferFields DEF Typed
  <1>2. CASE Renegotiate
    <2>1. UNCHANGED pc \/ Offer(KnownWith(Head(wire).of))
      BY <1>2 DEF Renegotiate
    <2>2. Head(wire).of \subseteq Speaker
      BY <1>2, HeadIsMessage, VoicesOf DEF Typed, Renegotiate, Hears
    <2>3. KnownWith(Head(wire).of) \subseteq Speaker
      BY <2>2 DEF KnownWith, Typed, NegotiationOK
    <2>4. QED
      BY <1>0, <2>1, <2>3, OfferFields DEF Typed
  <1>3. CASE UNCHANGED pc
    BY <1>0, <1>3
  <1>4. QED
    BY <1>1, <1>2, <1>3 DEF TrackAdded, ParticipantLeft, IceCandidate, ServiceAnswers,
                            SomeoneSpeaks, SomeoneLeaves, negotiation

LEMMA AnswerKeeps ==
  ASSUME Typed, Answer
  PROVE  pc'.open = pc.open /\ pc'.sends = pc.sends /\ pc.slots <= pc'.slots
  <1>0. pc.slots \in Nat
    BY DEF Typed, NegotiationOK, Connection
  <1>1. UNCHANGED pc \/ pc' = [[pc EXCEPT !.offering = FALSE] EXCEPT !.remote = TRUE]
    BY DEF Answer
  <1>2. pc'.open = pc.open /\ pc'.sends = pc.sends /\ pc'.slots = pc.slots
    BY <1>1 DEF Typed, NegotiationOK, Connection
  <1>3. QED
    BY <1>0, <1>2

LEMMA NextMicrophone ==
  ASSUME Typed, MicrophoneInv, MuteInv, [MediaNext]_mediaVars
  PROVE  MicrophoneInv' /\ MuteInv'
  <1>1. CASE UNCHANGED mediaVars
    BY <1>1, QuietMicrophone DEF mediaVars, negotiation
  <1>2. CASE Denied
    BY <1>2 DEF Denied, MicrophoneInv, MuteInv, mediaPage, negotiation
  <1>3. CASE ToggleAudio
    BY <1>3 DEF ToggleAudio, MicrophoneInv, MuteInv, negotiation, Typed, MicrophoneOK
  <1>4. CASE \/ FirstOffer \/ TrackAdded \/ Renegotiate \/ ParticipantLeft \/ Answer
             \/ IceCandidate \/ ServiceAnswers \/ SomeoneSpeaks \/ SomeoneLeaves
    <2>1. UNCHANGED <<mediaPage, microphone>>
      BY <1>4 DEF FirstOffer, TrackAdded, Renegotiate, ParticipantLeft, Answer, IceCandidate,
                  ServiceAnswers, SomeoneSpeaks, SomeoneLeaves
    <2>2. QED
      BY <1>4, <2>1, OffersKeep, AnswerKeeps, QuietMicrophone
  <1>5. QED
    BY <1>1, <1>2, <1>3, <1>4, AskMicrophoneInv, GrantedInv, CloseInv DEF MediaNext

LEMMA MicrophoneAlways == MediaSpec => [](MicrophoneInv /\ MuteInv)
  <1>1. MediaSpec => []Typed
    BY InitTyped, NextTyped, PTL DEF MediaSpec
  <1>2. QED
    BY <1>1, InitMicrophone, NextMicrophone, PTL DEF MediaSpec

\* After the user has left nothing records but a stream that was granted after they had
\* left, however many requests, reconnects and unmounts there were.
THEOREM MicrophoneIsReleased == MediaSpec => []MicrophoneReleased
  <1>1. MicrophoneInv => MicrophoneReleased
    BY DEF MicrophoneInv, MicrophoneReleased
  <1>2. QED
    BY <1>1, MicrophoneAlways, PTL

\* A page whose microphone is shown as off sends no sound, as long as no two requests
\* for the microphone were under way at once.
THEOREM MutedPageIsSilent == MediaSpec => []MutedIsSilent
  <1>1. MuteInv => MutedIsSilent
    BY DEF MuteInv, MutedIsSilent
  <1>2. QED
    BY <1>1, MicrophoneAlways, PTL

-----------------------------------------------------------------------------
(* The candidates.                                                         *)

LEMMA NextCandidates ==
  ASSUME Typed, CandidateInv, [MediaNext]_mediaVars
  PROVE  CandidateInv'
  <1> USE DEF CandidateInv
  <1>1. CASE UNCHANGED <<waiting, heard, applied>> /\ (pc'.remote => pc.remote)
    BY <1>1
  <1>2. CASE UNCHANGED mediaVars
    BY <1>2 DEF mediaVars, negotiation
  <1>3. CASE AskMicrophone
    <2>1. pc'.remote = pc.remote
      BY <1>3 DEF AskMicrophone, Typed, NegotiationOK, Connection
    <2>2. QED
      BY <1>1, <1>3, <2>1 DEF AskMicrophone
  <1>4. CASE Granted
    <2>1. UNCHANGED pc \/ \E s : pc' = [pc EXCEPT !.sends = @ \cup {s}]
      BY <1>4 DEF Granted
    <2>2. pc'.remote = pc.remote
      BY <2>1 DEF Typed, NegotiationOK, Connection
    <2>3. QED
      BY <1>1, <1>4, <2>2 DEF Granted
  <1>5. CASE Denied \/ ToggleAudio
    BY <1>1, <1>5 DEF Denied, ToggleAudio, negotiation
  <1>6. CASE Quit \/ Unmount
    <2>1. UNCHANGED <<waiting, heard, applied>> /\ pc' = NoPc
      BY <1>6 DEF Quit, Unmount, CloseMedia
    <2>2. QED
      BY <1>1, <2>1 DEF NoPc
  <1>7. CASE \/ FirstOffer \/ TrackAdded \/ Renegotiate \/ ParticipantLeft
             \/ ServiceAnswers \/ SomeoneSpeaks \/ SomeoneLeaves
    <2>1. UNCHANGED <<waiting, heard, applied>>
      BY <1>7 DEF FirstOffer, TrackAdded, Renegotiate, ParticipantLeft, ServiceAnswers,
                  SomeoneSpeaks, SomeoneLeaves, negotiation
    <2>2. pc'.remote = pc.remote
      BY <1>7, OffersKeep
    <2>3. QED
      BY <1>1, <2>1, <2>2
  <1>8. CASE Answer
    <2>1. CASE pc.open /\ pc.offering
      BY <1>8, <2>1 DEF Answer
    <2>2. CASE ~(pc.open /\ pc.offering)
      BY <1>8, <2>2 DEF Answer
    <2>3. QED
      BY <2>1, <2>2
  <1>9. CASE IceCandidate
    <2>1. UNCHANGED pc
      BY <1>9 DEF IceCandidate
    <2>2. CASE pc.open
      <3>1. \E c \in Candidate : Head(wire).of = {c}
        BY <1>9, HeadIsMessage, CandidateOf DEF IceCandidate, Hears, Typed
      <3>2. PICK c \in Candidate : AddCandidate(c) /\ heard' = heard \cup {c}
        BY <1>9, <2>2, <3>1 DEF IceCandidate
      <3>3. QED
        BY <2>1, <3>2 DEF AddCandidate
    <2>3. CASE ~pc.open
      BY <1>9, <2>1, <2>3 DEF IceCandidate
    <2>4. QED
      BY <2>2, <2>3
  <1>10. QED
    BY <1>2, <1>3, <1>4, <1>5, <1>6, <1>7, <1>8, <1>9 DEF MediaNext

-----------------------------------------------------------------------------
(* The slots.                                                              *)

LEMMA LastTwo ==
  \A l \in Nat : \A j \in 0 .. l : \A k \in j + 1 .. l + 2 :
      k \in j + 1 .. l \/ k = l + 1 \/ k = l + 2
  OBVIOUS

\* What the page knows grows with what is said, except by the news that a voice is gone.
LEMMA KnownAlongTheWire ==
  ASSUME Typed, NEW m \in Message, NEW n \in Message, wire' = wire \o <<m, n>>,
         remoteTracks' = remoteTracks, NEW s, NEW l \in Nat, l = Len(wire)
  PROVE  /\ \A i \in 0 .. l : KnownAfter(s, i) => KnownAfter(s, i)'
         /\ KnownAfter(s, l) /\ ~(m.kind = "left" /\ s \in m.of) => KnownAfter(s, l + 1)'
         /\ (/\ KnownAfter(s, l)
             /\ ~(m.kind = "left" /\ s \in m.of) /\ ~(n.kind = "left" /\ s \in n.of))
               => KnownAfter(s, l + 2)'
         /\ n.kind \in {"track", "renegotiate"} /\ s \in n.of => KnownAfter(s, l + 2)'
  <1>1. /\ l \in Nat
        /\ \A i \in 1 .. l : wire'[i] = wire[i]
        /\ wire'[l + 1] = m /\ wire'[l + 2] = n
    BY SaidTyped DEF Typed
  <1>2. \A j \in 0 .. l : Brings(s, j) => Brings(s, j)'
    BY <1>1 DEF Brings
  <1>3. \A k \in 1 .. l : TakesAway(s, k)' <=> TakesAway(s, k)
    BY <1>1 DEF TakesAway
  <1>4. TakesAway(s, l + 1)' <=> (m.kind = "left" /\ s \in m.of)
    BY <1>1 DEF TakesAway
  <1>5. TakesAway(s, l + 2)' <=> (n.kind = "left" /\ s \in n.of)
    BY <1>1 DEF TakesAway
  <1>6. \A i \in 0 .. l : KnownAfter(s, i) => KnownAfter(s, i)'
    BY <1>1, <1>2, <1>3 DEF KnownAfter
  <1>7. ASSUME KnownAfter(s, l), ~(m.kind = "left" /\ s \in m.of)
        PROVE  KnownAfter(s, l + 1)'
    <2>1. PICK j \in 0 .. l : Brings(s, j) /\ \A k \in j + 1 .. l : ~TakesAway(s, k)
      BY <1>7 DEF KnownAfter
    <2>2. \A k \in j + 1 .. l + 1 : k \in j + 1 .. l \/ k = l + 1
      BY <1>1
    <2>3. Brings(s, j)' /\ \A k \in j + 1 .. l + 1 : ~(TakesAway(s, k)')
      BY <1>1, <1>2, <1>3, <1>4, <1>7, <2>1, <2>2
    <2>4. QED
      BY <1>1, <2>3 DEF KnownAfter
  <1>8. ASSUME KnownAfter(s, l), ~(m.kind = "left" /\ s \in m.of), ~(n.kind = "left" /\ s \in n.of)
        PROVE  KnownAfter(s, l + 2)'
    <2>1. PICK j \in 0 .. l : Brings(s, j) /\ \A k \in j + 1 .. l : ~TakesAway(s, k)
      BY <1>8 DEF KnownAfter
    <2>2. \A k \in j + 1 .. l + 2 : k \in j + 1 .. l \/ k = l + 1 \/ k = l + 2
      BY LastTwo
    <2>3. Brings(s, j)' /\ \A k \in j + 1 .. l + 2 : ~(TakesAway(s, k)')
      BY <1>1, <1>2, <1>3, <1>4, <1>5, <1>8, <2>1, <2>2
    <2>4. QED
      BY <1>1, <2>3 DEF KnownAfter
  <1>9. ASSUME n.kind \in {"track", "renegotiate"}, s \in n.of
        PROVE  KnownAfter(s, l + 2)'
    <2>1. Brings(s, l + 2)'
      BY <1>1, <1>9 DEF Brings
    <2>2. QED
      BY <1>1, <2>1 DEF KnownAfter
  <1>10. QED
    BY <1>6, <1>7, <1>8, <1>9

\* A message that is heard takes its effect, and the rest comes later.
LEMMA KnownMoves ==
  ASSUME Typed, wire # <<>>, wire' = Tail(wire), NEW s, NEW i \in 1 .. Len(wire), KnownAfter(s, i),
         (s \in remoteTracks /\ ~TakesAway(s, 1)) \/ Brings(s, 1) => s \in remoteTracks'
  PROVE  KnownAfter(s, i - 1)'
  <1>1. /\ Len(wire) \in Nat
        /\ \A k \in 1 .. Len(wire) - 1 : wire'[k] = wire[k + 1]
    BY HeadIsMessage DEF Typed
  <1>2. PICK j \in 0 .. i : Brings(s, j) /\ \A k \in j + 1 .. i : ~TakesAway(s, k)
    BY DEF KnownAfter
  <1>3. \A k \in 1 .. i - 1 : TakesAway(s, k)' <=> TakesAway(s, k + 1)
    BY <1>1 DEF TakesAway
  <1>4. CASE j \in {0, 1}
    <2>1. s \in remoteTracks'
      BY <1>2, <1>4 DEF Brings
    <2>2. Brings(s, 0)' /\ \A k \in 0 + 1 .. i - 1 : ~(TakesAway(s, k)')
      BY <1>1, <1>2, <1>3, <1>4, <2>1 DEF Brings
    <2>3. QED
      BY <1>1, <2>2 DEF KnownAfter
  <1>5. CASE j \in 2 .. i
    <2>1. Brings(s, j - 1)'
      BY <1>1, <1>2, <1>5 DEF Brings
    <2>2. \A k \in (j - 1) + 1 .. i - 1 : ~(TakesAway(s, k)')
      BY <1>1, <1>2, <1>3, <1>5
    <2>3. QED
      BY <1>1, <1>5, <2>1, <2>2 DEF KnownAfter
  <1>6. QED
    BY <1>1, <1>2, <1>4, <1>5

LEMMA QuietSlots ==
  ASSUME Typed, SlotInv, UNCHANGED <<wire, remoteTracks, joined, speaking>>,
         pc'.open = pc.open, pc.slots <= pc'.slots, pc'.slots \in Nat
  PROVE  SlotInv'
  <1>1. pc.slots \in Nat /\ Cardinality(speaking) \in Nat
    BY FewerVoices DEF Typed, NegotiationOK, Connection, ServiceOK
  <1>2. \A s, i : KnownAfter(s, i)' <=> KnownAfter(s, i)
    BY DEF KnownAfter, Brings, TakesAway
  <1>3. Cardinality(speaking) <= pc.slots => Cardinality(speaking) <= pc'.slots
    BY <1>1
  <1>4. QED
    BY <1>2, <1>3 DEF SlotInv

LEMMA JoinSlots ==
  ASSUME Typed, Typed', JoinRoom, UNCHANGED speaking, pc'.open
  PROVE  SlotInv'
  <1>1. CASE speaking = {}
    <2>1. Cardinality(speaking') = 0 /\ pc'.slots \in Nat
      BY <1>1, FS_EmptySet DEF Typed, NegotiationOK, Connection
    <2>2. 0 <= pc'.slots
      BY <2>1
    <2>3. speaking' = {}
      BY <1>1
    <2>4. QED
      BY <2>1, <2>2, <2>3 DEF SlotInv
  <1>2. CASE speaking # {}
    <2>1. wire' = <<Renew(speaking)>>
      BY <1>2, JoinFields DEF Typed
    <2>2. Len(wire') = 1 /\ wire'[1].kind = "renegotiate" /\ wire'[1].of = speaking
      BY <2>1 DEF Renew
    <2>3. ASSUME NEW s \in speaking' PROVE KnownAfter(s, 1)'
      <3>1. Brings(s, 1)'
        BY <2>2, <2>3 DEF Brings
      <3>2. \A k \in 1 + 1 .. 1 : ~(TakesAway(s, k)')
        OBVIOUS
      <3>3. QED
        BY <3>1, <3>2 DEF KnownAfter
    <2>4. \E i \in 1 .. Len(wire') :
             wire'[i].kind = "renegotiate" /\ \A s \in speaking' : KnownAfter(s, i)'
      BY <2>2, <2>3
    <2>5. \A s \in speaking' : KnownAfter(s, Len(wire))'
      BY <2>2, <2>3
    <2>6. QED
      BY <2>4, <2>5 DEF SlotInv
  <1>3. QED
    BY <1>1, <1>2

\* A message is heard: an offer that is asked for has a slot for each voice that is known.
LEMMA HeardSlots ==
  ASSUME Typed, SlotInv, wire # <<>>, wire' = Tail(wire), UNCHANGED <<joined, speaking>>,
         pc'.open = pc.open, pc.slots <= pc'.slots, pc'.slots \in Nat,
         \A s : (s \in remoteTracks /\ ~TakesAway(s, 1)) \/ Brings(s, 1) => s \in remoteTracks',
         wire[1].kind = "renegotiate" /\ pc.open =>
            Cardinality(KnownWith(wire[1].of)) <= pc'.slots
  PROVE  SlotInv'
  <1> SUFFICES ASSUME joined
               PROVE  /\ pc'.open
                      /\ \A s \in speaking : KnownAfter(s, Len(wire))'
                      /\ \/ Cardinality(speaking) <= pc'.slots
                         \/ \E i \in 1 .. Len(wire') :
                               wire'[i].kind = "renegotiate" /\ \A s \in speaking : KnownAfter(s, i)'
    BY DEF SlotInv
  <1>1. /\ wire[1] \in Message
        /\ Len(wire) \in Nat /\ Len(wire) >= 1 /\ Len(wire') = Len(wire) - 1
        /\ \A i \in 1 .. Len(wire) - 1 : wire'[i] = wire[i + 1]
    BY HeadIsMessage DEF Typed
  <1>2. \A s, i : i \in 1 .. Len(wire) /\ KnownAfter(s, i) => KnownAfter(s, i - 1)'
    BY KnownMoves
  <1>3. pc'.open
    BY DEF SlotInv
  <1>4. \A s \in speaking : KnownAfter(s, Len(wire))'
    <2>1. PICK l \in Nat : l = Len(wire)
      BY <1>1
    <2>2. \A s \in speaking : KnownAfter(s, l - 1)'
      BY <1>1, <1>2, <2>1 DEF SlotInv
    <2>3. Len(wire') = l - 1
      BY <1>1, <2>1
    <2>4. QED
      BY <2>2, <2>3
  <1>5. pc.slots \in Nat /\ Cardinality(speaking) \in Nat
    BY FewerVoices DEF Typed, NegotiationOK, Connection, ServiceOK
  <1>6. CASE Cardinality(speaking) <= pc.slots
    BY <1>3, <1>4, <1>5, <1>6
  <1>7. ASSUME NEW i \in 1 .. Len(wire), wire[i].kind = "renegotiate",
               \A s \in speaking : KnownAfter(s, i)
        PROVE  \/ Cardinality(speaking) <= pc'.slots
               \/ \E j \in 1 .. Len(wire') :
                     wire'[j].kind = "renegotiate" /\ \A s \in speaking : KnownAfter(s, j)'
    <2>1. \A s \in speaking : KnownAfter(s, i - 1)'
      BY <1>2, <1>7
    <2>2. CASE i = 1
      <3>1. \A s \in speaking : KnownAfter(s, 1)
        BY <1>7, <2>2
      <3>2. speaking \subseteq KnownWith(wire[1].of)
        BY <3>1 DEF KnownAfter, Brings, KnownWith
      <3>3. KnownWith(wire[1].of) \subseteq Speaker
        BY <1>1, <1>7, <2>2, VoicesOf DEF KnownWith, Typed, NegotiationOK
      <3>4. Cardinality(speaking) <= Cardinality(KnownWith(wire[1].of))
            /\ Cardinality(KnownWith(wire[1].of)) \in Nat
        BY <3>2, <3>3, FewerVoices
      <3>5. Cardinality(KnownWith(wire[1].of)) <= pc'.slots
        BY <1>3, <1>7, <2>2
      <3>6. QED
        BY <1>5, <3>4, <3>5
    <2>3. CASE i # 1
      <3>1. i - 1 \in 1 .. Len(wire') /\ wire'[i - 1] = wire[i]
        BY <1>1, <2>3
      <3>2. QED
        BY <1>7, <2>1, <3>1
    <2>4. QED
      BY <2>2, <2>3
  <1>8. QED
    BY <1>3, <1>4, <1>6, <1>7 DEF SlotInv

\* Something is said: the page will be asked for an offer when it knows of every voice,
\* or nothing that it knows changes.
LEMMA SaidSlots ==
  ASSUME Typed, SlotInv, joined, NEW m \in Message, NEW n \in Message, wire' = wire \o <<m, n>>,
         UNCHANGED <<pc, remoteTracks, joined>>,
         \A s \in speaking' :
            \/ /\ s \in speaking
               /\ ~(m.kind = "left" /\ s \in m.of) /\ ~(n.kind = "left" /\ s \in n.of)
            \/ n.kind = "renegotiate" /\ s \in n.of,
         \/ speaking' = speaking
         \/ n.kind = "renegotiate"
         \/ m.kind = "renegotiate" /\ speaking' \subseteq speaking
  PROVE  SlotInv'
  <1>1. PICK l \in Nat : l = Len(wire)
    BY SaidTyped DEF Typed
  <1>2. /\ Len(wire') = l + 2
        /\ \A i \in 1 .. l : wire'[i] = wire[i]
        /\ wire'[l + 1] = m /\ wire'[l + 2] = n
    BY <1>1, SaidTyped DEF Typed
  <1>3. pc.open /\ \A s \in speaking : KnownAfter(s, l)
    BY <1>1 DEF SlotInv
  <1>4. \A s \in speaking' : KnownAfter(s, l + 2)'
    BY <1>1, <1>3, KnownAlongTheWire
  <1>5. \A s \in speaking' : KnownAfter(s, Len(wire))'
    BY <1>2, <1>4
  <1>6. \/ Cardinality(speaking') <= pc'.slots
        \/ \E i \in 1 .. Len(wire') :
              wire'[i].kind = "renegotiate" /\ \A s \in speaking' : KnownAfter(s, i)'
    <2>1. CASE n.kind = "renegotiate"
      BY <1>2, <1>4, <2>1
    <2>2. CASE m.kind = "renegotiate" /\ speaking' \subseteq speaking
      <3>1. \A s \in speaking' : KnownAfter(s, l + 1)'
        BY <1>1, <1>3, <2>2, KnownAlongTheWire
      <3>2. QED
        BY <1>2, <2>2, <3>1
    <2>3. CASE speaking' = speaking
      <3>1. CASE Cardinality(speaking) <= pc.slots
        BY <2>3, <3>1
      <3>2. ASSUME NEW i \in 1 .. Len(wire), wire[i].kind = "renegotiate",
                   \A s \in speaking : KnownAfter(s, i)
            PROVE  \E j \in 1 .. Len(wire') :
                      wire'[j].kind = "renegotiate" /\ \A s \in speaking' : KnownAfter(s, j)'
        <4>1. i \in 1 .. Len(wire') /\ wire'[i] = wire[i]
          BY <1>1, <1>2
        <4>2. ASSUME NEW s \in speaking' PROVE KnownAfter(s, i)'
          <5>1. i \in 0 .. l
            BY <1>1
          <5>2. KnownAfter(s, i)
            BY <2>3, <3>2
          <5>3. \A j \in 0 .. l : KnownAfter(s, j) => KnownAfter(s, j)'
            BY <1>1, KnownAlongTheWire
          <5>4. QED
            BY <5>1, <5>2, <5>3
        <4>3. QED
          BY <3>2, <4>1, <4>2
      <3>3. QED
        BY <3>1, <3>2 DEF SlotInv
    <2>4. QED
      BY <2>1, <2>2, <2>3
  <1>7. QED
    BY <1>3, <1>5, <1>6 DEF SlotInv

LEMMA HearsSlots ==
  ASSUME Typed, Typed', SlotInv,
         TrackAdded \/ Renegotiate \/ ParticipantLeft \/ Answer \/ IceCandidate
  PROVE  SlotInv'
  <1>1. /\ wire # <<>> /\ wire' = Tail(wire) /\ UNCHANGED <<joined, speaking>>
        /\ TrackAdded => wire[1].kind = "track"
        /\ Renegotiate => wire[1].kind = "renegotiate"
        /\ ParticipantLeft => wire[1].kind = "left"
        /\ Answer => wire[1].kind = "answer"
        /\ IceCandidate => wire[1].kind = "ice"
    BY HeadIsMessage DEF TrackAdded, Renegotiate, ParticipantLeft, Answer, IceCandidate, Hears, room, Typed
  <1>2. Head(wire) = wire[1] /\ wire[1] \in Message
    BY <1>1, HeadIsMessage DEF Typed
  <1>3. pc'.open = pc.open /\ pc.slots <= pc'.slots /\ pc'.slots \in Nat
    <2>1. pc'.slots \in Nat
      BY DEF Typed, NegotiationOK, Connection
    <2>2. QED
      BY <2>1, OffersKeep, AnswerKeeps
  <1>4. \A s : (s \in remoteTracks /\ ~TakesAway(s, 1)) \/ Brings(s, 1) => s \in remoteTracks'
    <2>1. CASE TrackAdded
      <3>1. remoteTracks' = remoteTracks \cup wire[1].of
        BY <1>2, <2>1 DEF TrackAdded
      <3>2. QED
        BY <3>1 DEF Brings
    <2>2. CASE Renegotiate
      <3>1. remoteTracks' = remoteTracks \cup wire[1].of
        BY <1>2, <2>2 DEF Renegotiate
      <3>2. QED
        BY <3>1 DEF Brings
    <2>3. CASE ParticipantLeft
      <3>1. remoteTracks' = remoteTracks \ wire[1].of
        BY <1>2, <2>3 DEF ParticipantLeft
      <3>2. QED
        BY <1>1, <2>3, <3>1 DEF Brings, TakesAway
    <2>4. CASE Answer \/ IceCandidate
      <3>1. UNCHANGED remoteTracks
        BY <2>4 DEF Answer, IceCandidate
      <3>2. QED
        BY <1>1, <2>4, <3>1 DEF Brings
    <2>5. QED
      BY <2>1, <2>2, <2>3, <2>4
  <1>5. wire[1].kind = "renegotiate" /\ pc.open => Cardinality(KnownWith(wire[1].of)) <= pc'.slots
    <2> SUFFICES ASSUME wire[1].kind = "renegotiate", pc.open
                 PROVE  Cardinality(KnownWith(wire[1].of)) <= pc'.slots
      OBVIOUS
    <2>1. Renegotiate
      BY <1>1
    <2>2. Offer(KnownWith(wire[1].of))
      BY <1>2, <2>1 DEF Renegotiate
    <2>3. KnownWith(wire[1].of) \subseteq Speaker
      BY <1>2, VoicesOf DEF KnownWith, Typed, NegotiationOK
    <2>4. pc'.slots >= Cardinality(KnownWith(wire[1].of)) /\ Cardinality(KnownWith(wire[1].of)) \in Nat
      BY <2>2, <2>3, OfferFields, FewerVoices DEF Typed
    <2>5. QED
      BY <1>3, <2>4
  <1>6. QED
    BY <1>1, <1>3, <1>4, <1>5, HeardSlots

LEMMA RoomSlots ==
  ASSUME Typed, Typed', SlotInv, ServiceAnswers \/ SomeoneSpeaks \/ SomeoneLeaves
  PROVE  SlotInv'
  <1>1. UNCHANGED <<pc, remoteTracks, joined>>
    BY DEF ServiceAnswers, SomeoneSpeaks, SomeoneLeaves, negotiation, room
  <1>2. CASE ~joined
    BY <1>1, <1>2 DEF SlotInv
  <1>3. CASE ServiceAnswers
    <2>1. UNCHANGED speaking
      BY <1>3 DEF ServiceAnswers, room
    <2>2. joined
      BY <1>3, AnswersFields
    <2>3. PICK m, n \in Message :
            /\ m.kind \in {"answer", "ice"} /\ n.kind \in {"answer", "ice"}
            /\ wire' = wire \o <<m, n>>
      BY <1>3, AnswersFields
    <2>4. m.kind # "left" /\ n.kind # "left"
      BY <2>3
    <2>5. QED
      BY <1>1, <2>1, <2>2, <2>3, <2>4, SaidSlots
  <1>4. CASE SomeoneSpeaks /\ joined
    <2>1. PICK s \in Speaker :
            /\ Track(s) \in Message /\ Renew({s}) \in Message
            /\ speaking' = speaking \cup {s}
            /\ wire' = wire \o <<Track(s), Renew({s})>>
      BY <1>4, SpeaksFields
    <2>2. Track(s).kind = "track" /\ Renew({s}).kind = "renegotiate" /\ s \in Renew({s}).of
      BY DEF Track, Renew
    <2>3. \A t \in speaking' :
            \/ /\ t \in speaking
               /\ ~(Track(s).kind = "left" /\ t \in Track(s).of)
               /\ ~(Renew({s}).kind = "left" /\ t \in Renew({s}).of)
            \/ Renew({s}).kind = "renegotiate" /\ t \in Renew({s}).of
      BY <2>1, <2>2
    <2>4. QED
      BY <1>1, <1>4, <2>1, <2>2, <2>3, SaidSlots
  <1>5. CASE SomeoneLeaves /\ joined
    <2>1. PICK s \in speaking :
            /\ Renew({}) \in Message /\ Gone(s) \in Message
            /\ speaking' = speaking \ {s}
            /\ wire' = wire \o <<Renew({}), Gone(s)>>
      BY <1>5, LeavesFields
    <2>2. Renew({}).kind = "renegotiate" /\ Gone(s).of = {s}
      BY DEF Gone, Renew
    <2>3. \A t \in speaking' :
            /\ t \in speaking
            /\ ~(Renew({}).kind = "left" /\ t \in Renew({}).of)
            /\ ~(Gone(s).kind = "left" /\ t \in Gone(s).of)
      BY <2>1, <2>2
    <2>4. speaking' \subseteq speaking
      BY <2>1
    <2>5. QED
      BY <1>1, <1>5, <2>1, <2>2, <2>3, <2>4, SaidSlots
  <1>6. QED
    BY <1>2, <1>3, <1>4, <1>5

LEMMA NextSlots ==
  ASSUME Typed, Typed', SlotInv, [MediaNext]_mediaVars
  PROVE  SlotInv'
  <1>0. pc.slots \in Nat /\ pc'.slots \in Nat
    BY DEF Typed, NegotiationOK, Connection
  <1>1. CASE UNCHANGED <<wire, remoteTracks, joined, speaking, pc>>
    BY <1>0, <1>1, QuietSlots
  <1>2. CASE AskMicrophone
    <2>1. pc'.open /\ UNCHANGED speaking
      BY <1>2 DEF AskMicrophone, Typed, NegotiationOK, Connection
    <2>2. JoinRoom \/ ~joined'
      BY <1>2 DEF AskMicrophone
    <2>3. QED
      BY <2>1, <2>2, JoinSlots DEF SlotInv
  <1>3. CASE Granted
    <2>1. UNCHANGED <<remoteTracks, speaking>>
      BY <1>3 DEF Granted
    <2>2. CASE pc.open
      <3>1. JoinRoom /\ \E s : pc' = [pc EXCEPT !.sends = @ \cup {s}]
        BY <1>3, <2>2 DEF Granted
      <3>2. pc'.open
        BY <2>2, <3>1 DEF Typed, NegotiationOK, Connection
      <3>3. QED
        BY <2>1, <3>1, <3>2, JoinSlots
    <2>3. CASE ~pc.open
      BY <1>1, <1>3, <2>1, <2>3 DEF Granted
    <2>4. QED
      BY <2>2, <2>3
  <1>4. CASE Quit \/ Unmount
    <2>1. ~joined'
      BY <1>4 DEF Quit, Unmount, CloseMedia
    <2>2. QED
      BY <2>1 DEF SlotInv
  <1>5. CASE FirstOffer
    <2>1. UNCHANGED <<wire, remoteTracks, joined, speaking>>
      BY <1>5 DEF FirstOffer, room
    <2>2. pc'.open = pc.open /\ pc.slots <= pc'.slots
      BY <1>5, OffersKeep
    <2>3. QED
      BY <1>0, <2>1, <2>2, QuietSlots
  <1>6. CASE Denied \/ ToggleAudio \/ UNCHANGED mediaVars
    BY <1>1, <1>6 DEF Denied, ToggleAudio, mediaVars, negotiation, room
  <1>7. QED
    BY <1>2, <1>3, <1>4, <1>5, <1>6, HearsSlots, RoomSlots DEF MediaNext

\* Once nothing is under way, a connection with a description has every candidate that
\* came for it, and a page that has joined has a slot for every voice, in whatever order
\* answers, candidates and voices came and whoever left meanwhile.
THEOREM NothingIsLostOnTheWay == MediaSpec => []NothingHeardIsLost
  <1>1. MediaSpec => []Typed
    BY InitTyped, NextTyped, PTL DEF MediaSpec
  <1>2. MediaInit => CandidateInv /\ SlotInv
    BY DEF MediaInit, CandidateInv, SlotInv, NoPc
  <1>3. Typed /\ Typed' /\ CandidateInv /\ SlotInv /\ [MediaNext]_mediaVars
           => CandidateInv' /\ SlotInv'
    BY NextCandidates, NextSlots
  <1>4. CandidateInv /\ SlotInv => NothingHeardIsLost
    BY DEF CandidateInv, SlotInv, NothingHeardIsLost
  <1>5. QED
    BY <1>1, <1>2, <1>3, <1>4, PTL DEF MediaSpec

HIDE MediaAssumption

-----------------------------------------------------------------------------
(* The instance for TLC: its behaviours are behaviours of every module of    *)
(* the pages, so that what is proved of each holds of what the run checks.   *)

\* While one page runs the others stand still.
THEOREM PagesAreAll ==
  MCSpec => /\ EditSpec /\ ColumnsSpec /\ ScopeSpec /\ SyncSpec /\ ThreadSpec
            /\ FileSpec /\ MediaSpec
  <1>1. MCInit => /\ EditInit /\ ColumnsInit /\ ScopeInit /\ SyncInit /\ ThreadInit
                  /\ FileInit /\ MediaInit
    BY DEF MCInit
  <1>2. [MCNext]_pageVars => /\ [EditNext]_editVars /\ [ColumnsNext]_columnVars
                             /\ [ScopeNext]_scopeVars /\ [SyncNext]_syncVars
                             /\ [ThreadNext]_threadVars /\ [FileNext]_fileVars
                             /\ [MediaNext]_mediaVars
    BY DEF MCNext, pageVars, boardVars, EditStep, ColumnsStep, ScopeStep, SyncStep, ThreadStep
  <1>3. QED
    BY <1>1, <1>2, PTL
       DEF MCSpec, EditSpec, ColumnsSpec, ScopeSpec, SyncSpec, ThreadSpec, FileSpec, MediaSpec

\* Whatever the user does on any of the pages, every variable of them stays in its domain.
THEOREM PagesTypes == MCSpec => []PagesTypeOK
  <1>1. SyncSpec => []SyncInv
    BY InitSync, NextSync, PTL DEF SyncSpec
  <1>2. ScopeSpec => []ScopeTypeOK
    BY InitScope, NextScopeTypes, PTL DEF ScopeSpec
  <1>3. FileSpec => []FileInv
    BY InitFiles, NextFiles, PTL DEF FileSpec
  <1>4. EditTypeOK /\ ColumnsTypeOK /\ ScopeTypeOK /\ SyncInv /\ ThreadTypeOK /\ RequestInv
          /\ FileInv /\ MediaTypes => PagesTypeOK
    BY DEF PagesTypeOK, SyncInv, FileInv, MediaTypes
  <1>5. QED
    BY <1>1, <1>2, <1>3, <1>4, PagesAreAll, EditTypes, ColumnTypes, ThreadTypes, MediaTyped, PTL
=============================================================================
