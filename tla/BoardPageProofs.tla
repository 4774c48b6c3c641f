-------------------------- MODULE BoardPageProofs --------------------------
(* What is proved of the pages of a board, each part for any constants that *)
(* satisfy its module's assumption: the stream, edits of a task, what is    *)
(* selected and shown, the environments of files, comments and history.     *)
EXTENDS BoardSync, BoardClient, BoardScope, FilePage, TaskThread,
        SequenceTheorems, FiniteSetTheorems, WellFoundedInduction, TLAPS

-----------------------------------------------------------------------------
(* The stream: SyncInv is inductive, so that the page never listens to two *)
(* boards.                                                                 *)

USE SyncAssumption

\* What SyncInv says of one socket, in the words that the proofs use.
LEMMA FieldsOf ==
  ASSUME SyncInv, NEW s \in sockets \cup timer
  PROVE  /\ s.of \in 1 .. run /\ s.board \in Board
         /\ s.state \in {"connecting", "open", "closing"}
         /\ s = [of |-> s.of, board |-> s.board, state |-> s.state]
  BY DEF SyncInv, SyncTypeOK

LEMMA AsType ==
  ASSUME NEW s, s.of \in 1 .. run, s.board \in Board,
         NEW st \in {"connecting", "open", "closing"}
  PROVE  /\ As(s, st) \in [of : 1 .. run, board : Board,
                           state : {"connecting", "open", "closing"}]
         /\ As(s, st).of = s.of /\ As(s, st).board = s.board /\ As(s, st).state = st
  BY DEF As

LEMMA InitSync == SyncInit => SyncInv
  <1> SUFFICES ASSUME SyncInit PROVE SyncInv
    OBVIOUS
  <1>1. SyncTypeOK
    <2>1. connected \in BOOLEAN
      BY Zenon DEF SyncInit
    <2>2. run \in 0 .. MaxRuns /\ attempt \in Nat /\ heartbeat \in 0 .. run /\ breaks \in 0 .. MaxBreaks
      BY DEF SyncInit
    <2>3. QED
      BY <2>1, <2>2 DEF SyncInit, SyncTypeOK
  <1>2. CurrentSockets \cup timer = {} /\ sockets = {}
    BY DEF SyncInit, CurrentSockets
  <1>3. OneStream
    BY <1>2 DEF SyncInit, OneStream, ShouldRun
  <1>4. QED
    BY <1>1, <1>2, <1>3 DEF SyncInv

\* The sockets of the earlier effects are all being closed; the new effect has one of
\* its own, or none when there is no board.
LEMMA ChangeBoardSync == ASSUME SyncInv, ChangeBoard PROVE SyncInv'
  <1> USE DEF ChangeBoard
  <1>1. PICK b \in Board \cup {NoBoard} :
          /\ showing' = b
          /\ sockets' = {Closing(s) : s \in sockets}
                        \cup (IF b = NoBoard THEN {} ELSE {Socket(run', b)})
          /\ heartbeat' = IF b = NoBoard THEN 0 ELSE run'
    OBVIOUS
  <1>2. run \in Nat /\ run' = run + 1 /\ run' \in 1 .. MaxRuns
    BY DEF SyncInv, SyncTypeOK
  <1>3. timer' = {}
    BY DEF SyncInv
  <1>4. ASSUME NEW s \in sockets
        PROVE  /\ Closing(s) \in [of : 1 .. run', board : Board,
                                  state : {"connecting", "open", "closing"}]
               /\ Closing(s).of # run' /\ Closing(s).state = "closing"
    <2>1. s.of \in 1 .. run /\ s.board \in Board
      BY FieldsOf
    <2>2. s.of \in 1 .. run' /\ s.of # run'
      BY <1>2, <2>1
    <2>3. QED
      BY <2>1, <2>2 DEF Closing, As
  <1>5. ASSUME b # NoBoard
        PROVE  /\ Socket(run', b) \in [of : 1 .. run', board : Board,
                                       state : {"connecting", "open", "closing"}]
               /\ Socket(run', b).of = run' /\ Socket(run', b).board = b
               /\ Socket(run', b).state = "connecting"
    BY <1>2, <1>5 DEF Socket
  <1>6. SyncTypeOK'
    <2>1. sockets' \cup timer' \subseteq
             [of : 1 .. run', board : Board, state : {"connecting", "open", "closing"}]
      BY <1>1, <1>3, <1>4, <1>5
    <2>2. heartbeat' \in 0 .. run'
      BY <1>1, <1>2
    <2>3. QED
      BY <1>1, <1>2, <2>1, <2>2 DEF SyncInv, SyncTypeOK
  <1>7. CurrentSockets' = IF b = NoBoard THEN {} ELSE {Socket(run', b)}
    BY <1>1, <1>4, <1>5 DEF CurrentSockets
  <1>8. OneStream'
    BY <1>1, <1>3, <1>5, <1>7 DEF OneStream, ShouldRun
  <1>9. \A s \in sockets' \ CurrentSockets' : s.of # run'
    BY <1>1, <1>4, <1>7
  <1>10. \A s \in CurrentSockets' \cup timer' : s.of = run' /\ s.board = showing'
    BY <1>1, <1>3, <1>5, <1>7
  <1>11. QED
    BY <1>3, <1>6, <1>8, <1>9, <1>10 DEF SyncInv

LEMMA OnOpenSync == ASSUME SyncInv, OnOpen PROVE SyncInv'
  <1> USE DEF OnOpen
  <1>1. PICK s \in sockets :
          s.state = "connecting" /\ sockets' = (sockets \ {s}) \cup {As(s, "open")}
    OBVIOUS
  <1>2. s.of \in 1 .. run /\ s.board \in Board
    BY FieldsOf
  <1>3. /\ As(s, "open") \in [of : 1 .. run, board : Board,
                              state : {"connecting", "open", "closing"}]
        /\ As(s, "open").of = s.of /\ As(s, "open").board = s.board
        /\ As(s, "open").state = "open"
    BY <1>2, AsType
  <1>4. s \in CurrentSockets
    BY <1>1 DEF CurrentSockets
  <1>5. CurrentSockets = {s} /\ timer = {}
    BY <1>4 DEF SyncInv, OneStream
  <1>6. CurrentSockets' = {As(s, "open")}
    BY <1>1, <1>3, <1>5 DEF CurrentSockets
  <1>7. SyncTypeOK'
    BY <1>1, <1>3 DEF SyncInv, SyncTypeOK
  <1>8. s.of = run /\ s.board = showing
    BY <1>4 DEF SyncInv
  <1>9. OneStream'
    BY <1>3, <1>4, <1>5, <1>6, <1>8 DEF SyncInv, OneStream, ShouldRun
  <1>10. \A t \in sockets' \ CurrentSockets' : t \in sockets \ CurrentSockets
    BY <1>1, <1>5, <1>6
  <1>11. QED
    BY <1>3, <1>5, <1>6, <1>7, <1>8, <1>9, <1>10 DEF SyncInv

\* A socket of the last effect hands over to the timer; an older one goes for good.
LEMMA EndSocketSync ==
  ASSUME SyncInv, NEW s \in sockets, EndSocket(s), breaks' \in 0 .. MaxBreaks
  PROVE  SyncInv'
  <1> USE DEF EndSocket
  <1>0. run \in Nat
    BY DEF SyncInv, SyncTypeOK
  <1>1. /\ s.of \in 1 .. run /\ s.board \in Board
        /\ s.state \in {"connecting", "open", "closing"}
    BY FieldsOf
  <1>2. CASE s \in CurrentSockets
    <2>1. CurrentSockets = {s} /\ timer = {} /\ s.of = run /\ s.board = showing /\ ShouldRun
      BY <1>2 DEF SyncInv, OneStream
    <2>2. timer' = {Socket(s.of, s.board)} /\ attempt' = attempt + 1
      BY <2>1 DEF Reconnects
    <2>3. /\ Socket(s.of, s.board) \in [of : 1 .. run, board : Board,
                                        state : {"connecting", "open", "closing"}]
          /\ Socket(s.of, s.board).of = s.of /\ Socket(s.of, s.board).board = s.board
          /\ Socket(s.of, s.board).state = "connecting"
      BY <1>1 DEF Socket
    <2>4. CurrentSockets' = {} /\ sockets' \subseteq sockets \ CurrentSockets
      BY <2>1 DEF CurrentSockets
    <2>5. SyncTypeOK'
      <3>1. sockets' \cup timer' \subseteq
               [of : 1 .. run', board : Board, state : {"connecting", "open", "closing"}]
        BY <2>2, <2>3 DEF SyncInv, SyncTypeOK
      <3>2. attempt' \in Nat /\ heartbeat' \in 0 .. run'
        BY <1>0, <2>2 DEF SyncInv, SyncTypeOK
      <3>3. connected' \in BOOLEAN
        BY Zenon
      <3>4. QED
        BY <3>1, <3>2, <3>3 DEF SyncInv, SyncTypeOK
    <2>6. OneStream'
      BY <2>1, <2>2, <2>4 DEF OneStream, ShouldRun
    <2>7. QED
      BY <2>1, <2>2, <2>3, <2>4, <2>5, <2>6 DEF SyncInv
  <1>3. CASE s \notin CurrentSockets
    <2>1. s.of # run
      BY <1>3 DEF SyncInv
    <2>2. UNCHANGED <<timer, attempt>>
      BY <2>1 DEF Reconnects
    <2>3. CurrentSockets' = CurrentSockets /\ sockets' \subseteq sockets
      BY <1>3 DEF CurrentSockets
    <2>4. SyncTypeOK'
      <3>1. sockets' \cup timer' \subseteq
               [of : 1 .. run', board : Board, state : {"connecting", "open", "closing"}]
        BY <2>2 DEF SyncInv, SyncTypeOK
      <3>2. attempt' \in Nat /\ heartbeat' \in 0 .. run'
        BY <1>0, <2>2 DEF SyncInv, SyncTypeOK
      <3>3. connected' \in BOOLEAN
        BY Zenon
      <3>4. QED
        BY <3>1, <3>2, <3>3 DEF SyncInv, SyncTypeOK
    <2>5. OneStream'
      BY <2>2, <2>3 DEF SyncInv, OneStream, ShouldRun
    <2>6. QED
      BY <2>2, <2>3, <2>4, <2>5 DEF SyncInv
  <1>4. QED
    BY <1>2, <1>3

LEMMA RetrySync == ASSUME SyncInv, Retry PROVE SyncInv'
  <1> USE DEF Retry
  <1>1. PICK s \in timer :
          /\ timer' = timer \ {s}
          /\ IF ShouldRun
             THEN sockets' = sockets \cup {s} /\ heartbeat' = s.of
             ELSE UNCHANGED <<sockets, heartbeat>>
    OBVIOUS
  <1>2. /\ s.of = run /\ s.board = showing /\ s.state = "connecting"
        /\ timer = {s} /\ CurrentSockets = {} /\ ShouldRun
    BY DEF SyncInv, OneStream
  <1>3. timer' = {} /\ sockets' = sockets \cup {s} /\ heartbeat' = run
    BY <1>1, <1>2
  <1>4. CurrentSockets' = {s}
    BY <1>2, <1>3 DEF CurrentSockets
  <1>5. SyncTypeOK'
    BY <1>3 DEF SyncInv, SyncTypeOK
  <1>6. OneStream'
    BY <1>2, <1>3, <1>4 DEF OneStream, ShouldRun
  <1>7. QED
    BY <1>2, <1>3, <1>4, <1>5, <1>6 DEF SyncInv

LEMMA NextSync == SyncInv /\ [SyncNext]_syncVars => SyncInv'
  <1> SUFFICES ASSUME SyncInv, [SyncNext]_syncVars PROVE SyncInv'
    OBVIOUS
  <1>1. CASE ChangeBoard \/ OnOpen \/ Retry
    BY <1>1, ChangeBoardSync, OnOpenSync, RetrySync
  <1>2. CASE Closed
    <2>1. breaks' \in 0 .. MaxBreaks
      BY <1>2 DEF Closed, SyncInv, SyncTypeOK
    <2>2. QED
      BY <1>2, <2>1, EndSocketSync DEF Closed
  <1>3. CASE Breaks
    <2>1. breaks' \in 0 .. MaxBreaks
      BY <1>3 DEF Breaks, SyncInv, SyncTypeOK
    <2>2. QED
      BY <1>3, <2>1, EndSocketSync DEF Breaks
  <1>4. CASE UNCHANGED syncVars
    BY <1>4 DEF syncVars, SyncInv, SyncTypeOK, OneStream, CurrentSockets, ShouldRun
  <1>5. QED
    BY <1>1, <1>2, <1>3, <1>4 DEF SyncNext

-----------------------------------------------------------------------------
\* Whatever is opened, broken, closed late and retried, one socket at most feeds the
\* page, it is that of the board shown, and none is missing.
THEOREM OneStreamOnly == SyncSpec => []OneStream
  <1>1. SyncInv => OneStream
    BY DEF SyncInv
  <1>2. QED
    BY <1>1, InitSync, NextSync, PTL DEF SyncSpec

HIDE SyncAssumption

-----------------------------------------------------------------------------
(* Edits of a task: SaveInv says from which version of the row a PATCH that*)
(* is under way was made; versions that are past never change.             *)

LEMMA Appended ==
  ASSUME past \in Seq(Content), NEW c \in Content
  PROVE  /\ Append(past, c) \in Seq(Content)
         /\ Len(Append(past, c)) = Current + 1
         /\ \A v \in 1 .. Current : Append(past, c)[v] = past[v]
         /\ Append(past, c)[Current + 1] = c
  BY DEF Current

LEMMA ContentIsBody == Content \subseteq Body
  BY DEF Content, Body

LEMMA NoBodyIsBody == NoBody \in Body /\ DOMAIN NoBody = {}
  BY DEF NoBody, Body

LEMMA BodyOf ==
  ASSUME NEW b \in Body
  PROVE  DOMAIN b \subseteq Field /\ \A f \in DOMAIN b : b[f] \in Value
  BY DEF Body

LEMMA OneField ==
  ASSUME NEW f \in Field, NEW v \in Value
  PROVE  /\ [g \in {f} |-> v] \in Body
         /\ DOMAIN [g \in {f} |-> v] = {f}
         /\ \A g \in DOMAIN [h \in {f} |-> v] : g = f /\ [h \in {f} |-> v][g] = v
  <1>1. [g \in {f} |-> v] \in [{f} -> Value] /\ {f} \in SUBSET Field
    OBVIOUS
  <1> QED
    BY <1>1 DEF Body

LEMMA Constants == Quick \subseteq Field /\ Suggested \subseteq Field /\ Mine \subseteq Value
                   /\ Theirs \subseteq Value /\ Initial \in Content
                   /\ MaxVersion \in Nat \ {0} /\ MaxSaves \in Nat
  BY ClientAssumption DEF Content

LEMMA ContentOf ==
  ASSUME EditTypeOK, NEW v \in 1 .. Current
  PROVE  past[v] \in Content
  BY DEF EditTypeOK, Current

LEMMA PatchedIsContent ==
  ASSUME EditTypeOK, NEW b \in Body
  PROVE  Patched(b) \in Content
  <1>1. Current \in 1 .. Current
    BY DEF EditTypeOK
  <1>2. past[Current] \in Content
    BY <1>1, ContentOf
  <1> QED
    BY <1>2, BodyOf DEF Patched, Content

Saves == [stage : Stage, quick : BOOLEAN, body : Body, base : 1 .. Current,
          match : 1 .. Current, reply : 1 .. Current, after : Stage]

LEMMA PatchType ==
  ASSUME EditTypeOK, NEW stage \in Stage, NEW quick \in BOOLEAN, NEW body \in Body,
         NEW base \in 1 .. Current, NEW match \in 1 .. Current
  PROVE  Patch(stage, quick, body, base, match) \in Saves
  BY DEF EditTypeOK, Patch, Saves, Stage

LEMMA NoSaveType == EditTypeOK => NoSave \in Saves
  <1> SUFFICES ASSUME EditTypeOK PROVE NoSave \in Saves
    OBVIOUS
  <1>1. 1 \in 1 .. Current /\ FALSE \in BOOLEAN /\ "none" \in Stage
    BY DEF EditTypeOK, Stage
  <1> QED
    BY <1>1, NoBodyIsBody, PatchType DEF NoSave

\* Nothing is written: the versions stay, and what the page holds has its type.
LEMMA Unwritten ==
  ASSUME EditTypeOK, past' = past, inbox' \subseteq inbox,
         list' \in 1 .. Current, cache' \in 1 .. Current,
         editor' \in [open : BOOLEAN, base : 1 .. Current, form : Content, dirty : BOOLEAN],
         save' \in Saves,
         dialog' \in [open : BOOLEAN, body : Body, row : 1 .. Current],
         saves' \in 0 .. MaxSaves
  PROVE  EditTypeOK'
  BY DEF EditTypeOK, Current, Saves

LEMMA InitTypes == EditInit => EditTypeOK
  <1> SUFFICES ASSUME EditInit PROVE EditTypeOK
    OBVIOUS
  <1>1. past \in Seq(Content) /\ Current = 1
    BY Constants DEF EditInit, Current
  <1>2. Current \in 1 .. MaxVersion /\ inbox \subseteq 1 .. Current /\ {list, cache} \subseteq 1 .. Current
        /\ saves \in 0 .. MaxSaves
    BY <1>1, Constants DEF EditInit
  <1>3. editor \in [open : BOOLEAN, base : 1 .. Current, form : Content, dirty : BOOLEAN]
    BY <1>1, Constants DEF EditInit, NoEditor
  <1>4. save \in [stage : Stage, quick : BOOLEAN, body : Body, base : 1 .. Current,
                  match : 1 .. Current, reply : 1 .. Current, after : Stage]
    BY <1>1, NoBodyIsBody DEF EditInit, NoSave, Patch, Stage
  <1>5. dialog \in [open : BOOLEAN, body : Body, row : 1 .. Current]
    BY <1>1, NoBodyIsBody DEF EditInit, NoDialog
  <1> QED
    BY <1>1, <1>2, <1>3, <1>4, <1>5 DEF EditTypeOK

LEMMA NextTypes == EditTypeOK /\ [EditNext]_editVars => EditTypeOK'
  <1> SUFFICES ASSUME EditTypeOK, [EditNext]_editVars PROVE EditTypeOK'
    OBVIOUS
  <1> DEFINE Editors == [open : BOOLEAN, base : 1 .. Current, form : Content, dirty : BOOLEAN]
             Dialogs == [open : BOOLEAN, body : Body, row : 1 .. Current]
  <1>t. /\ past \in Seq(Content) /\ Current \in Nat /\ 1 \in 1 .. Current
        /\ list \in 1 .. Current /\ cache \in 1 .. Current /\ inbox \subseteq 1 .. Current
        /\ editor \in Editors /\ save \in Saves /\ dialog \in Dialogs
        /\ saves \in 0 .. MaxSaves /\ MaxSaves \in Nat
    BY Constants DEF EditTypeOK, Saves
  <1>e. /\ NoEditor \in Editors /\ NoDialog \in Dialogs /\ NoSave \in Saves
    BY <1>t, Constants, NoBodyIsBody, NoSaveType DEF NoEditor, NoDialog
  <1>u. CASE UNCHANGED editVars
    BY <1>u, <1>t, Unwritten DEF editVars, service, board
  <1>1. CASE OpenEditor
    <2>1. editor' \in Editors
      BY <1>1, <1>t, ContentOf DEF OpenEditor
    <2> QED
      BY <1>1, <2>1, <1>t, Unwritten DEF OpenEditor, service, board
  <1>2. CASE CloseEditor
    BY <1>2, <1>t, <1>e, Unwritten DEF CloseEditor, service, board
  <1>3. ASSUME NEW f \in Field, NEW v \in Value PROVE [editor EXCEPT !.form[f] = v] \in Editors
    BY <1>t DEF Content
  <1>4. CASE Type
    <2>1. PICK f \in Field, v \in Mine :
             editor' = [[editor EXCEPT !.form[f] = v] EXCEPT !.dirty = TRUE]
      BY <1>4 DEF Type
    <2>2. [editor EXCEPT !.form[f] = v] \in Editors
      BY <1>3, Constants
    <2>3. editor' \in Editors
      BY <2>1, <2>2
    <2> QED
      BY <1>4, <2>3, <1>t, Unwritten DEF Type, service, board
  <1>5. CASE TakeSuggestion
    <2>1. PICK f \in Suggested, v \in Mine : editor' = [editor EXCEPT !.form[f] = v]
      BY <1>5 DEF TakeSuggestion
    <2>2. editor' \in Editors
      BY <2>1, <1>3, Constants
    <2> QED
      BY <1>5, <2>2, <1>t, Unwritten DEF TakeSuggestion, service, board
  <1>6. ASSUME NEW quick \in BOOLEAN, NEW body \in Body, NEW base \in 1 .. Current,
               Send(quick, body, base)
        PROVE  EditTypeOK'
    <2>1. "sent" \in Stage
      BY DEF Stage
    <2>2. save' \in Saves
      BY <1>6, <2>1, <1>t, PatchType DEF Send
    <2>3. saves' \in 0 .. MaxSaves
      BY <1>6, <1>t DEF Send
    <2> QED
      BY <1>6, <2>2, <2>3, <1>t, Unwritten DEF Send, service, board
  <1>7. CASE SaveEditor
    <2>1. editor.form \in Body /\ editor.base \in 1 .. Current
      BY <1>t, ContentIsBody
    <2> QED
      BY <1>7, <2>1, <1>6 DEF SaveEditor
  <1>8. CASE SaveQuick
    <2>1. PICK f \in Quick, v \in Mine : Send(TRUE, [g \in {f} |-> v], list)
      BY <1>8 DEF SaveQuick
    <2>2. [g \in {f} |-> v] \in Body
      <3>1. f \in Field /\ v \in Value
        BY Constants
      <3> QED
        BY <3>1, OneField
    <2> QED
      BY <2>1, <2>2, <1>6, <1>t
  <1>9. ASSUME NEW b \in Body, past' = Append(past, Patched(b)), EditNext,
               inbox' \subseteq inbox \cup {Current + 1}, list' = list, cache' = cache,
               editor' = editor, dialog' = dialog, saves' = saves,
               save' \in [stage : Stage, quick : BOOLEAN, body : Body, base : 1 .. Current + 1,
                          match : 1 .. Current + 1, reply : 1 .. Current + 1, after : Stage]
        PROVE  EditTypeOK'
    <2>1. Patched(b) \in Content
      BY PatchedIsContent
    <2>2. past' \in Seq(Content) /\ Current' = Current + 1
      BY <1>9, <2>1, <1>t, Appended DEF Current
    <2>3. Current' \in 1 .. MaxVersion
      BY <1>9, <2>2, <1>t, Constants DEF EditNext
    <2>4. editor \in [open : BOOLEAN, base : 1 .. Current', form : Content, dirty : BOOLEAN]
          /\ dialog \in [open : BOOLEAN, body : Body, row : 1 .. Current']
      BY <2>2, <1>t
    <2> QED
      BY <1>9, <2>2, <2>3, <2>4, <1>t DEF EditTypeOK
  <1>10. CASE ColleagueWrites /\ EditNext
    <2>1. PICK f \in Field, v \in Theirs : past' = Append(past, Patched([g \in {f} |-> v]))
      BY <1>10 DEF ColleagueWrites
    <2>2. [g \in {f} |-> v] \in Body
      BY OneField, Constants
    <2>3. save' \in [stage : Stage, quick : BOOLEAN, body : Body, base : 1 .. Current + 1,
                     match : 1 .. Current + 1, reply : 1 .. Current + 1, after : Stage]
      BY <1>10, <1>t DEF ColleagueWrites, Saves
    <2> QED
      BY <1>10, <2>1, <2>2, <2>3, <1>9 DEF ColleagueWrites, board
  <1>11. CASE Accept /\ EditNext
    <2>1. save.body \in Body /\ save.quick \in BOOLEAN /\ save.stage \in Stage
      BY <1>t DEF Saves
    <2>2. "saved" \in Stage /\ 1 \in 1 .. Current
      BY <1>t DEF Stage
    <2>3. Patch("saved", save.quick, NoBody, 1, 1) \in Saves
      BY <2>1, <2>2, NoBodyIsBody, PatchType
    <2>4. save' \in [stage : Stage, quick : BOOLEAN, body : Body, base : 1 .. Current + 1,
                     match : 1 .. Current + 1, reply : 1 .. Current + 1, after : Stage]
      <3> DEFINE p == Patch("saved", save.quick, NoBody, 1, 1)
      <3>1. save' = [[p EXCEPT !.after = save.stage] EXCEPT !.reply = Current + 1]
        BY <1>11 DEF Accept
      <3> HIDE DEF p
      <3>2. p \in Saves
        BY <2>3 DEF p
      <3>3. [p EXCEPT !.after = save.stage] \in Saves
        BY <3>2, <2>1 DEF Saves
      <3> DEFINE q == [p EXCEPT !.after = save.stage]
      <3> HIDE DEF q
      <3>4. /\ q \in [stage : Stage, quick : BOOLEAN, body : Body, base : 1 .. Current + 1,
                     match : 1 .. Current + 1, reply : 1 .. Current + 1, after : Stage]
            /\ Current + 1 \in 1 .. Current + 1
        BY <3>3, <1>t, SMTT(30) DEF Saves, q
      <3> QED
        BY <3>1, <3>4 DEF q
    <2> QED
      BY <1>11, <2>1, <2>4, <1>9 DEF Accept, board
  <1>12. CASE Refuse
    <2>1. "stale" \in Stage /\ "error" \in Stage /\ Current \in 1 .. Current
      BY <1>t DEF Stage
    <2>2. [[save EXCEPT !.stage = "stale"] EXCEPT !.reply = Current] \in Saves
      BY <2>1, <1>t DEF Saves
    <2>3. [NoSave EXCEPT !.stage = "error"] \in Saves
      BY <2>1, <1>e DEF Saves
    <2>4. save' \in Saves
      BY <1>12, <2>2, <2>3 DEF Refuse
    <2> QED
      BY <1>12, <2>4, <1>t, Unwritten DEF Refuse, service, board
  <1>13. ASSUME NEW v \in 1 .. Current PROVE Rebased(v) \in Editors
    BY <1>t DEF Rebased
  <1>14. CASE OnSaved
    <2>1. save.reply \in 1 .. Current
      BY <1>t DEF Saves
    <2>2. editor' \in Editors
      <3> DEFINE e == Rebased(save.reply)
      <3>1. e \in Editors
        BY <2>1, <1>13
      <3>2. editor' = [e EXCEPT !.dirty = @ /\ (save.quick \/ save.after = "forced")]
        BY <1>14 DEF OnSaved
      <3> HIDE DEF e
      <3>3. (e.dirty /\ (save.quick \/ save.after = "forced")) \in BOOLEAN
        BY Zenon
      <3> QED
        BY <3>1, <3>2, <3>3
    <2> QED
      BY <1>14, <2>1, <2>2, <1>t, <1>e, Unwritten DEF OnSaved, service, Shows
  <1>15. CASE OnStale
    <2>1. "retried" \in Stage /\ save.reply \in 1 .. Current /\ save.body \in Body
      BY <1>t DEF Stage, Saves
    <2>2. CASE Conflicts(save.body, past[save.base], past[save.reply]) = {}
      <3>1. save' = [[save EXCEPT !.stage = "retried"] EXCEPT !.match = save.reply]
            /\ dialog' = dialog
        BY <1>15, <2>2 DEF OnStale, RetryMatch
      <3>2. save' \in Saves
        BY <3>1, <2>1, <1>t DEF Saves
      <3> QED
        BY <1>15, <3>1, <3>2, <1>t, Unwritten DEF OnStale, service, board
    <2>3. CASE Conflicts(save.body, past[save.base], past[save.reply]) # {}
      <3>1. save' = NoSave /\ dialog' = [open |-> TRUE, body |-> save.body, row |-> save.reply]
        BY <1>15, <2>3 DEF OnStale
      <3>2. dialog' \in Dialogs
        BY <3>1, <2>1
      <3> QED
        BY <1>15, <3>1, <3>2, <1>t, <1>e, Unwritten DEF OnStale, service, board
    <2> QED
      BY <2>2, <2>3
  <1>16. CASE OnError
    BY <1>16, <1>t, <1>e, Unwritten DEF OnError, service, board
  <1>17. CASE KeepServer
    <2>1. dialog.row \in 1 .. Current
      BY <1>t
    <2> QED
      BY <1>17, <2>1, <1>13, <1>t, <1>e, Unwritten DEF KeepServer, service, Shows
  <1>18. CASE ForceLocal
    <2>1. dialog.row \in 1 .. Current /\ dialog.body \in Body /\ "forced" \in Stage /\ FALSE \in BOOLEAN
      BY <1>t DEF Stage
    <2>2. save' \in Saves
      BY <1>18, <2>1, PatchType DEF ForceLocal, ForceMatch
    <2> QED
      BY <1>18, <2>2, <1>t, Unwritten DEF ForceLocal, service, board
  <1>19. CASE CancelDialog
    BY <1>19, <1>t, <1>e, Unwritten DEF CancelDialog, service, board
  <1>20. CASE Receive
    <2>1. PICK v \in inbox :
             /\ inbox' = inbox \ {v} /\ Shows(v)
             /\ editor' = IF editor.open /\ ~editor.dirty
                          THEN [[editor EXCEPT !.base = v] EXCEPT !.form = past[v]] ELSE editor
             /\ UNCHANGED <<past, save, dialog, saves>>
      BY <1>20 DEF Receive
    <2>2. v \in 1 .. Current /\ past[v] \in Content
      BY <1>t, ContentOf
    <2>3. [[editor EXCEPT !.base = v] EXCEPT !.form = past[v]] \in Editors
      BY <2>2, <1>t
    <2>4. editor' \in Editors
      BY <2>1, <2>3, <1>t
    <2> QED
      BY <2>1, <2>2, <2>4, <1>t, Unwritten DEF Shows
  <1>21. CASE ReloadList
    BY <1>21, <1>t, Unwritten DEF ReloadList, service, Shows
  <1> QED
    BY <1>u, <1>1, <1>2, <1>4, <1>5, <1>7, <1>8, <1>10, <1>11, <1>12, <1>14, <1>15, <1>16,
       <1>17, <1>18, <1>19, <1>20, <1>21 DEF EditNext

\* The past, the cached and shown versions, the editor, the dialog and the saves that are
\* under way (TasksPage and patchTask) keep their types.
THEOREM EditTypes == EditSpec => []EditTypeOK
  BY InitTypes, NextTypes, PTL DEF EditSpec

-----------------------------------------------------------------------------

\* No version that was written changes.
LEMMA PastStays ==
  ASSUME EditTypeOK, [EditNext]_editVars
  PROVE  \A v \in 1 .. Current : past'[v] = past[v]
  <1>0. past \in Seq(Content) /\ save.body \in Body
    BY DEF EditTypeOK
  <1>1. CASE past' = past
    BY <1>1
  <1>2. CASE Accept
    BY <1>2, <1>0, Appended, PatchedIsContent DEF Accept
  <1>3. CASE ColleagueWrites
    <2>1. PICK f \in Field, v \in Theirs : past' = Append(past, Patched([g \in {f} |-> v]))
      BY <1>3 DEF ColleagueWrites
    <2>2. [g \in {f} |-> v] \in Body
      BY OneField, Constants
    <2> QED
      BY <2>1, <2>2, <1>0, Appended, PatchedIsContent
  <1>4. past' = past \/ Accept \/ ColleagueWrites
    BY DEF EditNext, editVars, service, OpenEditor, CloseEditor, Type, TakeSuggestion, SaveEditor,
           SaveQuick, Send, Refuse, OnSaved, OnStale, OnError, KeepServer, ForceLocal,
           CancelDialog, Receive, ReloadList
  <1> QED
    BY <1>1, <1>2, <1>3, <1>4

\* What SaveInv says of a save that stays as it is, or that has just been made.
LEMMA SaveStays ==
  ASSUME EditTypeOK, SaveInv, [EditNext]_editVars, save' = save, list' = cache'
  PROVE  SaveInv'
  <1>1. save.base \in 1 .. Current /\ save.match \in 1 .. Current
    BY DEF EditTypeOK
  <1>2. past'[save.base] = past[save.base] /\ past'[save.match] = past[save.match]
    BY <1>1, PastStays
  <1>3. QuickOf'
    BY <1>2 DEF SaveInv, QuickOf
  <1>4. MergedOf'
    BY <1>2 DEF SaveInv, MergedOf, Conflicts
  <1> QED
    BY <1>3, <1>4 DEF SaveInv, CacheIsShown, ForcedOf

LEMMA NoSaveUnderWay ==
  ASSUME save'.stage \in {"none", "saved", "error"}, list' = cache'
  PROVE  SaveInv'
  BY DEF SaveInv, CacheIsShown, QuickOf, MergedOf, ForcedOf

LEMMA NextSaves == EditTypeOK /\ SaveInv /\ [EditNext]_editVars => SaveInv'
  <1> SUFFICES ASSUME EditTypeOK, SaveInv, [EditNext]_editVars PROVE SaveInv'
    OBVIOUS
  <1>t. /\ list = cache /\ save \in Saves /\ Current \in Nat
    BY DEF EditTypeOK, Saves, SaveInv, CacheIsShown
  <1>1. CASE save' = save
    <2>1. CASE UNCHANGED board
      BY <1>1, <1>t, <2>1, SaveStays DEF board
    <2>2. CASE OnSaved \/ KeepServer \/ Receive \/ ReloadList
      <3>1. \E v : Shows(v)
        BY <2>2 DEF OnSaved, KeepServer, Receive, ReloadList
      <3>2. list' = cache'
        BY <3>1 DEF Shows
      <3> QED
        BY <1>1, <3>2, SaveStays
    <2>3. UNCHANGED board \/ OnSaved \/ KeepServer \/ Receive \/ ReloadList
      BY DEF EditNext, editVars, OpenEditor, CloseEditor, Type, TakeSuggestion, SaveEditor,
             SaveQuick, Send, ColleagueWrites, Accept, Refuse, OnStale, OnError, ForceLocal,
             CancelDialog
    <2> QED
      BY <2>1, <2>2, <2>3
  <1>2. CASE SaveEditor
    <2>1. save' = Patch("sent", FALSE, editor.form, editor.base, cache) /\ list' = cache'
      BY <1>2, <1>t DEF SaveEditor, Send, board
    <2>2. save'.stage = "sent" /\ save'.quick = FALSE
      BY <2>1 DEF Patch
    <2> QED
      BY <2>1, <2>2 DEF SaveInv, CacheIsShown, QuickOf, MergedOf, ForcedOf
  <1>3. CASE SaveQuick
    <2>1. PICK f \in Quick, v \in Mine : past[list][f] # v /\ Send(TRUE, [g \in {f} |-> v], list)
      BY <1>3 DEF SaveQuick
    <2>2. save' = Patch("sent", TRUE, [g \in {f} |-> v], list, cache) /\ list' = cache' /\ past' = past
          /\ list' = list
      BY <2>1, <1>t DEF Send, board, service
    <2>3. /\ save'.stage = "sent" /\ save'.match = save'.base /\ save'.base = list
          /\ save'.body = [g \in {f} |-> v]
      BY <2>2, <1>t DEF Patch
    <2>4. \A g \in DOMAIN save'.body : save'.body[g] # past'[save'.base][g]
      BY <2>1, <2>2, <2>3
    <2> QED
      BY <2>2, <2>3, <2>4 DEF SaveInv, CacheIsShown, QuickOf, MergedOf, ForcedOf
  <1>4. CASE Accept
    <2>1. save'.stage = "saved" /\ list' = cache'
      BY <1>4, <1>t DEF Accept, Patch, board
    <2> QED
      BY <2>1, NoSaveUnderWay
  <1>5. CASE Refuse
    <2>1. CASE save.stage = "sent" /\ RecognisesNoRows
      <3>1. /\ save' = [[save EXCEPT !.stage = "stale"] EXCEPT !.reply = Current]
            /\ list' = cache' /\ past' = past
        BY <1>5, <2>1, <1>t DEF Refuse, board, service
      <3>2. /\ save'.stage = "stale" /\ save'.quick = save.quick /\ save'.body = save.body
            /\ save'.base = save.base
        BY <3>1, <1>t DEF Saves
      <3> QED
        BY <2>1, <3>1, <3>2 DEF SaveInv, CacheIsShown, QuickOf, MergedOf, ForcedOf
    <2>2. CASE ~(save.stage = "sent" /\ RecognisesNoRows)
      <3>1. save'.stage = "error" /\ list' = cache'
        BY <1>5, <2>2, <1>t DEF Refuse, board, NoSave, Patch
      <3> QED
        BY <3>1, NoSaveUnderWay
    <2> QED
      BY <2>1, <2>2
  <1>6. CASE OnStale
    <2>1. CASE Conflicts(save.body, past[save.base], past[save.reply]) = {}
      <3>1. /\ save' = [[save EXCEPT !.stage = "retried"] EXCEPT !.match = save.reply]
            /\ list' = cache' /\ past' = past /\ save.stage = "stale"
        BY <1>6, <2>1, <1>t DEF OnStale, board, service, RetryMatch
      <3>2. /\ save'.stage = "retried" /\ save'.quick = save.quick /\ save'.body = save.body
            /\ save'.base = save.base /\ save'.match = save.reply
        BY <3>1, <1>t DEF Saves
      <3>3. MergedOf'
        BY <3>1, <3>2, <2>1 DEF MergedOf, Conflicts
      <3> QED
        BY <3>1, <3>2, <3>3 DEF SaveInv, CacheIsShown, QuickOf, ForcedOf
    <2>2. CASE Conflicts(save.body, past[save.base], past[save.reply]) # {}
      <3>1. save'.stage = "none" /\ list' = cache'
        BY <1>6, <2>2, <1>t DEF OnStale, board, NoSave, Patch
      <3> QED
        BY <3>1, NoSaveUnderWay
    <2> QED
      BY <2>1, <2>2
  <1>7. CASE ForceLocal
    <2>1. save' = Patch("forced", FALSE, dialog.body, dialog.row, dialog.row) /\ list' = cache'
      BY <1>7, <1>t DEF ForceLocal, ForceMatch, board
    <2>2. save'.stage = "forced" /\ save'.quick = FALSE /\ save'.match = save'.base
      BY <2>1 DEF Patch
    <2> QED
      BY <2>1, <2>2 DEF SaveInv, CacheIsShown, QuickOf, MergedOf, ForcedOf
  <1>8. CASE OnSaved \/ OnError
    <2>1. save'.stage = "none" /\ list' = cache'
      BY <1>8, <1>t DEF OnSaved, OnError, board, Shows, NoSave, Patch
    <2> QED
      BY <2>1, NoSaveUnderWay
  <1> QED
    BY <1>1, <1>2, <1>3, <1>4, <1>5, <1>6, <1>7, <1>8
       DEF EditNext, editVars, OpenEditor, CloseEditor, Type, TakeSuggestion, ColleagueWrites,
           KeepServer, CancelDialog, Receive, ReloadList

LEMMA InitSaves == EditInit => SaveInv
  BY DEF EditInit, SaveInv, CacheIsShown, QuickOf, MergedOf, ForcedOf, NoSave, Patch

LEMMA SavesHold == EditSpec => [](EditTypeOK /\ SaveInv)
  BY InitTypes, NextTypes, InitSaves, NextSaves, PTL DEF EditSpec

\* A PATCH is written for the version it names.
LEMMA WrittenIsAccepted ==
  ASSUME EditTypeOK, [EditNext]_editVars,
         NEW stage \in {"sent", "retried", "forced"}, Writes(stage)
  PROVE  save.match = Current
  <1>1. save.stage = stage /\ save'.stage = "saved" /\ save.stage # save'.stage /\ save \in Saves
    BY DEF Writes, EditTypeOK, Saves
  <1>2. CASE Accept
    BY <1>2 DEF Accept
  <1>3. CASE SaveEditor \/ SaveQuick
    BY <1>1, <1>3 DEF SaveEditor, SaveQuick, Send
  <1>4. CASE Refuse
    <2>1. save'.stage \in {"stale", "error"}
      BY <1>4, <1>1 DEF Refuse, NoSave, Patch, Saves
    <2> QED
      BY <2>1, <1>1
  <1>5. CASE OnStale
    BY <1>5, <1>1 DEF OnStale, NoSave, Patch, Saves
  <1>6. CASE ForceLocal
    BY <1>6, <1>1 DEF ForceLocal
  <1>7. CASE OnSaved \/ OnError
    BY <1>7, <1>1 DEF OnSaved, OnError, NoSave, Patch
  <1>8. CASE save' = save
    BY <1>8, <1>1
  <1> QED
    BY <1>2, <1>3, <1>4, <1>5, <1>6, <1>7, <1>8
       DEF EditNext, editVars, OpenEditor, CloseEditor, Type, TakeSuggestion, ColleagueWrites,
           KeepServer, CancelDialog, Receive, ReloadList

\* A merged PATCH that was accepted replaces a field that the user changed only where
\* the row still has the value from which the edit started.
LEMMA MergedIsSeen ==
  ASSUME SaveInv, save.stage = "retried", save.match = Current,
         NEW f \in DOMAIN save.body, past[Current][f] # save.body[f],
         save.body[f] # past[save.base][f]
  PROVE  Seen(f)
  BY DEF SaveInv, MergedOf, Conflicts, Seen

\* A quick edit on the board replaces nothing but the value that was shown
\* (handleInlineEditSave and patchTask), for any fields, values and colleagues.
THEOREM QuickEditsOfWhatIsShown == EditSpec => QuickEditsAreInformed
  <1>1. EditTypeOK /\ SaveInv /\ [EditNext]_editVars =>
          [save.quick /\ (Writes("sent") \/ Writes("retried")) =>
              \A f \in Field : Replaces(f) => Seen(f)]_editVars
    <2> SUFFICES ASSUME EditTypeOK, SaveInv, [EditNext]_editVars, save.quick,
                        Writes("sent") \/ Writes("retried"),
                        NEW f \in Field, Replaces(f)
                 PROVE  Seen(f)
      OBVIOUS
    <2>1. save.match = Current
      BY WrittenIsAccepted
    <2>2. CASE Writes("sent")
      BY <2>1, <2>2 DEF SaveInv, QuickOf, Writes, Seen
    <2>3. CASE Writes("retried")
      BY <2>1, <2>3, MergedIsSeen DEF SaveInv, QuickOf, Writes, Replaces
    <2> QED
      BY <2>2, <2>3
  <1> QED
    BY <1>1, SavesHold, PTL DEF EditSpec, QuickEditsAreInformed

\* The merge after a 412 keeps the colleague's value in every field that both have
\* changed (mergeTaskPatch), also when the row changes again before the second PATCH.
THEOREM MergesKeepTheirs == EditSpec => MergeKeepsTheirs
  <1>1. EditTypeOK /\ SaveInv /\ [EditNext]_editVars =>
          [Writes("retried") =>
              \A f \in Field :
                  Replaces(f) /\ save.body[f] # past[save.base][f] => Seen(f)]_editVars
    <2> SUFFICES ASSUME EditTypeOK, SaveInv, [EditNext]_editVars, Writes("retried"),
                        NEW f \in Field, Replaces(f), save.body[f] # past[save.base][f]
                 PROVE  Seen(f)
      OBVIOUS
    <2>1. save.match = Current
      BY WrittenIsAccepted
    <2> QED
      BY <2>1, MergedIsSeen DEF Writes, Replaces
  <1> QED
    BY <1>1, SavesHold, PTL DEF EditSpec, MergeKeepsTheirs

\* "Force mine" replaces the row that the dialog compared with and no later one
\* (handleConflictForceLocal).
THEOREM ForceReplacesTheShown == EditSpec => ForceReplacesWhatWasShown
  <1>1. EditTypeOK /\ SaveInv /\ [EditNext]_editVars =>
          [Writes("forced") => Current = save.base]_editVars
    BY WrittenIsAccepted DEF SaveInv, ForcedOf, Writes
  <1> QED
    BY <1>1, SavesHold, PTL DEF EditSpec, ForceReplacesWhatWasShown

-----------------------------------------------------------------------------
(* What is selected and shown: unless two changes of it crossed, a list is *)
(* on its way or each part is shown or on its way.                         *)

LEMMA ScopeConstants ==
  /\ TeamOf \in [Project -> Team] /\ Team \cap Project = {}
  /\ Nothing \notin Team /\ Nothing \notin Project
  /\ "tasks" \in Part /\ "settings" \in Part
  /\ "teams" \notin Part /\ "projects" \notin Part
  BY ScopeAssumption

\* What ScopeTypeOK says of a load, and of all else.
LoadOK(l) ==
    /\ l \in [kind : {"teams", "projects"} \cup Part, of : Selection]
    /\ l.kind \in Part => Complete(l.of)
Questions == [what : Team \cup Project \cup {Nothing}, at : Selection]
MenusOK == there \cup menus \subseteq Team \cup Project
ShownOK ==
    /\ {selected, stored} \subseteq Selection
    /\ content \in [Part -> Project \cup {Nothing}]
AskedOK ==
    /\ goal \in Team \cup Project \cup {Nothing} /\ saving \in Project \cup {Nothing}
    /\ crossed \in BOOLEAN
    /\ confirm \in Questions /\ deleting \in Questions

LEMMA ScopeTypeParts ==
  ASSUME ScopeTypeOK
  PROVE  MenusOK /\ ShownOK /\ AskedOK /\ \A l \in loads : LoadOK(l)
  <1>1. MenusOK /\ ShownOK
    BY DEF ScopeTypeOK, MenusOK, ShownOK
  <1>2. AskedOK
    BY DEF ScopeTypeOK, AskedOK, Questions
  <1>3. \A l \in loads : LoadOK(l)
    BY DEF ScopeTypeOK, LoadOK
  <1> QED
    BY <1>1, <1>2, <1>3

LEMMA ScopeTypePartsNext ==
  ASSUME MenusOK', ShownOK', AskedOK', \A l \in loads' : LoadOK(l)
  PROVE  ScopeTypeOK'
  BY DEF ScopeTypeOK, MenusOK, ShownOK, AskedOK, LoadOK, Questions

LEMMA ScopeTypePartsNow ==
  ASSUME MenusOK, ShownOK, AskedOK, \A l \in loads : LoadOK(l)
  PROVE  ScopeTypeOK
  BY DEF ScopeTypeOK, MenusOK, ShownOK, AskedOK, LoadOK, Questions

LEMMA NothingSelected ==
  /\ Unselected \in Selection /\ Unselected.team = Nothing /\ Unselected.project = Nothing
  /\ NoQuestion \in Questions /\ NoQuestion.what = Nothing
  BY DEF Unselected, Pair, Selection, NoQuestion, Questions

LEMMA Pairs ==
  ASSUME NEW t \in Team \cup {Nothing}, NEW p \in Project \cup {Nothing}
  PROVE  Pair(t, p) \in Selection /\ Pair(t, p).team = t /\ Pair(t, p).project = p
  BY DEF Pair, Selection

LEMMA Selections ==
  ASSUME NEW sel \in Selection
  PROVE  /\ sel.team \in Team \cup {Nothing} /\ sel.project \in Project \cup {Nothing}
         /\ Complete(sel) <=> sel.team # Nothing /\ sel.project # Nothing
  BY DEF Selection, Complete

LEMMA ListLoads ==
  ASSUME NEW sel \in Selection, NEW kind \in {"teams", "projects"}
  PROVE  LoadOK(Load(kind, sel)) /\ Load(kind, sel).kind = kind
  BY ScopeConstants DEF Load, LoadOK

LEMMA ProjectLoads ==
  ASSUME NEW sel \in Selection
  PROVE  /\ \A l \in ProjectsOf(sel) : LoadOK(l)
         /\ sel.team # Nothing => \E l \in ProjectsOf(sel) : l.kind = "projects"
  <1>1. sel.team \in Team \cup {Nothing}
    BY Selections
  <1>2. Pair(sel.team, Nothing) \in Selection
    BY <1>1, Pairs
  <1> QED
    BY <1>2, ListLoads DEF ProjectsOf

LEMMA PartLoads ==
  ASSUME NEW sel \in Selection
  PROVE  /\ \A l \in PartsOf(sel) : LoadOK(l)
         /\ Complete(sel) => \A k \in Part : Load(k, sel) \in PartsOf(sel)
  <1>1. ASSUME NEW k \in Part, Complete(sel) PROVE LoadOK(Load(k, sel))
    BY <1>1 DEF Load, LoadOK
  <1> QED
    BY <1>1 DEF PartsOf

LEMMA ClearedParts ==
  ASSUME ShownOK, NEW sel
  PROVE  /\ Cleared(sel) \in [Part -> Project \cup {Nothing}]
         /\ ~Complete(sel) => Cleared(sel)["tasks"] = Nothing
  BY ScopeConstants DEF ShownOK, Cleared

LEMMA SelectTypes ==
  ASSUME ShownOK, \A l \in loads : LoadOK(l), NEW sel \in Selection, NEW done, NEW new,
         \A l \in new : LoadOK(l), Select(sel, done, new)
  PROVE  ShownOK' /\ \A l \in loads' : LoadOK(l)
  BY ClearedParts DEF Select, ShownOK

\* What is selected from a list is in it, or nothing is.
LEMMA PreferredIsThere ==
  ASSUME NEW was, NEW items
  PROVE  Preferred(was, items) \in items \cup {Nothing}
  BY DEF Preferred, FirstOf

LEMMA InitScope == ScopeInit => ScopeTypeOK /\ ScopeInv
  <1> SUFFICES ASSUME ScopeInit PROVE ScopeTypeOK /\ ScopeInv
    OBVIOUS
  <1>1. MenusOK /\ ShownOK
    BY NothingSelected DEF ScopeInit, MenusOK, ShownOK
  <1>2. crossed \in BOOLEAN
    BY Zenon DEF ScopeInit
  <1>3. AskedOK
    BY <1>2, NothingSelected DEF ScopeInit, AskedOK
  <1>4. loads = {Load("teams", Unselected)}
    BY DEF ScopeInit
  <1>5. LoadOK(Load("teams", Unselected)) /\ Load("teams", Unselected).kind = "teams"
    BY NothingSelected, ListLoads
  <1>6. ScopeTypeOK
    BY <1>1, <1>3, <1>4, <1>5, ScopeTypePartsNow
  <1>7. ListsComing
    BY <1>4, <1>5 DEF ListsComing
  <1>8. ProjectsHaveTeams
    BY NothingSelected, ScopeConstants DEF ScopeInit, ProjectsHaveTeams, HasTeam
  <1> QED
    BY <1>6, <1>7, <1>8 DEF ScopeInv, PartsCome

LEMMA NextScopeTypes == ScopeTypeOK /\ [ScopeNext]_scopeVars => ScopeTypeOK'
  <1> SUFFICES ASSUME ScopeTypeOK, [ScopeNext]_scopeVars PROVE ScopeTypeOK'
    OBVIOUS
  <1>t. MenusOK /\ ShownOK /\ AskedOK /\ \A l \in loads : LoadOK(l)
    BY ScopeTypeParts
  <1>x. /\ selected \in Selection /\ stored \in Selection
        /\ selected.team \in Team \cup {Nothing} /\ selected.project \in Project \cup {Nothing}
    BY <1>t, Selections DEF ShownOK
  <1>u. CASE UNCHANGED scopeVars
    BY <1>u, <1>t, ScopeTypePartsNext DEF scopeVars, page, requests, MenusOK, ShownOK, AskedOK
  <1>1. CASE SelectTeam
    <2>1. PICK t \in (menus \cap Team) \cup {Nothing} :
            LET sel == IF t = Nothing THEN Unselected ELSE Pair(t, selected.project)
            IN  t # selected.team /\ Select(sel, {}, ProjectsOf(sel) \cup PartsOf(sel))
      BY <1>1 DEF SelectTeam
    <2>2. PICK sel : sel = IF t = Nothing THEN Unselected ELSE Pair(t, selected.project)
      OBVIOUS
    <2>3. sel \in Selection
      BY <2>2, <1>x, Pairs, NothingSelected
    <2>4. Select(sel, {}, ProjectsOf(sel) \cup PartsOf(sel))
      BY <2>1, <2>2
    <2>5. ShownOK' /\ \A l \in loads' : LoadOK(l)
      BY <2>3, <2>4, <1>t, SelectTypes, ProjectLoads, PartLoads
    <2>6. MenusOK'
      BY <1>1, <1>t DEF SelectTeam, MenusOK
    <2>7. crossed' \in BOOLEAN
      BY <1>1, Zenon DEF SelectTeam
    <2>8. AskedOK'
      BY <1>1, <2>7, <1>t DEF SelectTeam, AskedOK
    <2> QED
      BY <2>5, <2>6, <2>8, ScopeTypePartsNext
  <1>2. CASE SelectProject
    <2>1. PICK p \in (menus \cap Project) \cup {Nothing} :
            LET sel == Pair(selected.team, p)
            IN  p # selected.project /\ Select(sel, {}, PartsOf(sel))
      BY <1>2 DEF SelectProject
    <2>2. PICK sel : sel = Pair(selected.team, p)
      OBVIOUS
    <2>3. sel \in Selection /\ Select(sel, {}, PartsOf(sel))
      BY <2>1, <2>2, <1>x, Pairs
    <2>5. ShownOK' /\ \A l \in loads' : LoadOK(l)
      BY <2>3, <1>t, SelectTypes, PartLoads
    <2>6. MenusOK'
      BY <1>2, <1>t DEF SelectProject, MenusOK
    <2>7. crossed' \in BOOLEAN
      BY <1>2, Zenon DEF SelectProject
    <2>8. AskedOK'
      BY <1>2, <2>7, <1>t DEF SelectProject, AskedOK
    <2> QED
      BY <2>5, <2>6, <2>8, ScopeTypePartsNext
  <1>3. CASE TeamsLoaded
    <2> DEFINE items == there \cap Team
    <2>0. PICK l \in loads :
          LET team == Preferred(stored.team, items)
              sel == IF team = Nothing THEN Unselected ELSE Pair(team, selected.project)
              parts == IF team = selected.team THEN {} ELSE PartsOf(sel)
          IN  /\ l.kind = "teams"
              /\ Select(sel, {l}, ProjectsOf(sel) \cup parts)
              /\ menus' = items \cup (IF team = Nothing THEN {} ELSE menus \cap Project)
      BY <1>3 DEF TeamsLoaded
    <2>a. PICK team : team = Preferred(stored.team, items)
      OBVIOUS
    <2>b. PICK sel : sel = IF team = Nothing THEN Unselected ELSE Pair(team, selected.project)
      OBVIOUS
    <2>c. PICK parts : parts = IF team = selected.team THEN {} ELSE PartsOf(sel)
      OBVIOUS
    <2>1. /\ Select(sel, {l}, ProjectsOf(sel) \cup parts)
          /\ menus' = items \cup (IF team = Nothing THEN {} ELSE menus \cap Project)
      BY <2>0, <2>a, <2>b, <2>c
    <2>2. team \in Team \cup {Nothing}
      BY <2>a, PreferredIsThere
    <2>3. sel \in Selection
      BY <2>b, <2>2, <1>x, Pairs, NothingSelected
    <2>4. \A m \in ProjectsOf(sel) \cup parts : LoadOK(m)
      BY <2>c, <2>3, ProjectLoads, PartLoads
    <2>5. ShownOK' /\ \A m \in loads' : LoadOK(m)
      BY <2>1, <2>3, <2>4, <1>t, SelectTypes
    <2>6. MenusOK'
      BY <1>3, <2>1, <1>t DEF TeamsLoaded, MenusOK
    <2>7. crossed' \in BOOLEAN
      BY <1>3, Zenon DEF TeamsLoaded
    <2>8. AskedOK'
      BY <1>3, <2>7, <1>t DEF TeamsLoaded, AskedOK
    <2> QED
      BY <2>5, <2>6, <2>8, ScopeTypePartsNext
  <1>4. CASE ProjectsLoaded
    <2>1. PICK l, items, sel :
              /\ l \in loads
              /\ items = {p \in there \cap Project : TeamOf[p] = l.of.team /\ l.of.team \in there}
              /\ sel = Pair(selected.team, Preferred(stored.project, items))
              /\ Select(sel, {l}, PartsOf(sel))
              /\ menus' = (menus \cap Team) \cup items
              /\ crossed' = (crossed \/ Overlap(loads') \/ l.of.team # selected.team)
      BY <1>4 DEF ProjectsLoaded
    <2>2. Preferred(stored.project, items) \in Project \cup {Nothing}
      BY <2>1, PreferredIsThere
    <2>3. sel \in Selection
      BY <2>1, <2>2, <1>x, Pairs
    <2>5. ShownOK' /\ \A m \in loads' : LoadOK(m)
      BY <2>1, <2>3, <1>t, SelectTypes, PartLoads
    <2>6. MenusOK'
      BY <1>4, <2>1, <1>t DEF ProjectsLoaded, MenusOK
    <2>7. crossed' \in BOOLEAN
      BY <2>1, Zenon
    <2>8. AskedOK'
      BY <1>4, <2>7, <1>t DEF ProjectsLoaded, AskedOK
    <2> QED
      BY <2>5, <2>6, <2>8, ScopeTypePartsNext
  <1>5. ASSUME NEW l \in loads, l.kind \in Part, NEW what \in Project \cup {Nothing}, Arrives(l, what),
               UNCHANGED <<there, selected, stored, menus, goal, saving, deleting, confirm>>,
               crossed' \in BOOLEAN
        PROVE  ScopeTypeOK'
    <2>1. ShownOK' /\ \A m \in loads' : LoadOK(m)
      BY <1>5, <1>t DEF Arrives, ShownOK
    <2>2. MenusOK' /\ AskedOK'
      BY <1>5, <1>t DEF MenusOK, AskedOK
    <2> QED
      BY <2>1, <2>2, ScopeTypePartsNext
  <1>6. CASE PartLoaded
    <2>1. PICK l \in loads : l.kind \in Part /\ Arrives(l, l.of.project)
                             /\ crossed' = (crossed \/ l.of # selected)
      BY <1>6 DEF PartLoaded
    <2>2. l.of.project \in Project \cup {Nothing}
      BY <1>t, Selections DEF LoadOK
    <2>3. crossed' \in BOOLEAN
      BY <2>1, Zenon
    <2> QED
      BY <1>6, <2>1, <2>2, <2>3, <1>5 DEF PartLoaded
  <1>7. CASE PartFails
    <2>1. PICK l \in loads : l.kind \in Part /\
             Arrives(l, IF l.kind = "tasks" THEN content[l.kind] ELSE Nothing)
             /\ crossed' = (crossed \/ TeamOf[l.of.project] = l.of.team \/ l.of # selected)
      BY <1>7 DEF PartFails
    <2>2. (IF l.kind = "tasks" THEN content[l.kind] ELSE Nothing) \in Project \cup {Nothing}
      BY <2>1, <1>t DEF ShownOK
    <2>3. crossed' \in BOOLEAN
      BY <2>1, Zenon
    <2> QED
      BY <1>7, <2>1, <2>2, <2>3, <1>5 DEF PartFails
  <1>8. CASE ListFails
    <2>1. PICK l, sel :
          /\ l \in loads
          /\ sel = IF l.kind = "teams" /\ goal \in Team THEN Pair(goal, selected.project)
                   ELSE IF l.kind = "projects" /\ goal \in Project /\ selected.team # Nothing
                   THEN Pair(selected.team, goal) ELSE selected
          /\ Select(sel, {l}, (IF sel.team = selected.team THEN {} ELSE ProjectsOf(sel))
                              \cup (IF sel = selected THEN {} ELSE PartsOf(sel)))
      BY <1>8 DEF ListFails
    <2>2. sel \in Selection
      BY <2>1, <1>x, Pairs
    <2>3. \A m \in (IF sel.team = selected.team THEN {} ELSE ProjectsOf(sel))
                   \cup (IF sel = selected THEN {} ELSE PartsOf(sel)) : LoadOK(m)
      BY <2>2, ProjectLoads, PartLoads
    <2>5. ShownOK' /\ \A m \in loads' : LoadOK(m)
      BY <2>1, <2>2, <2>3, <1>t, SelectTypes
    <2>7. crossed' \in BOOLEAN
      BY <1>8, Zenon DEF ListFails
    <2>8. AskedOK' /\ MenusOK'
      BY <1>8, <2>7, <1>t DEF ListFails, AskedOK, MenusOK
    <2> QED
      BY <2>5, <2>8, ScopeTypePartsNext
  <1>9. CASE CreateTeam
    <2>1. \A l \in loads' : LoadOK(l)
      BY <1>9, <1>t, NothingSelected, ListLoads DEF CreateTeam, Ask
    <2>2. MenusOK' /\ AskedOK' /\ ShownOK'
      BY <1>9, <1>t DEF CreateTeam, MenusOK, AskedOK, ShownOK, page
    <2> QED
      BY <2>1, <2>2, ScopeTypePartsNext
  <1>10. CASE CreateProject
    <2>1. \A l \in loads' : LoadOK(l)
      BY <1>10, <1>t, <1>x, ProjectLoads DEF CreateProject, Ask
    <2>2. MenusOK' /\ AskedOK' /\ ShownOK'
      BY <1>10, <1>t DEF CreateProject, MenusOK, AskedOK, ShownOK, page
    <2> QED
      BY <2>1, <2>2, ScopeTypePartsNext
  <1>11. ASSUME UNCHANGED <<page, loads, goal, saving, crossed>>, there' \subseteq there,
                confirm' \in Questions, deleting' \in Questions
         PROVE  ScopeTypeOK'
    BY <1>11, <1>t, ScopeTypePartsNext DEF page, MenusOK, AskedOK, ShownOK
  <1>12. CASE AskDeleteTeam
    <2>1. confirm' \in Questions
      BY <1>12, <1>x DEF AskDeleteTeam, Questions
    <2> QED
      BY <1>12, <2>1, <1>11, <1>t DEF AskDeleteTeam, requests, AskedOK
  <1>13. CASE AskDeleteProject
    <2>1. confirm' \in Questions
      BY <1>13, <1>x DEF AskDeleteProject, Questions
    <2> QED
      BY <1>13, <2>1, <1>11, <1>t DEF AskDeleteProject, requests, AskedOK
  <1>14. CASE AnswerNo
    BY <1>14, <1>11, <1>t, NothingSelected DEF AnswerNo, requests, AskedOK
  <1>15. CASE AnswerYes
    BY <1>15, <1>11, <1>t, NothingSelected DEF AnswerYes, AskedOK, Target
  <1>16. CASE ServeDelete \/ OthersDeleteProject
    BY <1>16, <1>11, <1>t DEF ServeDelete, OthersDeleteProject, requests, AskedOK
  <1>17. CASE ProjectDeleted
    <2>1. deleting.at \in Selection
      BY <1>t DEF AskedOK, Questions
    <2>2. \A l \in loads' : LoadOK(l)
      BY <1>17, <2>1, <1>t, ProjectLoads DEF ProjectDeleted, Ask
    <2>3. stored' \in Selection
      BY <1>17, <1>x DEF ProjectDeleted, Selection
    <2>4. content' \in [Part -> Project \cup {Nothing}]
      BY <1>17, <1>t DEF ProjectDeleted, ShownOK
    <2>5. MenusOK' /\ AskedOK' /\ ShownOK'
      BY <1>17, <2>3, <2>4, <1>t, NothingSelected DEF ProjectDeleted, MenusOK, AskedOK, ShownOK
    <2> QED
      BY <2>2, <2>5, ScopeTypePartsNext
  <1>18. CASE TeamDeleted
    <2>1. Select(Unselected, {}, {Load("teams", Unselected)})
      BY <1>18 DEF TeamDeleted
    <2>2. ShownOK' /\ \A l \in loads' : LoadOK(l)
      BY <2>1, <1>t, NothingSelected, ListLoads, SelectTypes
    <2>3. MenusOK' /\ AskedOK'
      BY <1>18, <1>t, NothingSelected DEF TeamDeleted, MenusOK, AskedOK
    <2> QED
      BY <2>2, <2>3, ScopeTypePartsNext
  <1>19. CASE DeleteFails
    BY <1>19, <1>11, <1>t, NothingSelected DEF DeleteFails, AskedOK
  <1>20. CASE SaveSettings \/ SaveFails
    BY <1>20, <1>t, <1>x, ScopeTypePartsNext
       DEF SaveSettings, SaveFails, page, MenusOK, AskedOK, ShownOK
  <1>21. CASE SettingsSaved
    <2>1. crossed' \in BOOLEAN
      BY <1>21, Zenon DEF SettingsSaved
    <2>2. content' \in [Part -> Project \cup {Nothing}] /\ saving' = Nothing
      BY <1>21, <1>t DEF SettingsSaved, ShownOK, AskedOK
    <2>3. MenusOK' /\ AskedOK' /\ ShownOK'
      BY <1>21, <2>1, <2>2, <1>t DEF SettingsSaved, MenusOK, AskedOK, ShownOK
    <2> QED
      BY <1>21, <2>3, <1>t, ScopeTypePartsNext DEF SettingsSaved
  <1> QED
    BY <1>u, <1>1, <1>2, <1>3, <1>4, <1>6, <1>7, <1>8, <1>9, <1>10, <1>12, <1>13, <1>14, <1>15,
       <1>16, <1>17, <1>18, <1>19, <1>20, <1>21 DEF ScopeNext

-----------------------------------------------------------------------------

\* Once an answer has come for something else, it has.
LEMMA CrossedStays ==
  ASSUME [ScopeNext]_scopeVars, crossed
  PROVE  crossed'
  <1>1. CASE UNCHANGED crossed
    BY <1>1
  <1>2. CASE SelectTeam \/ SelectProject \/ TeamsLoaded
    BY <1>2 DEF SelectTeam, SelectProject, TeamsLoaded
  <1>3. CASE ProjectsLoaded
    BY <1>3, Zenon DEF ProjectsLoaded
  <1>4. CASE PartLoaded \/ PartFails
    BY <1>4 DEF PartLoaded, PartFails
  <1>5. CASE ListFails \/ SettingsSaved
    BY <1>5 DEF ListFails, SettingsSaved
  <1> QED
    BY <1>1, <1>2, <1>3, <1>4, <1>5
       DEF ScopeNext, scopeVars, page, CreateTeam, CreateProject, AskDeleteTeam, AskDeleteProject,
           AnswerNo, AnswerYes, ServeDelete, OthersDeleteProject, ProjectDeleted, TeamDeleted,
           DeleteFails, SaveSettings, SaveFails

\* What is asked and what is selected do not change, and nothing that is loading ends.
LEMMA MoreLoads ==
  ASSUME ScopeInv, UNCHANGED <<selected, menus, content>>, loads \subseteq loads',
         crossed => crossed',
         ~crossed' => \A q \in {confirm', deleting'} : q.what \in Project => q.at.team # Nothing
  PROVE  ScopeInv'
  <1>1. ProjectsHaveTeams'
    BY DEF ScopeInv, ProjectsHaveTeams, HasTeam
  <1>2. ListsComing => ListsComing'
    BY DEF ListsComing
  <1>3. PartsCome'
    BY <1>2 DEF ScopeInv, PartsCome, Complete
  <1> QED
    BY <1>1, <1>3 DEF ScopeInv

\* A list is on its way.
LEMMA ListComes ==
  ASSUME ScopeInv, UNCHANGED <<confirm, deleting>>, crossed => crossed',
         HasTeam(selected'), ListsComing'
  PROVE  ScopeInv'
  <1>1. ProjectsHaveTeams'
    BY DEF ScopeInv, ProjectsHaveTeams, HasTeam
  <1> QED
    BY <1>1 DEF ScopeInv, PartsCome

\* What is selected fits together, and its parts are loaded.
LEMMA PartsAreAsked ==
  ASSUME ScopeTypeOK, ScopeInv, UNCHANGED <<confirm, deleting>>, crossed => crossed',
         NEW sel \in Selection, NEW done, NEW new, Select(sel, done, new), HasTeam(sel),
         ~crossed' /\ ~ListsComing' => \A p \in menus' \cap Project : TeamOf[p] = sel.team,
         ~crossed' /\ ~ListsComing' /\ Complete(sel) => TeamOf[sel.project] = sel.team,
         PartsOf(sel) \subseteq new
  PROVE  ScopeInv'
  <1>1. /\ selected' = sel /\ content' = Cleared(sel)
        /\ Complete(sel) => \A k \in Part : Load(k, sel) \in loads'
    BY PartLoads DEF Select
  <1>2. ProjectsHaveTeams'
    BY <1>1 DEF ScopeInv, ProjectsHaveTeams, HasTeam
  <1>3. ~Complete(sel) => content'["tasks"] = Nothing
    BY <1>1, ScopeTypeParts, ClearedParts
  <1>4. Complete(selected)' <=> Complete(sel)
    BY <1>1 DEF Complete
  <1>5. \A k \in Part : Load(k, selected)' = Load(k, sel)
    BY <1>1 DEF Load
  <1>6. PartsCome'
    <2> SUFFICES ASSUME ~crossed', ~ListsComing'
                 PROVE  /\ \A p \in menus' \cap Project : TeamOf[p] = sel.team
                        /\ Complete(sel) =>
                              /\ TeamOf[sel.project] = sel.team
                              /\ \A k \in Part : Load(k, sel) \in loads'
                        /\ ~Complete(sel) => content'["tasks"] = Nothing
      BY <1>1, <1>4, <1>5 DEF PartsCome
    <2> QED
      BY <1>1, <1>3
  <1> QED
    BY <1>2, <1>6 DEF ScopeInv

\* A part has come, for what is selected.
LEMMA PartComes ==
  ASSUME ScopeTypeOK, ScopeInv, UNCHANGED <<selected, menus, confirm, deleting>>,
         crossed => crossed', NEW l \in loads, l.kind \in Part, NEW what, Arrives(l, what),
         ~crossed' /\ ~ListsComing =>
             l.of = selected /\ what = l.of.project
  PROVE  ScopeInv'
  <1>1. ProjectsHaveTeams'
    BY DEF ScopeInv, ProjectsHaveTeams, HasTeam
  <1>2. LoadOK(l) /\ content \in [Part -> Project \cup {Nothing}]
    BY ScopeTypeParts DEF ShownOK
  <1>3. ListsComing => ListsComing'
    BY ScopeConstants DEF ListsComing, Arrives
  <1>4. PartsCome'
    <2> SUFFICES ASSUME ~crossed', ~ListsComing'
                 PROVE  /\ \A p \in menus \cap Project : TeamOf[p] = selected.team
                        /\ Complete(selected) =>
                              /\ TeamOf[selected.project] = selected.team
                              /\ \A k \in Part : content'[k] = selected.project
                                                \/ Load(k, selected) \in loads'
                        /\ ~Complete(selected) => content'["tasks"] = Nothing
      BY DEF PartsCome, Complete, Load
    <2>1. /\ \A p \in menus \cap Project : TeamOf[p] = selected.team
          /\ Complete(selected) =>
                /\ TeamOf[selected.project] = selected.team
                /\ \A k \in Part : content[k] = selected.project \/ Load(k, selected) \in loads
      BY <1>3 DEF ScopeInv, PartsCome
    <2>2. l.of = selected /\ what = selected.project /\ Complete(selected)
      BY <1>2, <1>3 DEF LoadOK
    <2>3. ASSUME NEW k \in Part PROVE content'[k] = selected.project \/ Load(k, selected) \in loads'
      <3>1. CASE k = l.kind
        BY <3>1, <1>2, <2>2 DEF Arrives
      <3>2. CASE k # l.kind
        <4>1. content'[k] = content[k]
          BY <3>2, <1>2 DEF Arrives
        <4>2. Load(k, selected) # l
          BY <3>2 DEF Load
        <4> QED
          BY <4>1, <4>2, <2>1, <2>2 DEF Arrives
      <3> QED
        BY <3>1, <3>2
    <2> QED
      BY <2>1, <2>2, <2>3
  <1> QED
    BY <1>1, <1>4 DEF ScopeInv

LEMMA NextScope == ScopeTypeOK /\ ScopeInv /\ [ScopeNext]_scopeVars => ScopeInv'
  <1> SUFFICES ASSUME ScopeTypeOK, ScopeInv, [ScopeNext]_scopeVars PROVE ScopeInv'
    OBVIOUS
  <1>t. MenusOK /\ ShownOK /\ AskedOK /\ \A l \in loads : LoadOK(l)
    BY ScopeTypeParts
  <1>x. /\ selected \in Selection /\ stored \in Selection
        /\ selected.team \in Team \cup {Nothing} /\ selected.project \in Project \cup {Nothing}
    BY <1>t, Selections DEF ShownOK
  <1>c. crossed => crossed'
    BY CrossedStays
  <1>q. ~crossed' => \A q \in {confirm, deleting} : q.what \in Project => q.at.team # Nothing
    BY <1>c DEF ScopeInv, ProjectsHaveTeams
  <1>u. CASE UNCHANGED scopeVars
    BY <1>u, <1>c, <1>q, MoreLoads DEF scopeVars, page, requests
  <1>s. ASSUME NEW sel \in Selection, NEW done, NEW new, Select(sel, done, new),
               ProjectsOf(sel) \subseteq new, sel.team # Nothing, UNCHANGED <<confirm, deleting>>
        PROVE  ScopeInv'
    <2>1. selected' = sel /\ HasTeam(sel)
      BY <1>s DEF Select, HasTeam
    <2>2. ListsComing'
      BY <1>s, ProjectLoads DEF Select, ListsComing
    <2> QED
      BY <1>s, <1>c, <2>1, <2>2, ListComes
  <1>n. ASSUME NEW done, NEW new, Select(Unselected, done, new), UNCHANGED <<confirm, deleting>>,
               menus' \subseteq Team
        PROVE  ScopeInv'
    <2>1. PartsOf(Unselected) = {} /\ HasTeam(Unselected) /\ ~Complete(Unselected)
      BY NothingSelected, Selections DEF PartsOf, HasTeam
    <2>2. menus' \cap Project = {}
      BY <1>n, ScopeConstants
    <2> QED
      BY <1>n, <1>c, <2>1, <2>2, NothingSelected, PartsAreAsked
  <1>1. CASE SelectTeam
    <2>1. PICK t \in (menus \cap Team) \cup {Nothing} :
            LET sel == IF t = Nothing THEN Unselected ELSE Pair(t, selected.project)
            IN  t # selected.team /\ Select(sel, {}, ProjectsOf(sel) \cup PartsOf(sel))
      BY <1>1 DEF SelectTeam
    <2>2. PICK sel : sel = IF t = Nothing THEN Unselected ELSE Pair(t, selected.project)
      OBVIOUS
    <2>3. sel \in Selection /\ (t # Nothing => sel.team = t)
      BY <2>2, <1>x, Pairs, NothingSelected
    <2>4. Select(sel, {}, ProjectsOf(sel) \cup PartsOf(sel)) /\ UNCHANGED <<confirm, deleting>>
      BY <1>1, <2>1, <2>2 DEF SelectTeam
    <2>5. CASE t = Nothing
      <3>1. sel = Unselected /\ selected' = sel
        BY <2>2, <2>4, <2>5 DEF Select
      <3>2. menus' \subseteq Team
        BY <1>1, <3>1, NothingSelected DEF SelectTeam
      <3> QED
        BY <2>4, <3>1, <3>2, <1>n
    <2>6. CASE t # Nothing
      BY <2>3, <2>4, <2>6, <1>s
    <2> QED
      BY <2>5, <2>6
  <1>2. CASE SelectProject
    <2>1. PICK p \in (menus \cap Project) \cup {Nothing} :
            LET sel == Pair(selected.team, p)
            IN  p # selected.project /\ Select(sel, {}, PartsOf(sel))
      BY <1>2 DEF SelectProject
    <2>2. PICK sel : sel = Pair(selected.team, p)
      OBVIOUS
    <2>3. sel \in Selection /\ sel.team = selected.team /\ sel.project = p
      BY <2>2, <1>x, Pairs
    <2>4. /\ Select(sel, {}, PartsOf(sel)) /\ UNCHANGED <<confirm, deleting, menus>>
          /\ selected.team # Nothing
      BY <1>2, <2>1, <2>2 DEF SelectProject
    <2>5. ListsComing => ListsComing'
      BY <2>4 DEF Select, ListsComing
    <2>6. ~crossed' /\ ~ListsComing' => \A r \in menus' \cap Project : TeamOf[r] = sel.team
      BY <1>c, <2>3, <2>4, <2>5 DEF ScopeInv, PartsCome
    <2>7. ~crossed' /\ ~ListsComing' /\ Complete(sel) => TeamOf[sel.project] = sel.team
      BY <2>3, <2>4, <2>6, Selections
    <2> QED
      BY <1>c, <2>3, <2>4, <2>6, <2>7, PartsAreAsked DEF HasTeam
  <1>3. CASE TeamsLoaded
    <2> DEFINE items == there \cap Team
    <2>0. PICK l \in loads :
          LET team == Preferred(stored.team, items)
              sel == IF team = Nothing THEN Unselected ELSE Pair(team, selected.project)
              parts == IF team = selected.team THEN {} ELSE PartsOf(sel)
          IN  /\ l.kind = "teams"
              /\ Select(sel, {l}, ProjectsOf(sel) \cup parts)
              /\ menus' = items \cup (IF team = Nothing THEN {} ELSE menus \cap Project)
      BY <1>3 DEF TeamsLoaded
    <2>a. PICK team : team = Preferred(stored.team, items)
      OBVIOUS
    <2>b. PICK sel : sel = IF team = Nothing THEN Unselected ELSE Pair(team, selected.project)
      OBVIOUS
    <2>c. PICK parts : parts = IF team = selected.team THEN {} ELSE PartsOf(sel)
      OBVIOUS
    <2>1. /\ Select(sel, {l}, ProjectsOf(sel) \cup parts) /\ UNCHANGED <<confirm, deleting>>
          /\ menus' = items \cup (IF team = Nothing THEN {} ELSE menus \cap Project)
      BY <1>3, <2>0, <2>a, <2>b, <2>c DEF TeamsLoaded
    <2>2. team \in Team \cup {Nothing}
      BY <2>a, PreferredIsThere
    <2>3. sel \in Selection /\ (team # Nothing => sel.team = team)
      BY <2>b, <2>2, <1>x, Pairs, NothingSelected
    <2>4. CASE team = Nothing
      BY <2>1, <2>b, <2>4, <1>n
    <2>5. CASE team # Nothing
      BY <2>1, <2>3, <2>5, <1>s
    <2> QED
      BY <2>4, <2>5
  <1>4. CASE ProjectsLoaded
    <2>0. PICK l \in loads :
          LET items == {p \in there \cap Project : TeamOf[p] = l.of.team /\ l.of.team \in there}
              sel == Pair(selected.team, Preferred(stored.project, items))
          IN  /\ l.kind = "projects"
              /\ Select(sel, {l}, PartsOf(sel))
              /\ menus' = (menus \cap Team) \cup items
              /\ crossed' = (crossed \/ Overlap(loads') \/ l.of.team # selected.team)
      BY <1>4 DEF ProjectsLoaded
    <2>a. PICK items : items = {p \in there \cap Project : TeamOf[p] = l.of.team /\ l.of.team \in there}
      OBVIOUS
    <2>b. PICK best : best = Preferred(stored.project, items)
      OBVIOUS
    <2>c. PICK sel : sel = Pair(selected.team, best)
      OBVIOUS
    <2>1. /\ Select(sel, {l}, PartsOf(sel)) /\ UNCHANGED <<confirm, deleting>>
          /\ menus' = (menus \cap Team) \cup items
      BY <1>4, <2>0, <2>a, <2>b, <2>c DEF ProjectsLoaded
    <2>2. best \in items \cup {Nothing}
      BY <2>b, PreferredIsThere
    <2>3. sel \in Selection /\ sel.team = selected.team /\ sel.project = best
      BY <2>2, <2>a, <2>c, <1>x, Pairs
    <2>4. ~crossed' => l.of.team = selected.team
      BY <2>0
    <2>5. ~crossed' => \A r \in items : TeamOf[r] = sel.team
      BY <2>4, <2>3, <2>a
    <2>6. menus' \cap Project \subseteq items
      BY <2>1, ScopeConstants
    <2>7. Complete(sel) => best \in items
      BY <2>2, <2>3, Selections
    <2>8. CASE ~crossed'
      <3>1. HasTeam(sel)
        BY <2>2, <2>3, <2>4, <2>8, <2>a, ScopeConstants DEF HasTeam
      <3> QED
        BY <1>c, <2>1, <2>3, <2>5, <2>6, <2>7, <2>8, <3>1, PartsAreAsked
    <2>9. CASE crossed'
      BY <2>9 DEF ScopeInv, ProjectsHaveTeams, PartsCome
    <2> QED
      BY <2>8, <2>9
  <1>6. CASE PartLoaded
    <2>1. PICK l \in loads : l.kind \in Part /\ Arrives(l, l.of.project)
                             /\ crossed' = (crossed \/ l.of # selected)
      BY <1>6 DEF PartLoaded
    <2> QED
      BY <1>6, <1>c, <2>1, PartComes DEF PartLoaded
  <1>7. CASE PartFails
    <2>1. PICK l \in loads : l.kind \in Part /\
             Arrives(l, IF l.kind = "tasks" THEN content[l.kind] ELSE Nothing)
             /\ crossed' = (crossed \/ TeamOf[l.of.project] = l.of.team \/ l.of # selected)
      BY <1>7 DEF PartFails
    <2>2. ASSUME ~crossed', ~ListsComing PROVE FALSE
      <3>1. l.of = selected /\ TeamOf[selected.project] # selected.team /\ ~crossed
        BY <2>1, <2>2
      <3>2. Complete(selected)
        BY <3>1, <2>1, <1>t DEF LoadOK
      <3> QED
        BY <3>1, <3>2, <2>2 DEF ScopeInv, PartsCome
    <2> QED
      BY <1>7, <1>c, <2>1, <2>2, PartComes DEF PartFails
  <1>8. CASE ListFails
    BY <1>8 DEF ListFails, ScopeInv, ProjectsHaveTeams, PartsCome
  <1>9. CASE CreateTeam \/ CreateProject
    BY <1>9, <1>c, <1>q, MoreLoads DEF CreateTeam, CreateProject, Ask, page
  <1>12. CASE AskDeleteTeam
    <2>1. confirm'.what \notin Project
      BY <1>12, <1>x, ScopeConstants DEF AskDeleteTeam
    <2> QED
      BY <1>12, <1>c, <1>q, <2>1, MoreLoads DEF AskDeleteTeam, page, requests
  <1>13. CASE AskDeleteProject
    <2>1. ~crossed' => confirm'.at.team # Nothing
      BY <1>13, <1>c DEF AskDeleteProject, ScopeInv, ProjectsHaveTeams, HasTeam
    <2> QED
      BY <1>13, <1>c, <1>q, <2>1, MoreLoads DEF AskDeleteProject, page, requests
  <1>14. CASE AnswerNo
    BY <1>14, <1>c, <1>q, NothingSelected, ScopeConstants, MoreLoads DEF AnswerNo, page, requests
  <1>15. CASE AnswerYes
    BY <1>15, <1>c, <1>q, NothingSelected, ScopeConstants, MoreLoads DEF AnswerYes, page, Target
  <1>16. CASE ServeDelete \/ OthersDeleteProject \/ DeleteFails \/ SaveSettings \/ SaveFails
    BY <1>16, <1>c, <1>q, NothingSelected, ScopeConstants, MoreLoads
       DEF ServeDelete, OthersDeleteProject, DeleteFails, SaveSettings, SaveFails, page, requests
  <1>17. CASE ProjectDeleted
    <2>1. deleting.at \in Selection /\ deleting.what \in Project
      BY <1>17, <1>t DEF ProjectDeleted, AskedOK, Questions
    <2>2. CASE crossed'
      BY <2>2 DEF ScopeInv, ProjectsHaveTeams, PartsCome
    <2>3. CASE ~crossed'
      <3>1. deleting.at.team # Nothing
        BY <1>q, <2>1, <2>3
      <3>2. ListsComing'
        BY <1>17, <2>1, <3>1, ProjectLoads DEF ProjectDeleted, Ask, ListsComing
      <3>3. ProjectsHaveTeams'
        BY <1>17, <1>c, <1>q, NothingSelected, ScopeConstants
           DEF ProjectDeleted, ScopeInv, ProjectsHaveTeams, HasTeam
      <3> QED
        BY <3>2, <3>3 DEF ScopeInv, PartsCome
    <2> QED
      BY <2>2, <2>3
  <1>18. CASE TeamDeleted
    <2>1. /\ Select(Unselected, {}, {Load("teams", Unselected)})
          /\ confirm' = confirm /\ deleting' = NoQuestion
      BY <1>18 DEF TeamDeleted
    <2>2. ListsComing'
      BY <2>1, NothingSelected, ListLoads DEF Select, ListsComing
    <2>3. ProjectsHaveTeams'
      BY <1>q, <2>1, NothingSelected, ScopeConstants DEF ProjectsHaveTeams, HasTeam, Select
    <2> QED
      BY <2>2, <2>3 DEF ScopeInv, PartsCome
  <1>21. CASE SettingsSaved
    <2>1. /\ content' = [content EXCEPT !["settings"] = saving]
          /\ crossed' = (crossed \/ saving # selected.project)
          /\ UNCHANGED <<selected, menus, loads, confirm, deleting>>
      BY <1>21 DEF SettingsSaved
    <2>2. CASE crossed'
      BY <2>2 DEF ScopeInv, ProjectsHaveTeams, PartsCome
    <2>3. CASE ~crossed'
      <3>1. saving = selected.project /\ ~crossed
        BY <2>1, <2>3
      <3>2. /\ content'["tasks"] = content["tasks"]
            /\ \A k \in Part : content'[k] = content[k] \/ content'[k] = selected.project
        BY <2>1, <3>1, <1>t, ScopeConstants DEF ShownOK
      <3>3. ProjectsHaveTeams'
        BY <1>c, <2>1 DEF ScopeInv, ProjectsHaveTeams, HasTeam
      <3>4. ListsComing' = ListsComing
        BY <2>1 DEF ListsComing
      <3>5. PartsCome'
        BY <2>1, <3>1, <3>2, <3>4 DEF ScopeInv, PartsCome, Complete, Load
      <3> QED
        BY <3>3, <3>5 DEF ScopeInv
    <2> QED
      BY <2>2, <2>3
  <1> QED
    BY <1>u, <1>1, <1>2, <1>3, <1>4, <1>6, <1>7, <1>8, <1>9, <1>12, <1>13, <1>14, <1>15,
       <1>16, <1>17, <1>18, <1>21 DEF ScopeNext

LEMMA InvSettles ==
  ASSUME ScopeTypeOK, ScopeInv
  PROVE  ScopeSettles
  <1> SUFFICES ASSUME loads = {}, ~crossed
               PROVE  /\ Complete(selected) =>
                            /\ TeamOf[selected.project] = selected.team
                            /\ \A k \in Part : content[k] = selected.project
                      /\ ~Complete(selected) => content["tasks"] = Nothing
    BY DEF ScopeSettles
  <1> QED
    BY DEF ScopeInv, PartsCome, ListsComing

\* When nothing is under way the page shows what is selected, and what is selected fits
\* together (TasksPage: the loads and the effects on a selection), unless an answer came
\* for something else or failed.
THEOREM PageSettles == ScopeSpec => []ScopeSettles
  BY InitScope, NextScopeTypes, NextScope, InvSettles, PTL DEF ScopeSpec

\* A deletion is of what the question named (requestConfirm and handleDeleteProject).
THEOREM DeletionsAreConfirmed == ScopeSpec => DeletedWasConfirmed
  <1>1. [ScopeNext]_scopeVars =>
          [deleting' # deleting /\ deleting' # NoQuestion => deleting'.what = confirm.what]_scopeVars
    <2> SUFFICES ASSUME [ScopeNext]_scopeVars, deleting' # deleting, deleting' # NoQuestion
                 PROVE  deleting'.what = confirm.what
      OBVIOUS
    <2>1. CASE AnswerYes
      BY <2>1 DEF AnswerYes, Target
    <2>2. deleting' \in {deleting, NoQuestion} \/ AnswerYes
      BY DEF ScopeNext, scopeVars, page, requests, SelectTeam, SelectProject, TeamsLoaded,
             ProjectsLoaded, PartLoaded, PartFails, ListFails, CreateTeam, CreateProject,
             AskDeleteTeam, AskDeleteProject, AnswerNo, ServeDelete, OthersDeleteProject,
             ProjectDeleted, TeamDeleted, DeleteFails, SaveSettings, SettingsSaved, SaveFails
    <2> QED
      BY <2>1, <2>2
  <1> QED
    BY <1>1, PTL DEF ScopeSpec, DeletedWasConfirmed

-----------------------------------------------------------------------------
(* The environments of files: one operation at a time keeps the page busy. *)

Operation == [kind : {"open", "store", "delete", "get", "list"}, env : Env,
              arg : Entry \cup {NoEntry}, pc : {"sent", "done"}, todo : Seq(Dir)]

\* What FileTypeOK says of an operation.
OpOK(o) ==
    /\ o \in Operation
    /\ (o.kind = "list" \/ o.pc = "done") => o.todo # <<>>
    /\ o.kind = "store" => o.arg \in Entry

LEMMA Places ==
  /\ Root \in Dir /\ Folder \subseteq Dir /\ NoEntry \notin Entry
  /\ \A e \in Entry : In(e) \in Dir
  /\ \A e \in Entry : ({e, In(e)} \ {Root}) \subseteq Entry
  BY FileAssumption DEF Dir, Entry, In

LEMMA OpenOK ==
  ASSUME NEW env \in Env
  PROVE  /\ OpOK(Op("open", env, NoEntry, <<Root>>))
         /\ Op("open", env, NoEntry, <<Root>>).env = env
  <1>1. <<Root>> \in Seq(Dir)
    BY Places
  <1> QED
    BY <1>1 DEF Op, OpOK, Operation

LEMMA AndRootOK ==
  ASSUME NEW d \in Dir
  PROVE  AndRoot(d) \in Seq(Dir)
  BY Places DEF AndRoot

LEMMA NoItemsOK == NoItems \in [Dir -> [env : Env \cup {NoEnv}, what : SUBSET Entry]]
  BY DEF NoItems

\* Everything but the operations has its type.
ViewOK ==
    /\ disk \in [Env -> SUBSET Entry] /\ envs \cup permitted \subseteq Env
    /\ {selectedEnv, savedEnv, info} \subseteq Env \cup {NoEnv}
    /\ entries \in [Dir -> [env : Env \cup {NoEnv}, what : SUBSET Entry]]
    /\ loadedDirs \subseteq Dir /\ target \in Dir
    /\ {reloading, busy, mingled} \subseteq BOOLEAN /\ starts \in 0 .. MaxStarts

LEMMA FileTypeParts == FileTypeOK <=> ViewOK /\ \A o \in ops : OpOK(o)
  BY DEF FileTypeOK, ViewOK, OpOK, Operation

LEMMA NextTypeParts ==
  ASSUME ViewOK', \A o \in ops' : OpOK(o)
  PROVE  FileTypeOK'
  BY DEF FileTypeOK, ViewOK, OpOK, Operation

LEMMA StoredOK ==
  ASSUME ViewOK, NEW env \in Env, NEW e \in Entry, Stored(env, e)
  PROVE  disk' \in [Env -> SUBSET Entry]
  <1>1. ({e, In(e)} \ {Root}) \subseteq Entry
    BY Places
  <1> QED
    BY <1>1 DEF Stored, ViewOK

LEMMA DeletedOK ==
  ASSUME ViewOK, NEW env \in Env, NEW e, Deleted(env, e)
  PROVE  disk' \in [Env -> SUBSET Entry]
  BY DEF Deleted, ViewOK

LEMMA InitFiles == FileInit => FileInv
  <1> SUFFICES ASSUME FileInit PROVE FileInv
    OBVIOUS
  <1>1. disk \in [Env -> SUBSET Entry]
    BY DEF FileInit
  <1>2. {reloading, busy, mingled} \subseteq BOOLEAN
    BY Zenon DEF FileInit
  <1>3. ViewOK
    BY <1>1, <1>2, NoItemsOK, Places, FileAssumption DEF FileInit, ViewOK
  <1>4. ops = {} /\ selectedEnv = NoEnv
    BY DEF FileInit
  <1> QED
    BY <1>3, <1>4, FileTypeParts DEF FileInv, OneAtATime, TreeIsOfTheEnvironment

\* Steps that leave the page and its operations alone.
LEMMA PageStays ==
  ASSUME FileInv, UNCHANGED <<selectedEnv, info, entries, loadedDirs, busy, ops, mingled>>, ViewOK'
  PROVE  FileInv'
  <1>1. \A o \in ops' : OpOK(o)
    BY FileTypeParts DEF FileInv
  <1>2. FileTypeOK'
    BY <1>1, NextTypeParts
  <1> QED
    BY <1>2 DEF FileInv, OneAtATime, TreeIsOfTheEnvironment

\* An environment is opened: the tree is empty, and nothing else runs.
LEMMA OpenKeeps ==
  ASSUME FileInv, NEW env \in Env, Open(env, ops), ViewOK', mingled' = FALSE => (mingled = FALSE /\ ops = {})
  PROVE  FileInv'
  <1> DEFINE o == Op("open", env, NoEntry, <<Root>>)
  <1>1. OpOK(o) /\ o.env = env
    BY OpenOK
  <1> HIDE DEF o
  <1>2. ops' = ops \cup {o} /\ selectedEnv' = env /\ info' = NoEnv /\ loadedDirs' = {} /\ busy' = TRUE
    BY DEF Open, o
  <1>3. \A p \in ops : OpOK(p)
    BY FileTypeParts DEF FileInv
  <1>4. FileTypeOK'
    <2>1. \A p \in ops' : OpOK(p)
      BY <1>1, <1>2, <1>3
    <2> QED
      BY <2>1, NextTypeParts
  <1>5. mingled' \in BOOLEAN
    BY DEF ViewOK
  <1>6. OneAtATime'
    BY <1>1, <1>2, <1>5 DEF OneAtATime
  <1>7. TreeIsOfTheEnvironment'
    BY <1>2 DEF TreeIsOfTheEnvironment
  <1> QED
    BY <1>4, <1>6, <1>7 DEF FileInv

\* An operation starts on the selected environment.
LEMMA StartKeeps ==
  ASSUME FileInv, NEW kind \in {"store", "delete", "get", "list"}, NEW arg \in Entry \cup {NoEntry},
         NEW todo \in Seq(Dir), kind = "list" => todo # <<>>, kind = "store" => arg \in Entry,
         Start(kind, arg, todo), mingled' = (mingled \/ busy)
  PROVE  FileInv'
  <1> DEFINE o == Op(kind, selectedEnv, arg, todo)
  <1>0. ViewOK /\ \A p \in ops : OpOK(p)
    BY FileTypeParts DEF FileInv
  <1>1. selectedEnv \in Env
    BY <1>0 DEF Start, ViewOK
  <1>2. OpOK(o) /\ o.env = selectedEnv
    BY <1>1 DEF Op, OpOK, Operation
  <1> HIDE DEF o
  <1>3. /\ ops' = ops \cup {o} /\ busy' = TRUE
        /\ UNCHANGED <<selectedEnv, info, entries, loadedDirs>>
    BY DEF Start, o
  <1>4. ViewOK'
    <2>1. mingled' \in BOOLEAN /\ busy' \in BOOLEAN
      BY <1>3, Zenon
    <2>2. starts' \in 0 .. MaxStarts
      BY <1>0, FileAssumption DEF Start, ViewOK
    <2> QED
      BY <1>0, <2>1, <2>2 DEF Start, ViewOK
  <1>5. FileTypeOK'
    <2>1. \A p \in ops' : OpOK(p)
      BY <1>2, <1>3, <1>0
    <2> QED
      BY <2>1, <1>4, NextTypeParts
  <1>6. ~mingled' => ~mingled /\ ~busy /\ ops = {}
    BY DEF FileInv, OneAtATime
  <1>7. OneAtATime'
    BY <1>2, <1>3, <1>6 DEF OneAtATime
  <1>8. TreeIsOfTheEnvironment'
    BY <1>3, <1>6 DEF FileInv, TreeIsOfTheEnvironment
  <1> QED
    BY <1>5, <1>7, <1>8 DEF FileInv

\* An operation goes on or ends; what it shows is of its environment.
LEMMA OperationKeeps ==
  ASSUME FileInv, ViewOK', UNCHANGED <<selectedEnv, mingled>>,
         NEW o \in ops, NEW p, OpOK(p), p.env = o.env,
         \/ busy' = FALSE /\ ops' = ops \ {o}
         \/ busy' = busy /\ ops' = (ops \ {o}) \cup {p},
         info' \in {info, o.env},
         \A d \in loadedDirs' : \/ d \in loadedDirs /\ entries'[d].env = entries[d].env
                                \/ entries'[d].env = o.env
  PROVE  FileInv'
  <1>1. FileTypeOK'
    <2>1. \A q \in ops : OpOK(q)
      BY FileTypeParts DEF FileInv
    <2>2. \A q \in ops' : OpOK(q)
      BY <2>1
    <2> QED
      BY <2>2, NextTypeParts
  <1>2. ASSUME ~mingled PROVE ops = {o} /\ busy /\ (selectedEnv # NoEnv => o.env = selectedEnv)
    BY <1>2 DEF FileInv, OneAtATime
  <1>3. OneAtATime'
    <2> SUFFICES ASSUME ~mingled'
                 PROVE  /\ \A q, r \in ops' : q = r
                        /\ ops' # {} => busy'
                        /\ selectedEnv' # NoEnv => \A q \in ops' : q.env = selectedEnv'
      BY DEF OneAtATime
    <2>1. ops = {o} /\ busy /\ (selectedEnv' # NoEnv => o.env = selectedEnv')
      BY <1>2
    <2>2. CASE busy' = FALSE /\ ops' = ops \ {o}
      BY <2>1, <2>2
    <2>3. CASE busy' = busy /\ ops' = (ops \ {o}) \cup {p}
      <3>1. ops' = {p}
        BY <2>1, <2>3
      <3> QED
        BY <2>1, <2>3, <3>1
    <2> QED
      BY <2>2, <2>3
  <1>4. TreeIsOfTheEnvironment'
    BY <1>2 DEF FileInv, TreeIsOfTheEnvironment
  <1> QED
    BY <1>1, <1>3, <1>4 DEF FileInv

LEMMA NextFiles == FileInv /\ [FileNext]_fileVars => FileInv'
  <1> SUFFICES ASSUME FileInv, [FileNext]_fileVars PROVE FileInv'
    OBVIOUS
  <1>t. ViewOK /\ \A o \in ops : OpOK(o)
    BY FileTypeParts DEF FileInv
  <1>u. CASE UNCHANGED fileVars
    BY <1>u, <1>t, PageStays DEF fileVars, fileView, ViewOK
  <1>s. ASSUME starts < MaxStarts, starts' = starts + 1 PROVE starts' \in 0 .. MaxStarts
    BY <1>s, <1>t, FileAssumption DEF ViewOK
  <1>1. CASE OthersStore
    <2>1. disk' \in [Env -> SUBSET Entry]
      BY <1>1, <1>t, StoredOK DEF OthersStore
    <2>2. starts' \in 0 .. MaxStarts
      BY <1>1, <1>s DEF OthersStore
    <2> QED
      BY <1>1, <1>t, <2>1, <2>2, PageStays DEF OthersStore, fileView, ViewOK
  <1>2. CASE OthersDeleteEntry
    <2>1. disk' \in [Env -> SUBSET Entry]
      BY <1>2, <1>t, DeletedOK DEF OthersDeleteEntry
    <2>2. starts' \in 0 .. MaxStarts
      BY <1>2, <1>s DEF OthersDeleteEntry
    <2> QED
      BY <1>2, <1>t, <2>1, <2>2, PageStays DEF OthersDeleteEntry, fileView, ViewOK
  <1>3. CASE LeaveTeam
    BY <1>3, <1>t, PageStays DEF LeaveTeam, fileView, ViewOK
  <1>4. ASSUME NEW env \in Env, Open(env, ops), UNCHANGED <<disk, permitted, target>>,
               envs' \subseteq Env, reloading' \in BOOLEAN, mingled' \in BOOLEAN,
               starts' \in 0 .. MaxStarts
        PROVE  ViewOK'
    <2>1. busy' \in BOOLEAN
      BY <1>4, Zenon DEF Open
    <2> QED
      BY <1>4, <2>1, <1>t, NoItemsOK DEF Open, ViewOK
  <1>5. CASE SelectEnvironment
    <2>1. PICK env \in Env \ {selectedEnv} : Cards(env) /\ Open(env, ops)
      BY <1>5 DEF SelectEnvironment
    <2>2. starts' \in 0 .. MaxStarts
      BY <1>5, <1>s DEF SelectEnvironment
    <2>3. ViewOK'
      BY <1>5, <2>1, <2>2, <1>t, <1>4 DEF SelectEnvironment, ViewOK
    <2>4. mingled' = FALSE => mingled = FALSE /\ ops = {}
      BY <1>5, <2>1 DEF SelectEnvironment, Cards, FileInv, OneAtATime
    <2> QED
      BY <2>1, <2>3, <2>4, OpenKeeps
  <1>6. CASE StartReload
    <2>1. reloading' \in BOOLEAN /\ starts' \in 0 .. MaxStarts
      BY <1>6, <1>s DEF StartReload
    <2> QED
      BY <1>6, <2>1, <1>t, PageStays DEF StartReload, ViewOK
  <1>7. CASE EndReload
    <2>1. reloading' \in BOOLEAN /\ UNCHANGED <<disk, permitted, target, starts>>
      BY <1>7, Zenon DEF EndReload
    <2>2. CASE envs' = {} /\ Emptied
      <3>1. ViewOK'
        BY <2>1, <2>2, <1>t, NoItemsOK DEF Emptied, ViewOK
      <3>2. FileTypeOK'
        BY <3>1, <2>2, <1>t, NextTypeParts DEF Emptied
      <3> QED
        BY <3>2, <2>2 DEF Emptied, FileInv, OneAtATime, TreeIsOfTheEnvironment
    <2>3. CASE /\ envs' = permitted
               /\ UNCHANGED <<selectedEnv, savedEnv, info, entries, loadedDirs, busy, ops, mingled>>
      BY <2>1, <2>3, <1>t, PageStays DEF ViewOK
    <2>4. ASSUME envs' = permitted,
                 NEW env \in Env, Open(env, ops), mingled' = (mingled \/ ops # {})
          PROVE  FileInv'
      <3>1. mingled' \in BOOLEAN
        BY <2>4, Zenon
      <3>2. ViewOK'
        BY <2>1, <2>4, <3>1, <1>t, <1>4 DEF ViewOK
      <3>3. mingled' = FALSE => mingled = FALSE /\ ops = {}
        BY <2>4, <1>t DEF ViewOK
      <3> QED
        BY <2>4, <3>2, <3>3, OpenKeeps
    <2>5. (envs' = {} /\ Emptied) \/ (envs' = permitted /\ permitted # {} /\
             \E env \in IF savedEnv \in permitted THEN {savedEnv} ELSE permitted :
                IF env = selectedEnv
                THEN UNCHANGED <<selectedEnv, savedEnv, info, entries, loadedDirs, busy, ops, mingled>>
                ELSE Open(env, ops) /\ mingled' = (mingled \/ ops # {}))
      BY <1>7 DEF EndReload
    <2>6. \A env \in IF savedEnv \in permitted THEN {savedEnv} ELSE permitted : env \in Env
      BY <1>t DEF ViewOK
    <2> QED
      BY <2>2, <2>3, <2>4, <2>5, <2>6
  <1>8. CASE Create
    <2>0. ~busy /\ mingled' = mingled /\ mingled' = (mingled \/ busy)
      BY <1>8, <1>t DEF Create, ViewOK
    <2>1. ASSUME NEW d \in Folder, Start("store", d, <<Root>>) PROVE FileInv'
      <3>1. <<Root>> \in Seq(Dir) /\ d \in Entry
        BY Places DEF Entry
      <3> QED
        BY <2>0, <2>1, <3>1, StartKeeps
    <2>2. ASSUME NEW f \in File, Start("store", f, AndRoot(target)) PROVE FileInv'
      <3>1. AndRoot(target) \in Seq(Dir) /\ f \in Entry
        BY <1>t, AndRootOK DEF Entry, ViewOK
      <3> QED
        BY <2>0, <2>2, <3>1, StartKeeps
    <2>3. CASE Start("list", NoEntry, <<target>>)
      <3>1. <<target>> \in Seq(Dir) /\ <<target>> # <<>>
        BY <1>t DEF ViewOK
      <3> QED
        BY <2>0, <2>3, <3>1, StartKeeps
    <2> QED
      BY <1>8, <2>1, <2>2, <2>3 DEF Create
  <1>9. CASE OfTheTree
    <2>0. mingled' = (mingled \/ busy)
      BY <1>9 DEF OfTheTree
    <2>1. PICK e \in Loaded(entries) : ActOn(e)
      BY <1>9 DEF OfTheTree
    <2>2. e \in Entry
      BY <1>t DEF Loaded, ViewOK
    <2>3. CASE Start("delete", e, AndRoot(In(e)))
      <3>1. AndRoot(In(e)) \in Seq(Dir)
        BY <2>2, Places, AndRootOK
      <3> QED
        BY <2>0, <2>2, <2>3, <3>1, StartKeeps
    <2>4. CASE Start("get", e, <<>>)
      <3>1. <<>> \in Seq(Dir)
        OBVIOUS
      <3> QED
        BY <2>0, <2>2, <2>4, <3>1, StartKeeps
    <2>5. CASE e \in Folder /\ Start("list", NoEntry, <<e>>)
      <3>1. <<e>> \in Seq(Dir) /\ <<e>> # <<>>
        BY <2>5, Places
      <3> QED
        BY <2>0, <2>5, <3>1, StartKeeps
    <2> QED
      BY <2>1, <2>3, <2>4, <2>5 DEF ActOn
  <1>10. CASE Aim
    <2>1. target' \in Dir
      BY <1>10, Places DEF Aim
    <2> QED
      BY <1>10, <2>1, <1>t, PageStays DEF Aim, ViewOK
  <1>11. CASE OpActs
    <2>1. PICK o \in ops :
          /\ o.pc = "sent" /\ o.kind # "list" /\ o.env \in permitted
          /\ \/ o.kind = "store" /\ Stored(o.env, o.arg)
             \/ o.kind = "delete" /\ Deleted(o.env, o.arg)
             \/ o.kind \in {"get", "open"} /\ UNCHANGED disk
          /\ info' = IF o.kind = "open" THEN o.env ELSE info
          /\ IF o.todo = <<>> THEN busy' = FALSE /\ ops' = ops \ {o}
             ELSE ops' = (ops \ {o}) \cup {[o EXCEPT !.pc = "done"]} /\ UNCHANGED busy
      BY <1>11 DEF OpActs
    <2>2. o.env \in Env /\ OpOK(o)
      BY <1>t DEF OpOK, Operation
    <2>3. disk' \in [Env -> SUBSET Entry]
      <3>1. CASE o.kind = "store" /\ Stored(o.env, o.arg)
        BY <3>1, <2>2, <1>t, StoredOK DEF OpOK
      <3>2. CASE o.kind = "delete" /\ Deleted(o.env, o.arg)
        BY <3>2, <2>2, <1>t, DeletedOK
      <3>3. CASE UNCHANGED disk
        BY <3>3, <1>t DEF ViewOK
      <3> QED
        BY <2>1, <3>1, <3>2, <3>3
    <2>4. info' \in {info, o.env}
      BY <2>1
    <2>5. busy' \in BOOLEAN
      BY <2>1, <1>t, Zenon DEF ViewOK
    <2>6. /\ UNCHANGED <<permitted, envs, reloading, selectedEnv, savedEnv, entries, loadedDirs,
                         target, mingled, starts>>
      BY <1>11 DEF OpActs
    <2>7. ViewOK'
      BY <2>2, <2>3, <2>4, <2>5, <2>6, <1>t DEF ViewOK
    <2>8. CASE o.todo = <<>>
      BY <2>1, <2>2, <2>4, <2>6, <2>7, <2>8, OperationKeeps
    <2>9. CASE o.todo # <<>>
      <3> DEFINE p == [o EXCEPT !.pc = "done"]
      <3>1. OpOK(p) /\ p.env = o.env
        BY <2>2, <2>9 DEF OpOK, Operation
      <3>2. ops' = (ops \ {o}) \cup {p} /\ busy' = busy
        BY <2>1, <2>9
      <3> HIDE DEF p
      <3> QED
        BY <2>4, <2>6, <2>7, <3>1, <3>2, OperationKeeps
    <2> QED
      BY <2>8, <2>9
  <1>12. CASE OpLists
    <2>1. PICK o \in ops :
          /\ o.kind = "list" \/ o.pc = "done"
          /\ LET d == o.todo[1]
             IN  /\ d = Root \/ d \in disk[o.env]
                 /\ entries' = [entries EXCEPT ![d] = [env |-> o.env, what |-> Listing(o.env, d)]]
                 /\ loadedDirs' = loadedDirs \cup {d}
          /\ IF Len(o.todo) = 1 THEN busy' = FALSE /\ ops' = ops \ {o}
             ELSE ops' = (ops \ {o}) \cup {[o EXCEPT !.todo = Tail(@)]} /\ UNCHANGED busy
      BY <1>12 DEF OpLists
    <2>2. OpOK(o) /\ o.todo # <<>> /\ o.todo \in Seq(Dir) /\ o.env \in Env
      BY <2>1, <1>t DEF OpOK, Operation
    <2>3. PICK d : d = o.todo[1]
      OBVIOUS
    <2>4. d \in Dir
      BY <2>2, <2>3
    <2>5. Listing(o.env, d) \subseteq Entry
      BY <2>2, <1>t DEF Listing, ViewOK
    <2>6. /\ entries' = [entries EXCEPT ![d] = [env |-> o.env, what |-> Listing(o.env, d)]]
          /\ loadedDirs' = loadedDirs \cup {d}
      BY <2>1, <2>3
    <2>7. entries' \in [Dir -> [env : Env \cup {NoEnv}, what : SUBSET Entry]]
      BY <2>2, <2>4, <2>5, <2>6, <1>t DEF ViewOK
    <2>8. busy' \in BOOLEAN
      BY <2>1, <1>t, Zenon DEF ViewOK
    <2>9. UNCHANGED <<disk, permitted, envs, reloading, selectedEnv, savedEnv, info, target, mingled,
                      starts>>
      BY <1>12 DEF OpLists
    <2>10. ViewOK'
      BY <2>4, <2>6, <2>7, <2>8, <2>9, <1>t DEF ViewOK
    <2>11. \A c \in loadedDirs' : (c \in loadedDirs /\ entries'[c].env = entries[c].env)
                                  \/ entries'[c].env = o.env
      BY <2>4, <2>6, <1>t DEF ViewOK
    <2>12. CASE Len(o.todo) = 1
      BY <2>1, <2>2, <2>9, <2>10, <2>11, <2>12, OperationKeeps
    <2>13. CASE Len(o.todo) # 1
      <3>0. Tail(o.todo) \in Seq(Dir) /\ Tail(o.todo) # <<>>
        <4> DEFINE l == o.todo
        <4>1. l \in Seq(Dir) /\ l # <<>> /\ Len(l) # 1
          BY <2>2, <2>13
        <4> HIDE DEF l
        <4>2. Tail(l) \in Seq(Dir) /\ Len(Tail(l)) = Len(l) - 1 /\ Len(l) \in Nat /\ Len(l) > 1
          <5>1. Tail(l) \in Seq(Dir) /\ Len(Tail(l)) = Len(l) - 1
            BY <4>1, HeadTailProperties
          <5>2. Len(l) \in Nat /\ Len(l) > 1
            <6>1. \A m \in Seq(Dir) : m # <<>> => Len(m) \in Nat \ {0}
              BY EmptySeq
            <6>2. Len(l) \in Nat \ {0}
              BY <4>1, <6>1
            <6>3. \A n \in Nat \ {0} : n # 1 => n \in Nat /\ n > 1
              OBVIOUS
            <6> QED
              BY <4>1, <6>2, <6>3
          <5> QED
            BY <5>1, <5>2
        <4>3. Tail(l) # <<>>
          <5>1. Len(Tail(l)) # Len(<<>>)
            BY <4>2
          <5> QED
            BY <5>1
        <4> QED
          BY <4>2, <4>3 DEF l
      <3> DEFINE p == [o EXCEPT !.todo = Tail(@)]
      <3>1. OpOK(p) /\ p.env = o.env
        BY <2>2, <3>0 DEF OpOK, Operation
      <3>2. ops' = (ops \ {o}) \cup {p} /\ busy' = busy
        BY <2>1, <2>13
      <3> HIDE DEF p
      <3> QED
        BY <2>9, <2>10, <2>11, <3>1, <3>2, OperationKeeps
    <2> QED
      BY <2>12, <2>13
  <1>13. CASE OpFails
    <2>1. PICK o \in ops : ops' = ops \ {o}
      BY <1>13 DEF OpFails
    <2>2. /\ busy' = FALSE
          /\ UNCHANGED <<disk, permitted, envs, reloading, selectedEnv, savedEnv, info, entries,
                         loadedDirs, target, mingled, starts>>
      BY <1>13 DEF OpFails
    <2>3. busy' \in BOOLEAN
      BY <2>2, Zenon
    <2>4. ViewOK'
      BY <2>2, <2>3, <1>t DEF ViewOK
    <2> QED
      BY <2>1, <2>2, <2>4, <1>t, OperationKeeps
  <1> QED
    BY <1>u, <1>1, <1>2, <1>3, <1>5, <1>6, <1>7, <1>8, <1>9, <1>10, <1>11, <1>12, <1>13 DEF FileNext

\* The tree of files is that of the environment whose name the page shows, whatever
\* operations, reloads and deletions by others overlap (FileEnvironments), except where a
\* control that ignores isBusy, or a reload, has put two operations side by side.
THEOREM TreeIsOfItsEnvironment == FileSpec => []TreeIsOfTheEnvironment
  <1>1. FileInv => TreeIsOfTheEnvironment
    BY DEF FileInv
  <1> QED
    BY <1>1, InitFiles, NextFiles, PTL DEF FileSpec

-----------------------------------------------------------------------------
(* Comments and history: a set of numbers in order, what requests carry, then *)
(* one invariant after the other.                                             *)

\* Numbers in order: a set of them has a least one, hence any finite one an order.
LEMMA LeastNumber == ASSUME NEW T \in SUBSET Nat, T # {} PROVE \E n \in T : \A m \in T : n <= m
  <1>1. PICK n \in T : \A m \in T : ~(<<m, n>> \in OpToRel(<, Nat))
    BY NatLessThanWellFounded, WFMin
  <1>2. \A m \in T : ~(m < n)
    BY <1>1 DEF OpToRel
  <1> QED
    BY <1>2

Orders(s, S) == s \in [1 .. Cardinality(S) -> S] /\ Ascends(s) /\ ToSet(s) = S

LEMMA OrderExists ==
  ASSUME NEW N \in Nat, NEW S \in SUBSET (1 .. N)
  PROVE  \E s : Orders(s, S)
  <1> DEFINE Bad == {n \in Nat : \E R \in SUBSET (1 .. n) : \A s : ~Orders(s, R)}
  <1> SUFFICES ASSUME N \in Bad PROVE FALSE
    OBVIOUS
  <1>1. PICK n \in Bad : \A m \in Bad : n <= m
    <2>1. Bad \in SUBSET Nat /\ Bad # {}
      OBVIOUS
    <2> HIDE DEF Bad
    <2> QED
      BY <2>1, LeastNumber
  <1>n. n \in Nat /\ \E R \in SUBSET (1 .. n) : \A s : ~Orders(s, R)
    OBVIOUS
  <1>m. \A m \in Nat : m < n => \A R \in SUBSET (1 .. m) : \E s : Orders(s, R)
    BY <1>1, <1>n
  <1> HIDE DEF Bad
  <1>2. PICK R \in SUBSET (1 .. n) : \A s : ~Orders(s, R)
    BY <1>n
  <1>3. CASE n = 0
    <2>1. R = {}
      BY <1>3
    <2>2. Orders(<<>>, {})
      BY FS_EmptySet DEF Orders, Ascends, ToSet
    <2> QED
      BY <1>2, <2>1, <2>2
  <1>4. CASE n # 0
    <2>1. n - 1 \in Nat /\ n - 1 < n
      BY <1>n, <1>4
    <2>2. PICK s : Orders(s, R \ {n})
      <3>1. R \ {n} \in SUBSET (1 .. n - 1)
        BY <1>n
      <3> QED
        BY <1>m, <2>1, <3>1
    <2>3. CASE n \notin R
      <3>1. R \ {n} = R
        BY <2>3
      <3> QED
        BY <1>2, <2>2, <3>1
    <2>4. CASE n \in R
      <3> DEFINE Q == R \ {n}
                 k == Cardinality(Q)
                 r == [i \in 1 .. k + 1 |-> IF i = k + 1 THEN n ELSE s[i]]
      <3>1. k \in Nat /\ Cardinality(R) = k + 1
        <4>1. IsFiniteSet(R)
          <5>1. R \in SUBSET Nat /\ \A x \in R : x <= n
            BY <1>n
          <5> QED
            BY <1>n, <5>1, FS_BoundedSetOfNaturals
        <4>2. IsFiniteSet(Q) /\ Cardinality(Q) = Cardinality(R) - 1
          BY <2>4, <4>1, FS_RemoveElement
        <4>3. Cardinality(Q) \in Nat /\ Cardinality(R) \in Nat
          BY <4>1, <4>2, FS_CardinalityType
        <4> QED
          BY <4>2, <4>3
      <3>2. s \in [1 .. k -> Q] /\ Ascends(s) /\ ToSet(s) = Q
        BY <2>2 DEF Orders
      <3>3. Q \subseteq R /\ n \in R /\ n \in Nat /\ \A m \in Q : m \in Nat /\ m < n
        BY <2>4, <1>n
      <3>x. \A x \in R : x = n \/ x \in Q
        OBVIOUS
      <3> HIDE DEF Q, k
      <3>4. r \in [1 .. Cardinality(R) -> R]
        <4>1. \A i \in 1 .. k + 1 : i # k + 1 => i \in 1 .. k
          BY <3>1
        <4>2. \A i \in 1 .. k + 1 : (IF i = k + 1 THEN n ELSE s[i]) \in R
          BY <3>2, <3>3, <4>1
        <4> QED
          BY <3>1, <4>2
      <3>5. Ascends(r)
        <4> SUFFICES ASSUME NEW i \in 1 .. k + 1, NEW j \in 1 .. k + 1, i < j PROVE r[i] < r[j]
          BY <3>1 DEF Ascends
        <4>1. i \in 1 .. k /\ r[i] = s[i] /\ s[i] \in Q
          BY <3>1, <3>2
        <4>2. CASE j = k + 1
          BY <4>1, <4>2, <3>3
        <4>3. CASE j # k + 1
          <5>1. j \in 1 .. k /\ r[j] = s[j]
            BY <4>3, <3>1
          <5> QED
            BY <4>1, <5>1, <3>2 DEF Ascends
        <4> QED
          BY <4>2, <4>3
      <3>6. ToSet(r) = R
        <4>2. \A x \in Q : \E i \in 1 .. k : s[i] = x
          BY <3>2 DEF ToSet
        <4>3. \A x \in R : \E i \in 1 .. k + 1 : r[i] = x
          <5> SUFFICES ASSUME NEW x \in R PROVE \E i \in 1 .. k + 1 : r[i] = x
            OBVIOUS
          <5>1. CASE x = n
            <6>1. k + 1 \in 1 .. k + 1 /\ r[k + 1] = n
              BY <3>1
            <6> QED
              BY <5>1, <6>1
          <5>2. CASE x \in Q
            <6>1. PICK i \in 1 .. k : s[i] = x
              BY <4>2, <5>2
            <6>2. i \in 1 .. k + 1 /\ r[i] = s[i]
              BY <3>1
            <6> QED
              BY <6>1, <6>2
          <5> QED
            BY <5>1, <5>2, <3>x
        <4> HIDE DEF r
        <4> QED
          BY <3>1, <3>4, <4>3 DEF ToSet
      <3> HIDE DEF r
      <3> QED
        BY <1>2, <3>4, <3>5, <3>6 DEF Orders
    <2> QED
      BY <2>3, <2>4
  <1> QED
    BY <1>3, <1>4

LEMMA InOrderIs ==
  ASSUME NEW N \in Nat, NEW S \in SUBSET (1 .. N)
  PROVE  Orders(InOrder(S), S)
  BY OrderExists DEF InOrder, Orders

\* What InOrder is used for.
LEMMA InOrderTyped ==
  ASSUME NEW N \in Nat, NEW S \in SUBSET (1 .. N)
  PROVE  /\ InOrder(S) \in Seq(Nat) /\ ToSet(InOrder(S)) = S /\ NoRepeats(InOrder(S))
         /\ \A i \in DOMAIN InOrder(S) : InOrder(S)[i] \in S
  <1> DEFINE s == InOrder(S)
             k == Cardinality(S)
  <1>1. s \in [1 .. k -> S] /\ Ascends(s) /\ ToSet(s) = S
    BY InOrderIs DEF Orders
  <1>2. k \in Nat
    <2>1. S \in SUBSET Nat /\ \A x \in S : x <= N
      OBVIOUS
    <2> QED
      BY <2>1, FS_BoundedSetOfNaturals, FS_CardinalityType
  <1>n. \A x \in S : x \in Nat
    OBVIOUS
  <1> HIDE DEF s, k
  <1>f. DOMAIN s = 1 .. k /\ \A i \in 1 .. k : s[i] \in S
    BY <1>1
  <1>3. s \in Seq(Nat)
    <2>1. s \in [1 .. k -> Nat]
      BY <1>1, <1>f, <1>n
    <2> QED
      BY <1>2, <2>1
  <1>4. NoRepeats(s)
    <2> SUFFICES ASSUME NEW i \in DOMAIN s, NEW j \in DOMAIN s, i # j PROVE s[i] # s[j]
      BY DEF NoRepeats
    <2>1. i \in Nat /\ j \in Nat /\ s[i] \in Nat /\ s[j] \in Nat
      <3>1. i \in 1 .. k /\ j \in 1 .. k
        BY <1>f
      <3>2. s[i] \in S /\ s[j] \in S
        BY <1>f, <3>1
      <3>3. i \in Nat /\ j \in Nat
        BY <3>1, <1>2
      <3>4. s[i] \in Nat /\ s[j] \in Nat
        BY <3>2, <1>n
      <3> QED
        BY <3>3, <3>4
    <2>2. i < j \/ j < i
      BY <2>1
    <2> QED
      BY <1>1, <2>1, <2>2 DEF Ascends
  <1> QED
    BY <1>1, <1>3, <1>4 DEF s

\* A sequence without one of its elements.
LEMMA WithoutIs ==
  ASSUME NEW s \in Seq(Nat), NEW x, NoRepeats(s)
  PROVE  /\ Without(s, x) \in Seq(Nat) /\ NoRepeats(Without(s, x))
         /\ ToSet(Without(s, x)) = ToSet(s) \ {x}
  <1> DEFINE S == {i \in DOMAIN s : s[i] # x}
             kept == InOrder(S)
             r == [n \in DOMAIN kept |-> s[kept[n]]]
  <1>1. Len(s) \in Nat /\ DOMAIN s = 1 .. Len(s) /\ S \in SUBSET (1 .. Len(s))
    OBVIOUS
  <1>2. kept \in Seq(Nat) /\ ToSet(kept) = S /\ NoRepeats(kept) /\ \A i \in DOMAIN kept : kept[i] \in S
    BY <1>1, InOrderTyped
  <1>3. Without(s, x) = r
    BY DEF Without
  <1>s. \A i \in S : i \in DOMAIN s /\ s[i] # x
    OBVIOUS
  <1>t. \A i \in DOMAIN s : s[i] # x => i \in S
    OBVIOUS
  <1> HIDE DEF kept, S
  <1>4. r \in Seq(Nat)
    <2>1. DOMAIN kept = 1 .. Len(kept) /\ Len(kept) \in Nat
      BY <1>2
    <2>2. \A n \in DOMAIN kept : s[kept[n]] \in Nat
      BY <1>2, <1>s
    <2> QED
      BY <2>1, <2>2
  <1>5. NoRepeats(r)
    BY <1>2, <1>s DEF NoRepeats
  <1>6. ToSet(r) = ToSet(s) \ {x}
    <2>1. \A y \in ToSet(r) : y \in ToSet(s) \ {x}
      BY <1>2, <1>s DEF ToSet
    <2>2. ASSUME NEW y \in ToSet(s) \ {x} PROVE y \in ToSet(r)
      <3>1. PICK i \in DOMAIN s : s[i] = y
        BY <2>2 DEF ToSet
      <3>2. i \in S
        BY <2>2, <3>1, <1>t
      <3>3. PICK n \in DOMAIN kept : kept[n] = i
        BY <1>2, <3>2 DEF ToSet
      <3> QED
        BY <3>1, <3>3 DEF ToSet
    <2> QED
      BY <2>1, <2>2
  <1> HIDE DEF r
  <1> QED
    BY <1>3, <1>4, <1>5, <1>6

LEMMA AppendIs ==
  ASSUME NEW s \in Seq(Nat), NoRepeats(s), NEW x \in Nat \ ToSet(s)
  PROVE  /\ Append(s, x) \in Seq(Nat) /\ NoRepeats(Append(s, x))
         /\ ToSet(Append(s, x)) = ToSet(s) \cup {x}
  <1> DEFINE r == Append(s, x)
  <1>1. /\ r \in Seq(Nat) /\ Len(r) = Len(s) + 1 /\ Len(s) \in Nat /\ r[Len(s) + 1] = x
        /\ \A i \in 1 .. Len(s) : r[i] = s[i]
        /\ DOMAIN r = 1 .. Len(s) + 1 /\ DOMAIN s = 1 .. Len(s)
    OBVIOUS
  <1> HIDE DEF r
  <1>2. \A i \in DOMAIN r : i \in DOMAIN s \/ i = Len(s) + 1
    BY <1>1
  <1>3. \A i \in DOMAIN s : s[i] # x /\ i \in DOMAIN r /\ r[i] = s[i]
    BY <1>1 DEF ToSet
  <1>4. NoRepeats(r)
    BY <1>1, <1>2, <1>3 DEF NoRepeats
  <1>5. ToSet(r) = ToSet(s) \cup {x}
    <2>1. Len(s) + 1 \in DOMAIN r
      BY <1>1
    <2> QED
      BY <1>1, <1>2, <1>3, <2>1 DEF ToSet
  <1> QED
    BY <1>1, <1>4, <1>5 DEF r

\* What an errand keeps but for the fields that are named.
SameTask(f, e) == f.kind = e.kind /\ f.task = e.task /\ f.append = e.append /\ f.offset = e.offset

\* The requests, field by field.
LEMMA ErrandIs ==
  ASSUME NEW k \in {"comments", "history", "post"}, NEW t \in Task
  PROVE  /\ Errand(k, t) \in ErrandType
         /\ Errand(k, t).kind = k /\ Errand(k, t).task = t /\ Errand(k, t).stage = "sent"
         /\ Errand(k, t).items = <<>> /\ Errand(k, t).offset = 0 /\ ~Errand(k, t).append
  BY DEF Errand, ErrandType

LEMMA HistoryIs ==
  ASSUME NEW t \in Task
  PROVE  /\ History(t) \in ErrandType
         /\ History(t).kind = "history" /\ History(t).task = t /\ History(t).stage = "sent"
         /\ History(t).items = <<>> /\ History(t).offset = 0 /\ ~History(t).append
  <1> DEFINE e == Errand("history", t)
  <1>1. /\ e \in ErrandType /\ e.kind = "history" /\ e.task = t /\ e.stage = "sent"
        /\ e.items = <<>> /\ e.offset = 0 /\ ~e.append
    BY ErrandIs
  <1>2. History(t) = [e EXCEPT !.silent = FALSE]
    BY DEF History
  <1> HIDE DEF e
  <1> QED
    BY <1>1, <1>2 DEF ErrandType

LEMMA AsListedIs ==
  ASSUME NEW e \in ErrandType, NEW items \in Seq(Nat)
  PROVE  /\ AsListed(e, items) \in ErrandType /\ SameTask(AsListed(e, items), e)
         /\ AsListed(e, items).stage = "listed" /\ AsListed(e, items).items = items
         /\ AsListed(e, items).alone = e.alone
  BY DEF AsListed, ErrandType, SameTask

LEMMA MoreIs ==
  ASSUME NEW e \in ErrandType, NEW b \in BOOLEAN
  PROVE  LET f == [e EXCEPT !.more = b] IN
         /\ f \in ErrandType /\ SameTask(f, e) /\ f.stage = e.stage /\ f.items = e.items
         /\ f.alone = e.alone
  BY DEF ErrandType, SameTask

LEMMA MarkingIs ==
  ASSUME NEW e \in ErrandType
  PROVE  /\ Marking(e) \in ErrandType
         /\ Marking(e).kind = "comments" /\ Marking(e).task = e.task /\ Marking(e).items = <<>>
         /\ Marking(e).stage = "marking"
  <1> DEFINE c == Comments(e.task)
             d == [c EXCEPT !.stage = "marking"]
  <1>1. e.task \in Task /\ e.id \in Nat
    BY DEF ErrandType
  <1>2. /\ c \in ErrandType /\ c.kind = "comments" /\ c.task = e.task /\ c.items = <<>>
    BY <1>1, ErrandIs DEF Comments
  <1> HIDE DEF c
  <1>3. /\ d \in ErrandType /\ d.kind = "comments" /\ d.task = e.task /\ d.items = <<>>
        /\ d.stage = "marking"
    BY <1>2 DEF ErrandType
  <1>4. Marking(e) = [d EXCEPT !.id = e.id]
    BY DEF Marking, c
  <1> HIDE DEF d
  <1> QED
    BY <1>1, <1>3, <1>4 DEF ErrandType

LEMMA NumberedIs ==
  ASSUME NEW e \in ErrandType, NEW c \in Nat
  PROVE  LET f == [e EXCEPT !.id = c] IN
         /\ f \in ErrandType /\ SameTask(f, e) /\ f.stage = e.stage /\ f.items = e.items
         /\ f.id = c
  BY DEF ErrandType, SameTask

LEMMA StagedIs ==
  ASSUME NEW e \in ErrandType, NEW s \in {"stamped", "written"}
  PROVE  LET f == [e EXCEPT !.stage = s] IN
         /\ f \in ErrandType /\ SameTask(f, e) /\ f.stage = s /\ f.items = e.items /\ f.id = e.id
  BY DEF ErrandType, SameTask

LEMMA PageIs ==
  ASSUME NEW t \in Task, NEW n \in Nat
  PROVE  /\ Page(t, n) \in ErrandType
         /\ Page(t, n).kind = "history" /\ Page(t, n).task = t /\ Page(t, n).stage = "sent"
         /\ Page(t, n).append /\ Page(t, n).offset = n
  <1> DEFINE e == History(t)
             d == [e EXCEPT !.append = TRUE]
  <1>1. e \in ErrandType /\ e.kind = "history" /\ e.task = t /\ e.stage = "sent"
    BY HistoryIs
  <1>2. Page(t, n) = [d EXCEPT !.offset = n]
    BY DEF Page
  <1> HIDE DEF e
  <1>3. d \in ErrandType /\ d.kind = "history" /\ d.task = t /\ d.stage = "sent" /\ d.append
    BY <1>1 DEF ErrandType
  <1> HIDE DEF d
  <1> QED
    BY <1>2, <1>3 DEF ErrandType

LEMMA ApartIs ==
  ASSUME NEW es \in SUBSET ErrandType, NEW f \in Apart(es)
  PROVE  /\ f \in ErrandType
         /\ \E e \in es : /\ SameTask(f, e) /\ f.stage = e.stage /\ f.items = e.items
                          /\ f.id = e.id /\ ~f.alone
  <1>1. PICK e \in es : f = [e EXCEPT !.alone = FALSE]
    BY DEF Apart
  <1>2. e \in ErrandType
    OBVIOUS
  <1>3. /\ f \in ErrandType /\ SameTask(f, e) /\ f.stage = e.stage /\ f.items = e.items
        /\ f.id = e.id /\ ~f.alone
    BY <1>1, <1>2 DEF ErrandType, SameTask
  <1> QED
    BY <1>3

LEMMA EndedIs ==
  ASSUME NEW e \in ErrandType, NEW f \in Ended(e)
  PROVE  /\ f \in ErrandType /\ f.kind = "history" /\ f.stage = "sent" /\ ~f.append /\ f.offset = 0
  <1>1. e.task \in Task /\ f = SilentHistory(e.task)
    BY DEF Ended, ErrandType
  <1> QED
    BY <1>1, ErrandIs DEF SilentHistory

LEMMA EntriesAre ==
  ASSUME NEW n \in Nat, NEW offset \in Nat, offset < n
  PROVE  /\ Entries(n, offset) \in Seq(Nat) /\ Entries(n, offset) # <<>>
         /\ Len(Entries(n, offset)) \in 1 .. n - offset
         /\ \A i \in 1 .. Len(Entries(n, offset)) : Entries(n, offset)[i] = n - offset - i + 1
  <1> DEFINE k == IF n - offset < PageSize THEN n - offset ELSE PageSize
  <1>1. k \in Nat /\ k \in 1 .. n - offset
    BY ThreadAssumption
  <1>2. Entries(n, offset) = [i \in 1 .. k |-> n - offset - i + 1]
    BY DEF Entries
  <1> HIDE DEF k
  <1>3. \A i \in 1 .. k : n - offset - i + 1 \in Nat
    BY <1>1
  <1> DEFINE r == [i \in 1 .. k |-> n - offset - i + 1]
  <1>4. r \in Seq(Nat) /\ Len(r) = k
    BY <1>1, <1>3
  <1>5. r # <<>>
    <2>1. 1 \in 1 .. k
      BY <1>1
    <2> HIDE DEF r
    <2> QED
      BY <1>1, <1>4
  <1> QED
    BY <1>1, <1>2, <1>4, <1>5

\* The comments of task-service.
LEMMA TurnedIs ==
  ASSUME posted \in Seq(CommentType), NEW c \in DOMAIN posted, NEW s \in {"stamped", "there", "gone"}
  PROVE  /\ Turned(c, s) \in Seq(CommentType) /\ Len(Turned(c, s)) = Len(posted)
         /\ DOMAIN Turned(c, s) = DOMAIN posted
         /\ \A d \in DOMAIN posted : /\ Turned(c, s)[d].own = posted[d].own
                                     /\ Turned(c, s)[d].task = posted[d].task
                                     /\ d # c => Turned(c, s)[d] = posted[d]
         /\ Turned(c, s)[c].state = s
  <1> DEFINE r == [posted[c] EXCEPT !.state = s]
             q == Turned(c, s)
  <1>1. /\ Len(posted) \in Nat /\ DOMAIN posted = 1 .. Len(posted)
        /\ posted \in [1 .. Len(posted) -> CommentType]
    OBVIOUS
  <1>2. posted[c] \in CommentType
    BY <1>1
  <1>3. r \in CommentType /\ r.own = posted[c].own /\ r.task = posted[c].task /\ r.state = s
    BY <1>2 DEF CommentType
  <1>4. q = [posted EXCEPT ![c] = r]
    BY DEF Turned
  <1> HIDE DEF r, q
  <1>5. /\ q \in [1 .. Len(posted) -> CommentType]
        /\ \A d \in DOMAIN posted : q[d] = IF d = c THEN r ELSE posted[d]
    BY <1>1, <1>3, <1>4
  <1>6. q \in Seq(CommentType) /\ Len(q) = Len(posted) /\ DOMAIN q = DOMAIN posted
    BY <1>1, <1>5
  <1> QED
    BY <1>3, <1>5, <1>6 DEF q

LEMMA StampedIs ==
  ASSUME posted \in Seq(CommentType), NEW t \in Task, NEW own \in BOOLEAN
  PROVE  /\ Stamped(t, own) \in Seq(CommentType) /\ Len(Stamped(t, own)) = Len(posted) + 1
         /\ DOMAIN Stamped(t, own) = DOMAIN posted \cup {Len(posted) + 1}
         /\ \A d \in DOMAIN posted : Stamped(t, own)[d] = posted[d] /\ d # Len(posted) + 1
         /\ Stamped(t, own)[Len(posted) + 1] = Comment(t, own, "stamped")
  <1> DEFINE r == Comment(t, own, "stamped")
             q == Stamped(t, own)
  <1>1. r \in CommentType
    BY DEF Comment, CommentType
  <1>2. q = Append(posted, r)
    BY DEF Stamped
  <1> HIDE DEF r, q
  <1>3. /\ q \in Seq(CommentType) /\ Len(q) = Len(posted) + 1 /\ Len(posted) \in Nat
        /\ DOMAIN q = 1 .. Len(posted) + 1 /\ DOMAIN posted = 1 .. Len(posted)
        /\ q[Len(posted) + 1] = r
        /\ \A d \in 1 .. Len(posted) : q[d] = posted[d]
    BY <1>1, <1>2
  <1>4. DOMAIN q = DOMAIN posted \cup {Len(posted) + 1}
    BY <1>3
  <1>5. \A d \in DOMAIN posted : q[d] = posted[d] /\ d # Len(posted) + 1
    BY <1>3
  <1> QED
    BY <1>3, <1>4, <1>5 DEF q, r

LEMMA ThreadOfIs ==
  ASSUME ThreadTypeOK, NEW t \in Task
  PROVE  /\ ThreadOf(t) \in Seq(Nat) /\ NoRepeats(ThreadOf(t))
         /\ ToSet(ThreadOf(t)) = InState(t, "there")
  <1>1. InState(t, "there") \in SUBSET (1 .. Len(posted)) /\ Len(posted) \in Nat
    BY DEF InState, ThreadTypeOK
  <1> QED
    BY <1>1, InOrderTyped DEF ThreadOf

\* A comment keeps its task and its author.
PostsKept ==
    /\ posted' \in Seq(CommentType) /\ Len(posted') <= MaxComments /\ Len(posted) <= Len(posted')
    /\ DOMAIN posted \subseteq DOMAIN posted'
    /\ \A d \in DOMAIN posted : posted'[d].own = posted[d].own /\ posted'[d].task = posted[d].task

LEMMA PostsStep ==
  ASSUME ThreadTypeOK, RequestInv, [ThreadNext]_threadVars
  PROVE  PostsKept
  <1>t. /\ posted \in Seq(CommentType) /\ Len(posted) <= MaxComments /\ Len(posted) \in Nat
        /\ MaxComments \in Nat /\ errands \subseteq ErrandType
        /\ opened \in Task \cup {NoTask} /\ ToSet(thread) \subseteq DOMAIN posted
    BY ThreadAssumption DEF ThreadTypeOK
  <1>k. ASSUME UNCHANGED posted PROVE PostsKept
    BY <1>k, <1>t DEF PostsKept
  <1>s. ASSUME NEW c \in DOMAIN posted, NEW s \in {"stamped", "there", "gone"},
               posted' = Turned(c, s)
        PROVE  PostsKept
    <2>q. PICK q : q = Turned(c, s)
      OBVIOUS
    <2>1. /\ q \in Seq(CommentType) /\ Len(q) = Len(posted) /\ DOMAIN q = DOMAIN posted
          /\ \A d \in DOMAIN posted : q[d].own = posted[d].own /\ q[d].task = posted[d].task
      BY <1>t, <2>q, TurnedIs
    <2>2. posted' = q
      BY <1>s, <2>q
    <2> QED
      BY <2>1, <2>2, <1>t DEF PostsKept
  <1>p. ASSUME NEW t \in Task, NEW own \in BOOLEAN, Len(posted) < MaxComments,
               posted' = Stamped(t, own)
        PROVE  PostsKept
    <2>1. /\ posted' \in Seq(CommentType) /\ Len(posted') = Len(posted) + 1
          /\ DOMAIN posted' = DOMAIN posted \cup {Len(posted) + 1}
          /\ \A d \in DOMAIN posted : posted'[d] = posted[d]
      BY <1>p, <1>t, StampedIs
    <2> QED
      BY <2>1, <1>p, <1>t DEF PostsKept
  <1>1. CASE OthersStamp
    BY <1>1, <1>p DEF OthersStamp
  <1>2. CASE OthersWriteComment
    <2>1. PICK t \in Task : \E c \in InState(t, "stamped") : posted' = Turned(c, "there")
      BY <1>2 DEF OthersWriteComment
    <2>2. PICK c \in InState(t, "stamped") : posted' = Turned(c, "there")
      BY <2>1
    <2>3. c \in DOMAIN posted
      BY DEF InState
    <2> QED
      BY <2>2, <2>3, <1>s
  <1>3. CASE StampPost
    <2>1. PICK e \in errands : Len(posted) < MaxComments /\ posted' = Stamped(e.task, TRUE)
      BY <1>3 DEF StampPost
    <2>2. e.task \in Task
      BY <1>t DEF ErrandType
    <2> QED
      BY <2>1, <2>2, <1>p
  <1>4. CASE WritePost
    <2>1. PICK e \in errands : /\ e.kind = "post" /\ e.stage = "stamped"
                               /\ posted' = Turned(e.id, "there")
      BY <1>4 DEF WritePost
    <2>2. e.id \in DOMAIN posted
      BY <2>1 DEF RequestInv, ErrandOf
    <2> QED
      BY <2>1, <2>2, <1>s
  <1>5. CASE PostFails
    <2>1. PICK e \in errands : /\ e.kind = "post"
                               /\ posted' = IF e.stage = "stamped" THEN Turned(e.id, "gone") ELSE posted
      BY <1>5 DEF PostFails
    <2>2. CASE e.stage = "stamped"
      <3>1. e.id \in DOMAIN posted
        BY <2>1, <2>2 DEF RequestInv, ErrandOf
      <3> QED
        BY <2>1, <2>2, <3>1, <1>s
    <2>3. CASE e.stage # "stamped"
      BY <2>1, <2>3, <1>k
    <2> QED
      BY <2>2, <2>3
  <1>6. CASE DeleteComment
    <2>1. PICK c \in ToSet(thread) : posted' = Turned(c, "gone")
      BY <1>6 DEF DeleteComment
    <2> QED
      BY <2>1, <1>s, <1>t
  <1>7. CASE \/ OthersChange \/ OpenTask \/ CloseTask \/ TypeComment \/ ServeComments
             \/ ReceiveComments \/ MarkRead \/ CommentsFail \/ LoadMore \/ ServeHistory
             \/ ReceiveHistory \/ HistoryFails \/ SubmitComment \/ PostAnswered
             \/ UNCHANGED threadVars
    BY <1>7, <1>k DEF OthersChange, OpenTask, CloseTask, TypeComment, ServeComments,
       ReceiveComments, MarkRead, CommentsFail, LoadMore, ServeHistory, ReceiveHistory,
       HistoryFails, SubmitComment, PostAnswered, threadVars, store
  <1> QED
    BY <1>1, <1>2, <1>3, <1>4, <1>5, <1>6, <1>7 DEF ThreadNext

\* The same request, though it may have been set apart.
Like(f, e) == SameTask(f, e) /\ f.stage = e.stage /\ f.items = e.items /\ f.id = e.id

LEMMA ErrandsStep ==
  ASSUME ThreadTypeOK, RequestInv, [ThreadNext]_threadVars
  PROVE  \A f \in errands' : f \in ErrandType /\ ErrandOf(f)'
  <1>t. /\ posted \in Seq(CommentType) /\ Len(posted) \in Nat /\ errands \subseteq ErrandType
        /\ opened \in Task \cup {NoTask} /\ thread \in Seq(Nat) /\ trail \in Seq(Nat)
        /\ ToSet(thread) \subseteq DOMAIN posted /\ happened \in [Task -> Nat]
    BY DEF ThreadTypeOK
  <1>p. PostsKept
    BY PostsStep
  <1>l. ASSUME NEW f \in ErrandType, NEW e \in errands, Like(f, e)
        PROVE  f \in ErrandType /\ ErrandOf(f)'
    BY <1>l, <1>p DEF RequestInv, ErrandOf, PostsKept, Like, SameTask
  <1>e. \A e \in errands : e \in ErrandType /\ ErrandOf(e)' /\ e.task \in Task /\ e.id \in Nat
    <2>1. \A e \in errands : e \in ErrandType /\ Like(e, e) /\ e.task \in Task /\ e.id \in Nat
      BY <1>t DEF Like, SameTask, ErrandType
    <2> QED
      BY <2>1, <1>l
  <1>a. \A es \in SUBSET errands : \A f \in Apart(es) : f \in ErrandType /\ ErrandOf(f)'
    <2> SUFFICES ASSUME NEW es \in SUBSET errands, NEW f \in Apart(es)
                 PROVE  f \in ErrandType /\ ErrandOf(f)'
      OBVIOUS
    <2>1. f \in ErrandType /\ \E e \in es : Like(f, e)
      BY <1>t, ApartIs DEF Like
    <2> QED
      BY <2>1, <1>l
  <1>n. ASSUME NEW f \in ErrandType,
               \/ f.kind = "history"
               \/ f.kind = "comments" /\ f.items = <<>>
               \/ f.kind = "post" /\ f.stage = "sent"
        PROVE  f \in ErrandType /\ ErrandOf(f)'
    <2>1. ToSet(<<>>) = {} /\ NoRepeats(<<>>)
      BY DEF ToSet, NoRepeats
    <2> QED
      BY <1>n, <2>1 DEF ErrandOf
  <1>i. \A t \in Task : /\ Comments(t) \in ErrandType /\ Comments(t).kind = "comments" /\ Comments(t).items = <<>>
                        /\ History(t) \in ErrandType /\ History(t).kind = "history"
                        /\ SilentHistory(t) \in ErrandType /\ SilentHistory(t).kind = "history"
    BY ErrandIs, HistoryIs DEF Comments, SilentHistory
  <1>j. \A t \in Task : \A c \in Nat :
           /\ [Comments(t) EXCEPT !.id = c] \in ErrandType /\ [Comments(t) EXCEPT !.id = c].kind = "comments"
           /\ [Comments(t) EXCEPT !.id = c].items = <<>>
           /\ [SilentHistory(t) EXCEPT !.id = c] \in ErrandType /\ [SilentHistory(t) EXCEPT !.id = c].kind = "history"
    BY <1>i, NumberedIs DEF SameTask
  <1>d. \A e \in ErrandType : \A f \in Ended(e) : f \in ErrandType /\ ErrandOf(f)'
    BY EndedIs, <1>n
  <1>1. CASE OthersChange
    BY <1>1, <1>e, <1>i, <1>n DEF OthersChange
  <1>2. CASE OpenTask
    <2>1. PICK t \in Task : errands' = Apart(errands) \cup {Comments(t), History(t)}
      BY <1>2 DEF OpenTask
    <2> QED
      BY <2>1, <1>a, <1>i, <1>n
  <1>3. CASE CloseTask
    BY <1>3, <1>a DEF CloseTask
  <1>4. CASE ServeComments
    <2>1. PICK e \in errands : /\ e.kind = "comments" /\ UNCHANGED posted
                               /\ errands' = (errands \ {e}) \cup {AsListed(e, ThreadOf(e.task))}
      BY <1>4 DEF ServeComments, store
    <2>f. PICK f : f = AsListed(e, ThreadOf(e.task))
      OBVIOUS
    <2>2. /\ ThreadOf(e.task) \in Seq(Nat) /\ NoRepeats(ThreadOf(e.task))
          /\ ToSet(ThreadOf(e.task)) \subseteq DOMAIN posted
      BY <1>e, ThreadOfIs DEF InState
    <2>3. f \in ErrandType /\ f.items = ThreadOf(e.task) /\ f.kind = "comments"
      BY <2>1, <2>2, <2>f, <1>e, AsListedIs DEF SameTask
    <2>4. ErrandOf(f)'
      BY <2>1, <2>2, <2>3 DEF ErrandOf
    <2> QED
      BY <2>1, <2>3, <2>4, <2>f, <1>e
  <1>5. CASE ReceiveComments
    <2>1. PICK e \in errands : errands' = (errands \ {e}) \cup {Marking(e)}
      BY <1>5 DEF ReceiveComments
    <2> QED
      BY <2>1, <1>e, MarkingIs, <1>n
  <1>6. CASE MarkRead \/ CommentsFail
    <2>1. PICK e \in errands : errands' = (errands \ {e}) \cup Ended(e)
      BY <1>6 DEF MarkRead, CommentsFail, AfterNoList
    <2> QED
      BY <2>1, <1>e, <1>d
  <1>7. CASE LoadMore
    <2> DEFINE f == Page(opened, NextOffset)
    <2>1. opened \in Task /\ NextOffset \in Nat
      BY <1>7, <1>t DEF LoadMore, NextOffset
    <2>2. f \in ErrandType /\ f.kind = "history"
      BY <2>1, PageIs
    <2>3. errands' = errands \cup {f}
      BY <1>7 DEF LoadMore
    <2> HIDE DEF f
    <2> QED
      BY <2>2, <2>3, <1>e, <1>n
  <1>8. CASE ServeHistory
    <2>1. PICK e \in errands :
             LET n == happened[e.task]
                 items == IF e.offset < n THEN Entries(n, e.offset) ELSE <<>> IN
             /\ e.kind = "history"
             /\ errands' = (errands \ {e}) \cup {[AsListed(e, items) EXCEPT !.more = n > e.offset + PageSize]}
      BY <1>8 DEF ServeHistory
    <2> DEFINE n == happened[e.task]
               items == IF e.offset < n THEN Entries(n, e.offset) ELSE <<>>
               g == AsListed(e, items)
               b == n > e.offset + PageSize
               f == [g EXCEPT !.more = b]
    <2>2. n \in Nat /\ e.offset \in Nat
      BY <1>e, <1>t DEF ErrandType
    <2>3. items \in Seq(Nat)
      <3>1. CASE e.offset < n
        BY <2>2, <3>1, EntriesAre
      <3>2. CASE ~(e.offset < n)
        BY <3>2
      <3> QED
        BY <3>1, <3>2
    <2>4. errands' = (errands \ {e}) \cup {f} /\ b \in BOOLEAN
      BY <2>1
    <2> HIDE DEF n, items, b
    <2>5. g \in ErrandType /\ g.kind = "history"
      BY <2>1, <2>3, <1>e, AsListedIs DEF SameTask
    <2> HIDE DEF g
    <2>6. f \in ErrandType /\ f.kind = "history"
      BY <2>4, <2>5, MoreIs DEF SameTask
    <2> HIDE DEF f
    <2> QED
      BY <2>4, <2>6, <1>e, <1>n
  <1>9. CASE ReceiveHistory
    <2>1. PICK e \in errands : errands' = Apart(errands \ {e})
      BY <1>9 DEF ReceiveHistory
    <2> QED
      BY <2>1, <1>a
  <1>10. CASE HistoryFails \/ PostFails
    BY <1>10, <1>e DEF HistoryFails, PostFails
  <1>11. CASE SubmitComment
    <2>1. /\ opened \in Task /\ errands' = errands \cup {Errand("post", opened)}
      BY <1>11, <1>t DEF SubmitComment
    <2>2. /\ Errand("post", opened) \in ErrandType /\ Errand("post", opened).kind = "post"
          /\ Errand("post", opened).stage = "sent"
      BY <2>1, ErrandIs
    <2> QED
      BY <2>1, <2>2, <1>e, <1>n
  <1>12. CASE StampPost
    <2>1. PICK e \in errands :
             /\ e.kind = "post"
             /\ posted' = Stamped(e.task, TRUE)
             /\ errands' = (errands \ {e}) \cup {[[e EXCEPT !.stage = "stamped"] EXCEPT !.id = Len(posted')]}
      BY <1>12 DEF StampPost
    <2>2. /\ Len(posted') \in Nat /\ Len(posted') \in DOMAIN posted'
          /\ posted'[Len(posted')].own /\ posted'[Len(posted')].task = e.task
      <3>1. Len(posted') = Len(posted) + 1 /\ DOMAIN posted' = DOMAIN posted \cup {Len(posted) + 1}
        BY <2>1, <1>e, <1>t, StampedIs
      <3>2. posted'[Len(posted) + 1].own = TRUE /\ posted'[Len(posted) + 1].task = e.task
        <4>1. posted'[Len(posted) + 1] = Comment(e.task, TRUE, "stamped")
          BY <2>1, <1>e, <1>t, StampedIs
        <4> QED
          BY <4>1 DEF Comment
      <3>3. posted'[Len(posted')].own = TRUE /\ posted'[Len(posted')].task = e.task
        BY <3>1, <3>2
      <3>4. Len(posted') \in Nat /\ Len(posted') \in DOMAIN posted'
        BY <3>1, <1>t
      <3> QED
        BY <3>3, <3>4
    <2> DEFINE g == [e EXCEPT !.stage = "stamped"]
    <2>3. g \in ErrandType /\ g.kind = "post" /\ g.task = e.task
      BY <2>1, <1>e, StagedIs DEF SameTask
    <2>f. PICK f : f = [g EXCEPT !.id = Len(posted')]
      OBVIOUS
    <2>4. errands' = (errands \ {e}) \cup {f}
      BY <2>1, <2>f
    <2> HIDE DEF g
    <2>5. f \in ErrandType /\ f.kind = "post" /\ f.task = e.task /\ f.id = Len(posted')
      BY <2>2, <2>3, <2>f, NumberedIs DEF SameTask
    <2>6. ErrandOf(f)'
      BY <2>2, <2>5 DEF ErrandOf
    <2> QED
      BY <2>4, <2>5, <2>6, <1>e
  <1>13. CASE WritePost
    <2>1. PICK e \in errands :
             /\ e.kind = "post" /\ e.stage = "stamped"
             /\ errands' = (errands \ {e}) \cup {[e EXCEPT !.stage = "written"]}
      BY <1>13 DEF WritePost
    <2> DEFINE f == [e EXCEPT !.stage = "written"]
    <2>2. f \in ErrandType /\ SameTask(f, e) /\ f.id = e.id
      BY <1>e, StagedIs
    <2>3. errands' = (errands \ {e}) \cup {f}
      BY <2>1
    <2> HIDE DEF f
    <2>4. ErrandOf(f)'
      BY <2>1, <2>2, <1>e DEF ErrandOf, SameTask
    <2> QED
      BY <2>2, <2>3, <2>4, <1>e
  <1>14. CASE PostAnswered
    <2>1. PICK e \in errands : errands' = (errands \ {e}) \cup {[SilentHistory(e.task) EXCEPT !.id = e.id]}
      BY <1>14 DEF PostAnswered
    <2>2. PICK f : f = [SilentHistory(e.task) EXCEPT !.id = e.id]
      OBVIOUS
    <2>3. f \in ErrandType /\ f.kind = "history"
      BY <2>2, <1>e, <1>j
    <2>4. f \in ErrandType /\ ErrandOf(f)'
      BY <2>3, <1>n
    <2> QED
      BY <2>1, <2>2, <2>4, <1>e
  <1>15. CASE DeleteComment
    <2>1. PICK c \in ToSet(thread) : /\ opened \in Task
                                     /\ errands' = errands \cup {[Comments(opened) EXCEPT !.id = c]}
      BY <1>15, <1>t DEF DeleteComment
    <2>2. c \in Nat
      BY <1>t
    <2>3. PICK f : f = [Comments(opened) EXCEPT !.id = c]
      OBVIOUS
    <2>4. f \in ErrandType /\ f.kind = "comments" /\ f.items = <<>>
      BY <2>1, <2>2, <2>3, <1>j
    <2>5. f \in ErrandType /\ ErrandOf(f)'
      BY <2>4, <1>n
    <2> QED
      BY <2>1, <2>3, <2>5, <1>e
  <1>16. CASE OthersStamp \/ OthersWriteComment \/ TypeComment \/ UNCHANGED threadVars
    BY <1>16, <1>e DEF OthersStamp, OthersWriteComment, TypeComment, threadVars
  <1> QED
    BY <1>1, <1>2, <1>3, <1>4, <1>5, <1>6, <1>7, <1>8, <1>9, <1>10, <1>11, <1>12, <1>13,
       <1>14, <1>15, <1>16 DEF ThreadNext

LEMMA ListsStep ==
  ASSUME ThreadTypeOK, RequestInv, [ThreadNext]_threadVars
  PROVE  /\ thread' \in Seq(Nat) /\ NoRepeats(thread')
         /\ ToSet(thread') \cup came' \cup slipped' \subseteq DOMAIN posted'
  <1>t. /\ thread \in Seq(Nat) /\ posted \in Seq(CommentType) /\ errands \subseteq ErrandType
        /\ NoRepeats(thread) /\ ToSet(thread) \cup came \cup slipped \subseteq DOMAIN posted
    BY DEF ThreadTypeOK, RequestInv
  <1>p. DOMAIN posted \subseteq DOMAIN posted'
    BY PostsStep DEF PostsKept
  <1>e. <<>> \in Seq(Nat) /\ NoRepeats(<<>>) /\ ToSet(<<>>) = {}
    BY DEF NoRepeats, ToSet
  <1>1. CASE OthersStamp
    <2>1. PICK t \in Task : /\ posted' = Stamped(t, FALSE)
                            /\ slipped' = IF Between(t) THEN slipped \cup {Len(posted')} ELSE slipped
      BY <1>1 DEF OthersStamp
    <2>2. Len(posted') \in DOMAIN posted'
      BY <2>1, <1>t, StampedIs
    <2>3. UNCHANGED <<thread, came>>
      BY <1>1 DEF OthersStamp, threadLists
    <2> QED
      BY <2>1, <2>2, <2>3, <1>t, <1>p
  <1>2. CASE ServeComments
    <2>1. PICK e \in errands : slipped' = slipped \cup InState(e.task, "stamped")
      BY <1>2 DEF ServeComments
    <2>2. UNCHANGED <<thread, came>> /\ InState(e.task, "stamped") \subseteq DOMAIN posted
      BY <1>2 DEF ServeComments, threadLists, InState
    <2> QED
      BY <2>1, <2>2, <1>t, <1>p
  <1>3. CASE ReceiveComments
    <2>1. PICK e \in errands : /\ e.kind = "comments" /\ e.stage = "listed"
                               /\ thread' = e.items /\ came' = came \cup ToSet(e.items)
      BY <1>3 DEF ReceiveComments
    <2>2. e.items \in Seq(Nat) /\ ToSet(e.items) \subseteq DOMAIN posted /\ NoRepeats(e.items)
      BY <2>1, <1>t DEF ErrandType, RequestInv, ErrandOf
    <2>3. UNCHANGED slipped
      BY <1>3 DEF ReceiveComments
    <2> QED
      BY <2>1, <2>2, <2>3, <1>t, <1>p
  <1>4. CASE PostAnswered
    <2>1. PICK e \in errands : e.kind = "post" /\ e.stage = "written" /\ thread' = WithComment(e.id)
      BY <1>4 DEF PostAnswered
    <2>2. e.id \in Nat /\ e.id \in DOMAIN posted
      BY <2>1, <1>t DEF ErrandType, RequestInv, ErrandOf
    <2> DEFINE s == Without(thread, e.id)
    <2>3. s \in Seq(Nat) /\ NoRepeats(s) /\ ToSet(s) = ToSet(thread) \ {e.id}
      BY <1>t, WithoutIs
    <2>4. thread' = Append(s, e.id)
      BY <2>1 DEF WithComment
    <2> HIDE DEF s
    <2>5. thread' \in Seq(Nat) /\ NoRepeats(thread') /\ ToSet(thread') = ToSet(s) \cup {e.id}
      BY <2>2, <2>3, <2>4, AppendIs
    <2>6. UNCHANGED <<came, slipped>>
      BY <1>4 DEF PostAnswered, judged
    <2> QED
      BY <2>2, <2>3, <2>5, <2>6, <1>t, <1>p
  <1>5. CASE OpenTask \/ CloseTask
    <2>1. thread' = <<>> /\ UNCHANGED <<came, slipped>>
      BY <1>5 DEF OpenTask, CloseTask, judged
    <2> QED
      BY <2>1, <1>e, <1>t, <1>p
  <1>6. CASE \/ OthersWriteComment \/ OthersChange \/ TypeComment \/ MarkRead \/ CommentsFail
             \/ LoadMore \/ ServeHistory \/ ReceiveHistory \/ HistoryFails \/ SubmitComment
             \/ StampPost \/ WritePost \/ PostFails \/ DeleteComment \/ UNCHANGED threadVars
    <2>1. UNCHANGED <<thread, came, slipped>>
      BY <1>6 DEF OthersWriteComment, OthersChange, TypeComment, MarkRead, CommentsFail, LoadMore,
         ServeHistory, ReceiveHistory, HistoryFails, SubmitComment, StampPost, WritePost, PostFails,
         DeleteComment, threadVars, threadLists, judged
    <2> QED
      BY <2>1, <1>t, <1>p
  <1> QED
    BY <1>1, <1>2, <1>3, <1>4, <1>5, <1>6 DEF ThreadNext

\* What the service and the editor keep besides.
RestOK ==
    /\ lastRead \in [Task -> Nat] /\ \A t \in Task : lastRead[t] <= Len(posted)
    /\ happened \in [Task -> Nat] /\ opened \in Task \cup {NoTask}
    /\ {draft, sendingComment, more, paging, torn} \subseteq BOOLEAN
    /\ trail \in Seq(Nat) /\ wrote \subseteq Task /\ changes \in 0 .. MaxChanges

LEMMA RestStep ==
  ASSUME ThreadTypeOK, RequestInv, [ThreadNext]_threadVars
  PROVE  RestOK'
  <1>t. /\ posted \in Seq(CommentType) /\ errands \subseteq ErrandType /\ Len(posted) \in Nat
        /\ lastRead \in [Task -> Nat] /\ \A t \in Task : lastRead[t] <= Len(posted)
        /\ happened \in [Task -> Nat] /\ opened \in Task \cup {NoTask}
        /\ draft \in BOOLEAN /\ sendingComment \in BOOLEAN /\ more \in BOOLEAN /\ paging \in BOOLEAN
        /\ torn \in BOOLEAN
        /\ trail \in Seq(Nat) /\ wrote \subseteq Task /\ changes \in 0 .. MaxChanges
    BY DEF ThreadTypeOK
  <1>m. MaxChanges \in Nat
    BY ThreadAssumption
  <1>p. Len(posted) <= Len(posted') /\ Len(posted') \in Nat
    BY PostsStep, <1>t DEF PostsKept
  <1>e. \A e \in errands : /\ e.task \in Task /\ e.id \in Nat /\ e.items \in Seq(Nat)
                           /\ e.more \in BOOLEAN /\ e.silent \in BOOLEAN /\ e.append \in BOOLEAN
                           /\ e.alone \in BOOLEAN
    BY <1>t DEF ErrandType
  <1>1. lastRead' \in [Task -> Nat] /\ \A t \in Task : lastRead'[t] <= Len(posted')
    <2>k. ASSUME UNCHANGED lastRead
          PROVE  lastRead' \in [Task -> Nat] /\ \A t \in Task : lastRead'[t] <= Len(posted')
      BY <2>k, <1>t, <1>p
    <2>s. ASSUME NEW u \in Task, NEW n \in Nat, n <= Len(posted), lastRead' = [lastRead EXCEPT ![u] = n]
          PROVE  lastRead' \in [Task -> Nat] /\ \A t \in Task : lastRead'[t] <= Len(posted')
      BY <2>s, <1>t, <1>p
    <2>1. CASE MarkRead
      <3>1. PICK e \in errands :
               lastRead' = [lastRead EXCEPT ![e.task] = Len(posted)] \/ UNCHANGED lastRead
        BY <2>1 DEF MarkRead
      <3> QED
        <4>1. e.task \in Task /\ Len(posted) <= Len(posted)
          BY <1>t, <1>e
        <4>2. CASE lastRead' = [lastRead EXCEPT ![e.task] = Len(posted)]
          BY <4>1, <4>2, <2>s, <1>t
        <4> QED
          BY <3>1, <4>2, <2>k
    <2>2. CASE WritePost
      <3>1. PICK e \in errands : /\ e.kind = "post" /\ e.stage = "stamped"
                                 /\ lastRead' = [lastRead EXCEPT ![e.task] = e.id]
        BY <2>2 DEF WritePost
      <3>2. e.id \in DOMAIN posted
        BY <3>1 DEF RequestInv, ErrandOf
      <3>3. e.id <= Len(posted)
        BY <3>2, <1>t
      <3> QED
        BY <3>1, <3>3, <2>s, <1>e
    <2>3. CASE \/ OthersStamp \/ OthersWriteComment \/ OthersChange \/ OpenTask \/ CloseTask
               \/ TypeComment \/ ServeComments \/ ReceiveComments \/ CommentsFail \/ LoadMore
               \/ ServeHistory \/ ReceiveHistory \/ HistoryFails \/ SubmitComment \/ StampPost
               \/ PostAnswered \/ PostFails \/ DeleteComment \/ UNCHANGED threadVars
      BY <2>3, <2>k DEF OthersStamp, OthersWriteComment, OthersChange, OpenTask, CloseTask,
         TypeComment, ServeComments, ReceiveComments, CommentsFail, LoadMore, ServeHistory,
         ReceiveHistory, HistoryFails, SubmitComment, StampPost, PostAnswered, PostFails,
         DeleteComment, threadVars, store
    <2> QED
      BY <2>1, <2>2, <2>3 DEF ThreadNext
  <1>2. happened' \in [Task -> Nat] /\ wrote' \subseteq Task
    <2>1. CASE OthersWriteComment \/ OthersChange
      <3>1. UNCHANGED wrote /\ \E t \in Task : happened' = [happened EXCEPT ![t] = @ + 1]
        BY <2>1 DEF OthersWriteComment, OthersChange, judged
      <3> QED
        BY <3>1, <1>t
    <2>2. CASE WritePost
      <3>1. PICK e \in errands : /\ wrote' = wrote \cup {e.task}
                                 /\ happened' = [happened EXCEPT ![e.task] = @ + 1]
        BY <2>2 DEF WritePost
      <3> QED
        BY <3>1, <1>t, <1>e
    <2>3. CASE DeleteComment
      <3>1. UNCHANGED wrote /\ opened \in Task /\ happened' = [happened EXCEPT ![opened] = @ + 1]
        BY <2>3, <1>t DEF DeleteComment, judged
      <3> QED
        BY <3>1, <1>t
    <2>4. CASE \/ OthersStamp \/ OpenTask \/ CloseTask
               \/ TypeComment \/ ServeComments \/ ReceiveComments \/ MarkRead \/ CommentsFail \/ LoadMore
               \/ ServeHistory \/ ReceiveHistory \/ HistoryFails \/ SubmitComment \/ StampPost
               \/ PostAnswered \/ PostFails \/ UNCHANGED threadVars
      <3>1. UNCHANGED <<happened, wrote>>
        BY <2>4 DEF OthersStamp, OpenTask, CloseTask, TypeComment, ServeComments, ReceiveComments,
           MarkRead, CommentsFail, LoadMore, ServeHistory, ReceiveHistory, HistoryFails,
           SubmitComment, StampPost, PostAnswered, PostFails, threadVars, store, judged
      <3> QED
        BY <3>1, <1>t
    <2> QED
      BY <2>1, <2>2, <2>3, <2>4 DEF ThreadNext
  <1>3. /\ opened' \in Task \cup {NoTask} /\ draft' \in BOOLEAN /\ changes' \in 0 .. MaxChanges
    <2>c. Change => changes' \in 0 .. MaxChanges
      BY <1>t, <1>m DEF Change
    <2>1. CASE OthersStamp \/ OthersChange
      BY <2>1, <2>c, <1>t DEF OthersStamp, OthersChange, editorState
    <2>2. CASE OpenTask
      BY <2>2, <2>c DEF OpenTask
    <2>3. CASE CloseTask
      BY <2>3, <1>t DEF CloseTask
    <2>4. CASE TypeComment \/ PostAnswered
      BY <2>4, <1>t DEF TypeComment, PostAnswered
    <2>5. CASE \/ OthersWriteComment \/ ServeComments \/ ReceiveComments \/ MarkRead \/ CommentsFail
               \/ LoadMore \/ ServeHistory \/ ReceiveHistory \/ HistoryFails \/ SubmitComment
               \/ StampPost \/ WritePost \/ PostFails \/ DeleteComment \/ UNCHANGED threadVars
      <3>1. UNCHANGED <<opened, draft, changes>>
        BY <2>5 DEF OthersWriteComment, ServeComments, ReceiveComments, MarkRead, CommentsFail,
           LoadMore, ServeHistory, ReceiveHistory, HistoryFails, SubmitComment, StampPost, WritePost,
           PostFails, DeleteComment, threadVars, editorState
      <3> QED
        BY <3>1, <1>t
    <2> QED
      BY <2>1, <2>2, <2>3, <2>4, <2>5 DEF ThreadNext
  <1>4. sendingComment' \in BOOLEAN /\ paging' \in BOOLEAN
    <2>1. CASE ReceiveHistory
      <3>1. PICK e \in errands : /\ paging' = (paging /\ e.silent)
                                 /\ sendingComment' = (sendingComment /\ e.id = 0)
        BY <2>1 DEF ReceiveHistory
      <3> QED
        BY <3>1, <1>t, <1>e
    <2>2. CASE HistoryFails
      <3>1. PICK e \in errands : /\ paging' = (paging /\ e.silent)
                                 /\ sendingComment' = (sendingComment /\ e.id = 0)
        BY <2>2 DEF HistoryFails
      <3> QED
        BY <3>1, <1>t, <1>e
    <2>3. CASE OpenTask \/ CloseTask \/ LoadMore \/ SubmitComment \/ PostFails
      BY <2>3, <1>t DEF OpenTask, CloseTask, LoadMore, SubmitComment, PostFails, editorState, threadLists
    <2>4. CASE \/ OthersStamp \/ OthersWriteComment \/ OthersChange \/ TypeComment \/ ServeComments
               \/ ReceiveComments \/ MarkRead \/ CommentsFail \/ ServeHistory \/ StampPost
               \/ WritePost \/ PostAnswered \/ DeleteComment \/ UNCHANGED threadVars
      <3>1. UNCHANGED <<sendingComment, paging>>
        BY <2>4 DEF OthersStamp, OthersWriteComment, OthersChange, TypeComment, ServeComments,
           ReceiveComments, MarkRead, CommentsFail, ServeHistory, StampPost, WritePost,
           PostAnswered, DeleteComment, threadVars, editorState, threadLists
      <3> QED
        BY <3>1, <1>t
    <2> QED
      BY <2>1, <2>2, <2>3, <2>4 DEF ThreadNext
  <1>5. trail' \in Seq(Nat) /\ more' \in BOOLEAN /\ torn' \in BOOLEAN
    <2>1. CASE ReceiveHistory
      <3>1. PICK e \in errands : /\ trail' = IF e.append THEN trail \o e.items ELSE e.items
                                 /\ more' = e.more
                                 /\ torn' = (e.task # opened \/ (e.append /\ (torn \/ ~e.alone)))
        BY <2>1 DEF ReceiveHistory
      <3>2. trail \o e.items \in Seq(Nat)
        BY <1>t, <1>e
      <3> QED
        BY <3>1, <3>2, <1>e
    <2>2. CASE CloseTask
      <3>1. trail' = <<>> /\ more' = FALSE /\ torn' = FALSE
        BY <2>2 DEF CloseTask
      <3>2. trail' \in Seq(Nat)
        BY <3>1
      <3>3. more' \in BOOLEAN /\ torn' \in BOOLEAN
        BY <3>1
      <3> QED
        BY <3>2, <3>3
    <2>3. CASE \/ OthersStamp \/ OthersWriteComment \/ OthersChange \/ OpenTask
               \/ TypeComment \/ ServeComments \/ ReceiveComments \/ MarkRead \/ CommentsFail \/ LoadMore
               \/ ServeHistory \/ HistoryFails \/ SubmitComment \/ StampPost \/ WritePost
               \/ PostAnswered \/ PostFails \/ DeleteComment \/ UNCHANGED threadVars
      <3>1. UNCHANGED <<trail, more, torn>>
        BY <2>3 DEF OthersStamp, OthersWriteComment, OthersChange, OpenTask, TypeComment,
           ServeComments, ReceiveComments, MarkRead, CommentsFail, LoadMore, ServeHistory,
           HistoryFails, SubmitComment, StampPost, WritePost, PostAnswered, PostFails, DeleteComment,
           threadVars, threadLists, judged
      <3> QED
        BY <3>1, <1>t
    <2> QED
      BY <2>1, <2>2, <2>3 DEF ThreadNext
  <1> QED
    BY <1>1, <1>2, <1>3, <1>4, <1>5 DEF RestOK

LEMMA ThreadStarts == ThreadInit => ThreadTypeOK /\ RequestInv
  <1> SUFFICES ASSUME ThreadInit PROVE ThreadTypeOK /\ RequestInv
    OBVIOUS
  <1>1. ToSet(<<>>) = {} /\ NoRepeats(<<>>)
    BY DEF ToSet, NoRepeats
  <1>2. posted \in Seq(CommentType) /\ Len(posted) = 0 /\ thread \in Seq(Nat) /\ trail \in Seq(Nat)
    BY DEF ThreadInit
  <1>3. MaxComments \in Nat /\ MaxChanges \in Nat
    BY ThreadAssumption
  <1>4. /\ lastRead \in [Task -> Nat] /\ happened \in [Task -> Nat] /\ opened \in Task \cup {NoTask}
        /\ \A t \in Task : lastRead[t] <= Len(posted)
    BY <1>2 DEF ThreadInit
  <1>5. changes \in 0 .. MaxChanges
    BY <1>3 DEF ThreadInit
  <1>7. {draft, sendingComment, more, paging, torn} \subseteq BOOLEAN
    <2>1. draft = FALSE /\ sendingComment = FALSE /\ more = FALSE /\ paging = FALSE /\ torn = FALSE
      BY DEF ThreadInit
    <2> QED
      BY <2>1
  <1>6. /\ ToSet(thread) \cup came \cup slipped \subseteq DOMAIN posted /\ wrote \subseteq Task
        /\ errands = {} /\ NoRepeats(thread)
    BY <1>1 DEF ThreadInit
  <1> QED
    BY <1>2, <1>3, <1>4, <1>5, <1>6, <1>7 DEF ThreadTypeOK, RequestInv

LEMMA RequestsStep == ThreadTypeOK /\ RequestInv /\ [ThreadNext]_threadVars => (ThreadTypeOK /\ RequestInv)'
  <1> SUFFICES ASSUME ThreadTypeOK, RequestInv, [ThreadNext]_threadVars
               PROVE  (ThreadTypeOK /\ RequestInv)'
    OBVIOUS
  <1>1. PostsKept /\ RestOK'
    BY PostsStep, RestStep
  <1>2. errands' \subseteq ErrandType /\ (\A e \in errands : ErrandOf(e))'
    BY ErrandsStep
  <1>3. /\ thread' \in Seq(Nat) /\ NoRepeats(thread)'
        /\ ToSet(thread') \cup came' \cup slipped' \subseteq DOMAIN posted'
    BY ListsStep
  <1> QED
    BY <1>1, <1>2, <1>3 DEF ThreadTypeOK, RequestInv, PostsKept, RestOK

\* The types of the thread; its comments, and those of each request, were written, and no
\* comment is shown twice.
THEOREM ThreadTypes == ThreadSpec => [](ThreadTypeOK /\ RequestInv)
  BY ThreadStarts, RequestsStep, PTL DEF ThreadSpec

\* Most steps send requests anew, and carry the others on as they are.
CarriedOn(f) == \E e \in errands : Like(f, e) /\ (f.alone => e.alone)
SentAnew(f) == f.kind = "post" \/ (f.stage = "sent" /\ ~f.append /\ f.offset = 0)

LEMMA ErrandsCome ==
  ASSUME ThreadTypeOK, RequestInv, [ThreadNext]_threadVars
  PROVE  \/ ServeComments \/ ReceiveComments \/ LoadMore \/ ServeHistory
         \/ \A f \in errands' : CarriedOn(f) \/ SentAnew(f)
  <1>t. errands \subseteq ErrandType /\ opened \in Task \cup {NoTask} /\ thread \in Seq(Nat)
    BY DEF ThreadTypeOK
  <1>e. \A e \in errands : e \in ErrandType /\ CarriedOn(e) /\ e.task \in Task /\ e.id \in Nat
    BY <1>t DEF CarriedOn, Like, SameTask, ErrandType
  <1>a. \A es \in SUBSET errands : \A f \in Apart(es) : CarriedOn(f)
    <2> SUFFICES ASSUME NEW es \in SUBSET errands, NEW f \in Apart(es) PROVE CarriedOn(f)
      OBVIOUS
    <2>1. \E e \in es : /\ SameTask(f, e) /\ f.stage = e.stage /\ f.items = e.items
                        /\ f.id = e.id /\ ~f.alone
      BY <1>t, ApartIs
    <2> QED
      BY <2>1 DEF CarriedOn, Like
  <1>i. \A t \in Task : /\ SentAnew(Comments(t)) /\ SentAnew(History(t)) /\ SentAnew(SilentHistory(t))
                        /\ SentAnew(Errand("post", t))
    BY ErrandIs, HistoryIs DEF Comments, SilentHistory, SentAnew
  <1>j. \A t \in Task : \A c \in Nat : /\ SentAnew([Comments(t) EXCEPT !.id = c])
                                       /\ SentAnew([SilentHistory(t) EXCEPT !.id = c])
    <2> SUFFICES ASSUME NEW t \in Task, NEW c \in Nat
                 PROVE  /\ SentAnew([Comments(t) EXCEPT !.id = c])
                        /\ SentAnew([SilentHistory(t) EXCEPT !.id = c])
      OBVIOUS
    <2>1. PICK e : e = Comments(t)
      OBVIOUS
    <2>2. PICK h : h = SilentHistory(t)
      OBVIOUS
    <2>3. /\ e \in ErrandType /\ e.stage = "sent" /\ ~e.append /\ e.offset = 0
          /\ h \in ErrandType /\ h.stage = "sent" /\ ~h.append /\ h.offset = 0
      BY <2>1, <2>2, ErrandIs DEF Comments, SilentHistory
    <2>4. SentAnew([e EXCEPT !.id = c]) /\ SentAnew([h EXCEPT !.id = c])
      BY <2>3, NumberedIs DEF SentAnew, SameTask
    <2> QED
      BY <2>1, <2>2, <2>4
  <1>d. \A e \in errands : \A f \in Ended(e) : SentAnew(f)
    BY <1>e, EndedIs DEF SentAnew
  <1>s. \A e \in errands : e.kind = "post" =>
           /\ SentAnew([e EXCEPT !.stage = "written"])
           /\ \A c \in Nat : SentAnew([[e EXCEPT !.stage = "stamped"] EXCEPT !.id = c])
    <2> SUFFICES ASSUME NEW e \in errands, e.kind = "post", NEW c \in Nat
                 PROVE  /\ SentAnew([e EXCEPT !.stage = "written"])
                        /\ SentAnew([[e EXCEPT !.stage = "stamped"] EXCEPT !.id = c])
      OBVIOUS
    <2>1. [e EXCEPT !.stage = "written"].kind = "post"
      BY <1>e, StagedIs DEF SameTask
    <2>2. PICK g : g = [e EXCEPT !.stage = "stamped"]
      OBVIOUS
    <2>3. g \in ErrandType /\ g.kind = "post"
      BY <2>2, <1>e, StagedIs DEF SameTask
    <2>4. [g EXCEPT !.id = c].kind = "post"
      BY <2>3, NumberedIs DEF SameTask
    <2> QED
      BY <2>1, <2>2, <2>4 DEF SentAnew
  <1>1. CASE OthersChange
    BY <1>1, <1>e, <1>i DEF OthersChange
  <1>2. CASE OpenTask
    <2>1. PICK t \in Task : errands' = Apart(errands) \cup {Comments(t), History(t)}
      BY <1>2 DEF OpenTask
    <2> QED
      BY <2>1, <1>a, <1>i
  <1>3. CASE CloseTask
    BY <1>3, <1>a DEF CloseTask
  <1>6. CASE MarkRead \/ CommentsFail
    <2>1. PICK e \in errands : errands' = (errands \ {e}) \cup Ended(e)
      BY <1>6 DEF MarkRead, CommentsFail, AfterNoList
    <2> QED
      BY <2>1, <1>e, <1>d
  <1>9. CASE ReceiveHistory
    <2>1. PICK e \in errands : errands' = Apart(errands \ {e})
      BY <1>9 DEF ReceiveHistory
    <2> QED
      BY <2>1, <1>a
  <1>10. CASE HistoryFails \/ PostFails
    BY <1>10, <1>e DEF HistoryFails, PostFails
  <1>11. CASE SubmitComment
    <2>1. /\ opened \in Task /\ errands' = errands \cup {Errand("post", opened)}
      BY <1>11, <1>t DEF SubmitComment
    <2> QED
      BY <2>1, <1>e, <1>i
  <1>12. CASE StampPost
    <2>1. PICK e \in errands :
             /\ e.kind = "post"
             /\ errands' = (errands \ {e}) \cup {[[e EXCEPT !.stage = "stamped"] EXCEPT !.id = Len(posted')]}
      BY <1>12 DEF StampPost
    <2>2. Len(posted') \in Nat
      BY PostsStep DEF PostsKept
    <2>3. SentAnew([[e EXCEPT !.stage = "stamped"] EXCEPT !.id = Len(posted')])
      BY <2>1, <2>2, <1>s
    <2> QED
      BY <2>1, <2>3, <1>e
  <1>13. CASE WritePost
    <2>1. PICK e \in errands :
             e.kind = "post" /\ errands' = (errands \ {e}) \cup {[e EXCEPT !.stage = "written"]}
      BY <1>13 DEF WritePost
    <2> QED
      BY <2>1, <1>e, <1>s
  <1>14. CASE PostAnswered
    <2>1. PICK e \in errands : errands' = (errands \ {e}) \cup {[SilentHistory(e.task) EXCEPT !.id = e.id]}
      BY <1>14 DEF PostAnswered
    <2>2. SentAnew([SilentHistory(e.task) EXCEPT !.id = e.id])
      BY <1>e, <1>j
    <2> QED
      BY <2>1, <2>2, <1>e
  <1>15. CASE DeleteComment
    <2>1. PICK c \in ToSet(thread) : /\ opened \in Task
                                     /\ errands' = errands \cup {[Comments(opened) EXCEPT !.id = c]}
      BY <1>15, <1>t DEF DeleteComment
    <2>2. c \in Nat
      BY <1>t DEF ToSet
    <2>3. SentAnew([Comments(opened) EXCEPT !.id = c])
      BY <2>1, <2>2, <1>j
    <2> QED
      BY <2>1, <2>3, <1>e
  <1>16. CASE OthersStamp \/ OthersWriteComment \/ TypeComment \/ UNCHANGED threadVars
    BY <1>16, <1>e DEF OthersStamp, OthersWriteComment, TypeComment, threadVars
  <1> QED
    BY <1>1, <1>2, <1>3, <1>6, <1>9, <1>10, <1>11, <1>12, <1>13, <1>14, <1>15, <1>16 DEF ThreadNext

-----------------------------------------------------------------------------
\* A comment of a colleague is written once; one that is new is past every mark, and has
\* slipped through when a list is on its way.
ForeignKept ==
    /\ \A c \in DOMAIN posted : \A t \in Task : Foreign(c, t)' => Foreign(c, t)
    /\ \A c \in DOMAIN posted' \ DOMAIN posted : \A t \in Task :
          Foreign(c, t)' => c > Len(posted) /\ (Between(t) => c \in slipped')
    /\ came \subseteq came' /\ slipped \subseteq slipped' /\ wrote \subseteq wrote'

LEMMA ForeignStep ==
  ASSUME ThreadTypeOK, RequestInv, [ThreadNext]_threadVars
  PROVE  ForeignKept
  <1>t. /\ posted \in Seq(CommentType) /\ errands \subseteq ErrandType
        /\ opened \in Task \cup {NoTask} /\ ToSet(thread) \subseteq DOMAIN posted
        /\ Len(posted) \in Nat /\ DOMAIN posted = 1 .. Len(posted)
    BY DEF ThreadTypeOK
  <1>g. came \subseteq came' /\ slipped \subseteq slipped' /\ wrote \subseteq wrote'
    <2>1. CASE OthersStamp \/ ServeComments \/ ReceiveComments \/ WritePost
      BY <2>1 DEF OthersStamp, ServeComments, ReceiveComments, WritePost
    <2>2. CASE \/ OthersWriteComment \/ OthersChange \/ OpenTask \/ CloseTask \/ TypeComment
               \/ MarkRead \/ CommentsFail \/ LoadMore \/ ServeHistory \/ ReceiveHistory
               \/ HistoryFails \/ SubmitComment \/ StampPost \/ PostAnswered \/ PostFails
               \/ DeleteComment \/ UNCHANGED threadVars
      BY <2>2 DEF OthersWriteComment, OthersChange, OpenTask, CloseTask, TypeComment, MarkRead,
         CommentsFail, LoadMore, ServeHistory, ReceiveHistory, HistoryFails, SubmitComment,
         StampPost, PostAnswered, PostFails, DeleteComment, threadVars, judged
    <2> QED
      BY <2>1, <2>2 DEF ThreadNext
  <1>k. ASSUME UNCHANGED posted PROVE ForeignKept
    BY <1>k, <1>g DEF ForeignKept, Foreign
  <1>s. ASSUME NEW c \in DOMAIN posted, NEW s \in {"stamped", "there", "gone"},
               posted' = Turned(c, s),
               posted[c].own \/ s = "gone" \/ posted[c].state # "gone"
        PROVE  ForeignKept
    <2>1. /\ DOMAIN posted' = DOMAIN posted /\ posted'[c].state = s
          /\ \A d \in DOMAIN posted : posted'[d].own = posted[d].own /\ posted'[d].task = posted[d].task
          /\ \A d \in DOMAIN posted : d # c => posted'[d] = posted[d]
      BY <1>s, <1>t, TurnedIs
    <2>2. \A d \in DOMAIN posted : \A t \in Task : Foreign(d, t)' => Foreign(d, t)
      BY <2>1, <1>s DEF Foreign
    <2> QED
      BY <2>1, <2>2, <1>g DEF ForeignKept
  <1>p. ASSUME NEW t \in Task, NEW own \in BOOLEAN,
               posted' = Stamped(t, own),
               ~own => (Between(t) => Len(posted') \in slipped')
        PROVE  ForeignKept
    <2>1. /\ DOMAIN posted' = DOMAIN posted \cup {Len(posted) + 1} /\ Len(posted') = Len(posted) + 1
          /\ \A d \in DOMAIN posted : posted'[d] = posted[d]
      BY <1>p, <1>t, StampedIs
    <2>2. posted'[Len(posted')].own = own /\ posted'[Len(posted')].task = t
      <3>1. posted'[Len(posted) + 1].own = own /\ posted'[Len(posted) + 1].task = t
        <4>1. posted'[Len(posted) + 1] = Comment(t, own, "stamped")
          BY <1>p, <1>t, StampedIs
        <4> QED
          BY <4>1 DEF Comment
      <3> QED
        BY <2>1, <3>1
    <2>3. \A d \in DOMAIN posted : \A u \in Task : Foreign(d, u)' => Foreign(d, u)
      BY <2>1 DEF Foreign
    <2>4. \A c \in DOMAIN posted' \ DOMAIN posted : c = Len(posted')
      BY <2>1
    <2>5. ASSUME NEW c \in DOMAIN posted' \ DOMAIN posted, NEW u \in Task, Foreign(c, u)'
          PROVE  c > Len(posted) /\ (Between(u) => c \in slipped')
      <3>1. c = Len(posted') /\ c > Len(posted)
        BY <2>1, <2>4, <1>t
      <3>2. u = t /\ ~own
        BY <2>2, <2>5, <3>1 DEF Foreign
      <3> QED
        BY <3>1, <3>2, <1>p
    <2> QED
      BY <2>3, <2>5, <1>g DEF ForeignKept
  <1>1. CASE OthersStamp
    <2>1. PICK t \in Task : /\ posted' = Stamped(t, FALSE)
                            /\ slipped' = IF Between(t) THEN slipped \cup {Len(posted')} ELSE slipped
      BY <1>1 DEF OthersStamp
    <2> QED
      BY <2>1, <1>p
  <1>2. CASE OthersWriteComment
    <2>1. PICK t \in Task : \E c \in InState(t, "stamped") : posted' = Turned(c, "there")
      BY <1>2 DEF OthersWriteComment
    <2>2. PICK c \in InState(t, "stamped") : posted' = Turned(c, "there")
      BY <2>1
    <2>3. c \in DOMAIN posted /\ posted[c].state = "stamped"
      BY DEF InState
    <2> QED
      BY <2>2, <2>3, <1>s
  <1>3. CASE StampPost
    <2>1. PICK e \in errands : posted' = Stamped(e.task, TRUE)
      BY <1>3 DEF StampPost
    <2>2. e.task \in Task
      BY <1>t DEF ErrandType
    <2> QED
      BY <2>1, <2>2, <1>p
  <1>4. CASE WritePost
    <2>1. PICK e \in errands : /\ e.kind = "post" /\ e.stage = "stamped"
                               /\ posted' = Turned(e.id, "there")
      BY <1>4 DEF WritePost
    <2>2. e.id \in DOMAIN posted /\ posted[e.id].own
      BY <2>1 DEF RequestInv, ErrandOf
    <2> QED
      BY <2>1, <2>2, <1>s
  <1>5. CASE PostFails
    <2>1. PICK e \in errands : /\ e.kind = "post"
                               /\ posted' = IF e.stage = "stamped" THEN Turned(e.id, "gone") ELSE posted
      BY <1>5 DEF PostFails
    <2>2. CASE e.stage = "stamped"
      <3>1. e.id \in DOMAIN posted
        BY <2>1, <2>2 DEF RequestInv, ErrandOf
      <3> QED
        BY <2>1, <2>2, <3>1, <1>s
    <2>3. CASE e.stage # "stamped"
      BY <2>1, <2>3, <1>k
    <2> QED
      BY <2>2, <2>3
  <1>6. CASE DeleteComment
    <2>1. PICK c \in ToSet(thread) : posted' = Turned(c, "gone")
      BY <1>6 DEF DeleteComment
    <2> QED
      BY <2>1, <1>s, <1>t
  <1>7. CASE \/ OthersChange \/ OpenTask \/ CloseTask \/ TypeComment \/ ServeComments
             \/ ReceiveComments \/ MarkRead \/ CommentsFail \/ LoadMore \/ ServeHistory
             \/ ReceiveHistory \/ HistoryFails \/ SubmitComment \/ PostAnswered
             \/ UNCHANGED threadVars
    BY <1>7, <1>k DEF OthersChange, OpenTask, CloseTask, TypeComment, ServeComments,
       ReceiveComments, MarkRead, CommentsFail, LoadMore, ServeHistory, ReceiveHistory,
       HistoryFails, SubmitComment, PostAnswered, threadVars, store
  <1> QED
    BY <1>1, <1>2, <1>3, <1>4, <1>5, <1>6, <1>7 DEF ThreadNext

LEMMA ListsKept ==
  ASSUME ThreadTypeOK, RequestInv, ReadInv, [ThreadNext]_threadVars, (ThreadTypeOK /\ RequestInv)'
  PROVE  \A e \in errands' : ListOf(e)'
  <1>t. /\ errands \subseteq ErrandType /\ errands' \subseteq ErrandType
        /\ posted \in Seq(CommentType)
    BY DEF ThreadTypeOK
  <1>f. ForeignKept
    BY ForeignStep
  <1>c. ASSUME NEW f \in errands', NEW e \in errands, Like(f, e)
        PROVE  ListOf(f)'
    <2> SUFFICES ASSUME f.kind = "comments", NEW c \in DOMAIN posted', Foreign(c, f.task)'
                 PROVE  /\ f.stage = "listed" => c \in ToSet(f.items) \cup came' \cup slipped'
                        /\ f.stage = "marking" => c \in came' \cup slipped'
      BY DEF ListOf
    <2>1. /\ e.kind = "comments" /\ e.task = f.task /\ e.stage = f.stage /\ e.items = f.items
          /\ e.task \in Task
      BY <1>c, <1>t DEF Like, SameTask, ErrandType
    <2>2. CASE c \in DOMAIN posted
      <3>1. Foreign(c, e.task)
        BY <2>1, <2>2, <1>f DEF ForeignKept
      <3>2. ListOf(e)
        BY DEF ReadInv
      <3> QED
        BY <2>1, <2>2, <3>1, <3>2, <1>f DEF ListOf, ForeignKept
    <2>3. CASE c \notin DOMAIN posted
      <3>1. Between(e.task) => c \in slipped'
        BY <2>1, <2>3, <1>f DEF ForeignKept
      <3>2. f.stage \in {"listed", "marking"} => Between(e.task)
        BY <2>1 DEF Between
      <3> QED
        BY <3>1, <3>2
    <2> QED
      BY <2>2, <2>3
  <1>e. ASSUME NEW f \in errands', f \in errands PROVE ListOf(f)'
    BY <1>e, <1>c DEF Like, SameTask
  <1>n. ASSUME NEW f \in errands', f.stage = "sent" \/ f.kind # "comments" PROVE ListOf(f)'
    BY <1>n DEF ListOf
  <1>1. CASE ServeComments
    <2>1. PICK e \in errands : /\ e.kind = "comments" /\ UNCHANGED <<posted, came>>
                               /\ errands' = (errands \ {e}) \cup {AsListed(e, ThreadOf(e.task))}
                               /\ slipped' = slipped \cup InState(e.task, "stamped")
      BY <1>1 DEF ServeComments, store
    <2>2. e \in ErrandType /\ e.task \in Task
      BY <1>t DEF ErrandType
    <2>3. PICK f : f = AsListed(e, ThreadOf(e.task))
      OBVIOUS
    <2>4. ThreadOf(e.task) \in Seq(Nat) /\ ToSet(ThreadOf(e.task)) = InState(e.task, "there")
      BY <2>2, ThreadOfIs
    <2>5. f.stage = "listed" /\ f.items = ThreadOf(e.task) /\ f.task = e.task
      BY <2>2, <2>3, <2>4, AsListedIs DEF SameTask
    <2>6. \A c \in DOMAIN posted : posted[c].state \in {"stamped", "there", "gone"}
      <3>1. \A c \in DOMAIN posted : posted[c] \in CommentType
        BY <1>t
      <3> QED
        BY <3>1 DEF CommentType
    <2>7. ASSUME NEW c \in DOMAIN posted', Foreign(c, f.task)'
          PROVE  c \in ToSet(f.items) \cup slipped'
      <3>1. c \in DOMAIN posted /\ posted[c].task = e.task /\ posted[c].state # "gone"
        BY <2>1, <2>5, <2>7 DEF Foreign
      <3>2. c \in InState(e.task, "there") \/ c \in InState(e.task, "stamped")
        BY <3>1, <2>6 DEF InState
      <3> QED
        BY <3>2, <2>1, <2>4, <2>5
    <2>8. ListOf(f)'
      BY <2>5, <2>7 DEF ListOf
    <2>9. \A g \in errands' : g \in errands \/ g = f
      BY <2>1, <2>3
    <2> QED
      BY <2>8, <2>9, <1>e
  <1>2. CASE ReceiveComments
    <2>1. PICK e \in errands : /\ e.kind = "comments" /\ e.stage = "listed" /\ UNCHANGED <<posted, slipped>>
                               /\ errands' = (errands \ {e}) \cup {Marking(e)}
                               /\ came' = came \cup ToSet(e.items)
      BY <1>2 DEF ReceiveComments, store
    <2>2. PICK f : f = Marking(e)
      OBVIOUS
    <2>3. f.task = e.task /\ f.stage = "marking" /\ e.task \in Task
      BY <2>2, <1>t, MarkingIs DEF ErrandType
    <2>4. ASSUME NEW c \in DOMAIN posted', Foreign(c, f.task)'
          PROVE  c \in came' \cup slipped'
      <3>1. c \in DOMAIN posted /\ Foreign(c, e.task)
        BY <2>1, <2>3, <2>4 DEF Foreign
      <3>2. c \in ToSet(e.items) \cup came \cup slipped
        BY <2>1, <3>1 DEF ReadInv, ListOf
      <3> QED
        BY <2>1, <3>2
    <2>5. ListOf(f)'
      BY <2>3, <2>4 DEF ListOf
    <2>6. \A g \in errands' : g \in errands \/ g = f
      BY <2>1, <2>2
    <2> QED
      BY <2>5, <2>6, <1>e
  <1>3. CASE LoadMore
    <2>1. PICK f : f = Page(opened, NextOffset)
      OBVIOUS
    <2>2. opened \in Task /\ NextOffset \in Nat
      BY <1>3 DEF LoadMore, NextOffset, ThreadTypeOK
    <2>3. f.kind = "history" /\ errands' = errands \cup {f}
      BY <1>3, <2>1, <2>2, PageIs DEF LoadMore
    <2> QED
      BY <2>3, <1>e, <1>n
  <1>4. CASE ServeHistory
    <2>1. PICK e \in errands : \E items, b :
             /\ e.kind = "history"
             /\ errands' = (errands \ {e}) \cup {[AsListed(e, items) EXCEPT !.more = b]}
      BY <1>4 DEF ServeHistory
    <2>2. PICK items, b : errands' = (errands \ {e}) \cup {[AsListed(e, items) EXCEPT !.more = b]}
      BY <2>1
    <2>3. PICK f : f = [AsListed(e, items) EXCEPT !.more = b]
      OBVIOUS
    <2>4. e \in ErrandType
      BY <1>t
    <2>5. f.kind = e.kind
      BY <2>3, <2>4 DEF AsListed, ErrandType
    <2> QED
      BY <2>1, <2>2, <2>3, <2>5, <1>e, <1>n
  <1>5. CASE \A f \in errands' : CarriedOn(f) \/ SentAnew(f)
    <2> SUFFICES ASSUME NEW f \in errands' PROVE ListOf(f)'
      OBVIOUS
    <2>1. CASE CarriedOn(f)
      BY <2>1, <1>c DEF CarriedOn
    <2>2. CASE SentAnew(f)
      BY <2>2, <1>n DEF SentAnew
    <2> QED
      BY <1>5, <2>1, <2>2
  <1> QED
    BY <1>1, <1>2, <1>3, <1>4, <1>5, ErrandsCome

LEMMA UnreadKept ==
  ASSUME ThreadTypeOK, RequestInv, ReadInv, [ThreadNext]_threadVars, (ThreadTypeOK /\ RequestInv)'
  PROVE  \A t \in Task : UnreadOf(t)'
  <1>t. /\ errands \subseteq ErrandType /\ lastRead \in [Task -> Nat] /\ Len(posted) \in Nat
        /\ \A t \in Task : lastRead[t] <= Len(posted)
        /\ \A c \in DOMAIN posted : c \in Nat
        /\ \A c \in DOMAIN posted' : c \in Nat
    <2>1. posted \in Seq(CommentType) /\ posted' \in Seq(CommentType)
      BY DEF ThreadTypeOK
    <2>2. /\ Len(posted) \in Nat
          /\ \A c \in DOMAIN posted : c \in Nat
          /\ \A c \in DOMAIN posted' : c \in Nat
      BY <2>1
    <2> QED
      BY <2>2 DEF ThreadTypeOK
  <1>f. ForeignKept
    BY ForeignStep
  <1>k. ASSUME NEW t \in Task, t \in wrote' \/ lastRead'[t] = lastRead[t] PROVE UnreadOf(t)'
    <2> SUFFICES ASSUME t \notin wrote', NEW c \in DOMAIN posted', Foreign(c, t)'
                 PROVE  c > lastRead'[t] \/ c \in came' \cup slipped'
      BY DEF UnreadOf
    <2>1. CASE c \in DOMAIN posted
      <3>1. Foreign(c, t) /\ t \notin wrote
        BY <2>1, <1>f DEF ForeignKept
      <3>2. c > lastRead[t] \/ c \in came \cup slipped
        BY <2>1, <3>1 DEF ReadInv, UnreadOf
      <3> QED
        BY <3>2, <1>k, <1>f DEF ForeignKept
    <2>2. CASE c \notin DOMAIN posted
      <3>1. c > Len(posted)
        BY <2>2, <1>f DEF ForeignKept
      <3>2. lastRead[t] <= Len(posted) /\ lastRead[t] \in Nat /\ c \in Nat
        BY <1>t
      <3> QED
        BY <3>1, <3>2, <1>t, <1>k
    <2> QED
      BY <2>1, <2>2
  <1>1. CASE MarkRead
    <2>1. PICK e \in errands : /\ e.kind = "comments" /\ e.stage = "marking" /\ UNCHANGED <<posted, came, slipped>>
                               /\ lastRead' = [lastRead EXCEPT ![e.task] = Len(posted)] \/ UNCHANGED lastRead
      BY <1>1 DEF MarkRead, judged
    <2>2. ASSUME NEW t \in Task PROVE UnreadOf(t)'
      <3>1. CASE t = e.task
        <4>1. \A c \in DOMAIN posted : Foreign(c, t) => c \in came \cup slipped
          BY <2>1, <3>1 DEF ReadInv, ListOf
        <4>2. \A c \in DOMAIN posted' : Foreign(c, t)' => c \in DOMAIN posted /\ Foreign(c, t)
          BY <2>1 DEF Foreign
        <4> QED
          BY <2>1, <4>1, <4>2 DEF UnreadOf
      <3>2. CASE t # e.task
        <4>1. lastRead'[t] = lastRead[t]
          BY <2>1, <3>2, <1>t
        <4> QED
          BY <4>1, <1>k
      <3> QED
        BY <3>1, <3>2
    <2> QED
      BY <2>2
  <1>2. CASE WritePost
    <2>1. PICK e \in errands : /\ lastRead' = [lastRead EXCEPT ![e.task] = e.id]
                               /\ wrote' = wrote \cup {e.task}
      BY <1>2 DEF WritePost
    <2>2. \A t \in Task : t \in wrote' \/ lastRead'[t] = lastRead[t]
      BY <2>1, <1>t
    <2> QED
      BY <2>2, <1>k
  <1>3. CASE \/ OthersStamp \/ OthersWriteComment \/ OthersChange \/ OpenTask \/ CloseTask
             \/ TypeComment \/ ServeComments \/ ReceiveComments \/ CommentsFail \/ LoadMore
             \/ ServeHistory \/ ReceiveHistory \/ HistoryFails \/ SubmitComment \/ StampPost
             \/ PostAnswered \/ PostFails \/ DeleteComment \/ UNCHANGED threadVars
    <2>1. UNCHANGED lastRead
      BY <1>3 DEF OthersStamp, OthersWriteComment, OthersChange, OpenTask, CloseTask,
         TypeComment, ServeComments, ReceiveComments, CommentsFail, LoadMore, ServeHistory,
         ReceiveHistory, HistoryFails, SubmitComment, StampPost, PostAnswered, PostFails,
         DeleteComment, threadVars, store
    <2> QED
      BY <2>1, <1>k
  <1> QED
    BY <1>1, <1>2, <1>3 DEF ThreadNext

LEMMA ReadStep ==
  ReadInv /\ (ThreadTypeOK /\ RequestInv) /\ (ThreadTypeOK /\ RequestInv)' /\ [ThreadNext]_threadVars
     => ReadInv'
  BY ListsKept, UnreadKept DEF ReadInv

LEMMA ReadStarts == ThreadInit => ReadInv
  <1> SUFFICES ASSUME ThreadInit PROVE ReadInv
    OBVIOUS
  <1>1. DOMAIN posted = {} /\ errands = {}
    BY DEF ThreadInit
  <1> QED
    BY <1>1 DEF ReadInv, UnreadOf

LEMMA ReadHolds == ThreadSpec => []ReadInv
  BY ReadStarts, ReadStep, ThreadTypes, PTL DEF ThreadSpec

\* What a colleague wrote counts as unread until it came to the page, unless it slipped
\* between a list and its mark or the user wrote to the thread.
THEOREM CommentsAreNotMissed == ThreadSpec => []UnreadOrCame
  <1>1. ReadInv => UnreadOrCame
    BY DEF ReadInv, UnreadOf, UnreadOrCame, InState, Foreign
  <1> QED
    BY <1>1, ReadHolds, PTL

\* A page behind a list.
LEMMA JoinIs ==
  ASSUME NEW s \in Seq(Nat), NEW u \in Seq(Nat), NoGaps(s), NoGaps(u),
         s # <<>> /\ u # <<>> => s[Len(s)] <= u[1] + 1
  PROVE  /\ NoGaps(s \o u) /\ Len(s \o u) = Len(s) + Len(u)
         /\ u # <<>> => (s \o u)[Len(s \o u)] = u[Len(u)]
         /\ u = <<>> => s \o u = s
  <1> DEFINE r == s \o u
             m == Len(s)
             n == Len(u)
  <1>1. /\ m \in Nat /\ n \in Nat /\ Len(r) = m + n
        /\ \A i \in 1 .. m : r[i] = s[i] /\ s[i] \in Nat
        /\ \A i \in 1 .. n : r[m + i] = u[i] /\ u[i] \in Nat
    OBVIOUS
  <1>2. (u # <<>> <=> n > 0) /\ (s # <<>> <=> m > 0) /\ (u = <<>> => r = s)
    OBVIOUS
  <1>3. /\ \A i \in 1 .. m - 1 : s[i] <= s[i + 1] + 1
        /\ \A i \in 1 .. n - 1 : u[i] <= u[i + 1] + 1
    BY DEF NoGaps
  <1>j. s # <<>> /\ u # <<>> => s[m] <= u[1] + 1
    OBVIOUS
  <1> HIDE DEF r, m, n
  <1>4. NoGaps(r)
    <2> SUFFICES ASSUME NEW i \in 1 .. m + n - 1 PROVE r[i] <= r[i + 1] + 1
      BY <1>1 DEF NoGaps
    <2>1. CASE i < m
      <3>1. i \in 1 .. m - 1 /\ i \in 1 .. m /\ i + 1 \in 1 .. m
        BY <2>1, <1>1
      <3> QED
        BY <3>1, <1>1, <1>3
    <2>2. CASE i = m
      <3>1. m > 0 /\ n > 0 /\ m \in 1 .. m /\ 1 \in 1 .. n
        BY <2>2, <1>1
      <3>2. r[m] = s[m] /\ r[m + 1] = u[1]
        BY <3>1, <1>1
      <3> QED
        BY <3>1, <3>2, <2>2, <1>2, <1>j
    <2>3. CASE i > m
      <3>1. PICK k \in 1 .. n - 1 : i = m + k
        <4>1. i - m \in 1 .. n - 1 /\ i = m + (i - m)
          BY <2>3, <1>1
        <4> QED
          BY <4>1
      <3>2. k \in 1 .. n /\ k + 1 \in 1 .. n /\ i + 1 = m + (k + 1)
        BY <3>1, <1>1
      <3>3. r[i] = u[k] /\ r[i + 1] = u[k + 1]
        BY <3>1, <3>2, <1>1
      <3> QED
        BY <3>1, <3>3, <1>3
    <2> QED
      BY <2>1, <2>2, <2>3, <1>1
  <1>5. n > 0 => r[m + n] = u[n]
    <2>1. n > 0 => n \in 1 .. n
      BY <1>1
    <2> QED
      BY <2>1, <1>1
  <1> QED
    BY <1>1, <1>2, <1>4, <1>5 DEF r, m, n

\* A history only grows.
LEMMA HappenedGrows ==
  ASSUME ThreadTypeOK, RequestInv, [ThreadNext]_threadVars
  PROVE  \A t \in Task : happened[t] \in Nat /\ happened'[t] \in Nat /\ happened[t] <= happened'[t]
  <1>t. happened \in [Task -> Nat] /\ opened \in Task \cup {NoTask} /\ errands \subseteq ErrandType
    BY DEF ThreadTypeOK
  <1>s. ASSUME NEW u \in Task, happened' = [happened EXCEPT ![u] = @ + 1]
        PROVE  \A t \in Task : happened[t] \in Nat /\ happened'[t] \in Nat /\ happened[t] <= happened'[t]
    BY <1>s, <1>t
  <1>1. CASE OthersWriteComment \/ OthersChange \/ DeleteComment
    <2>1. \E u \in Task : happened' = [happened EXCEPT ![u] = @ + 1]
      BY <1>1, <1>t DEF OthersWriteComment, OthersChange, DeleteComment
    <2> QED
      BY <2>1, <1>s
  <1>2. CASE WritePost
    <2>1. PICK e \in errands : happened' = [happened EXCEPT ![e.task] = @ + 1]
      BY <1>2 DEF WritePost
    <2>2. e.task \in Task
      BY <1>t DEF ErrandType
    <2> QED
      BY <2>1, <2>2, <1>s
  <1>3. CASE \/ OthersStamp \/ OpenTask \/ CloseTask \/ TypeComment \/ ServeComments
             \/ ReceiveComments \/ MarkRead \/ CommentsFail \/ LoadMore \/ ServeHistory
             \/ ReceiveHistory \/ HistoryFails \/ SubmitComment \/ StampPost \/ PostAnswered
             \/ PostFails \/ UNCHANGED threadVars
    <2>1. UNCHANGED happened
      BY <1>3 DEF OthersStamp, OpenTask, CloseTask, TypeComment, ServeComments, ReceiveComments,
         MarkRead, CommentsFail, LoadMore, ServeHistory, ReceiveHistory, HistoryFails,
         SubmitComment, StampPost, PostAnswered, PostFails, threadVars, store
    <2> QED
      BY <2>1, <1>t
  <1> QED
    BY <1>1, <1>2, <1>3 DEF ThreadNext

\* What PageOf says of a page that has been served.
ListedPage(e) ==
    e.stage = "listed" => NoGaps(e.items) /\ Within(e.items, e.offset, e.task)

\* What is below a bound stays below it.
LEMMA WithinKept ==
  ASSUME ThreadTypeOK, RequestInv, [ThreadNext]_threadVars,
         NEW s \in Seq(Nat), NEW n \in Nat, NEW t \in Task, Within(s, n, t)
  PROVE  Within(s, n, t)'
  <1>1. happened[t] \in Nat /\ happened'[t] \in Nat /\ happened[t] <= happened'[t]
    BY HappenedGrows
  <1>2. s # <<>> => s[Len(s)] \in Nat /\ Len(s) \in Nat
    OBVIOUS
  <1> QED
    BY <1>1, <1>2 DEF Within

LEMMA TrailStep ==
  TrailInv /\ (ThreadTypeOK /\ RequestInv) /\ (ThreadTypeOK /\ RequestInv)' /\ [ThreadNext]_threadVars
     => TrailInv'
  <1> SUFFICES ASSUME TrailInv, ThreadTypeOK, RequestInv, (ThreadTypeOK /\ RequestInv)',
                      [ThreadNext]_threadVars
               PROVE  TrailInv'
    OBVIOUS
  <1>t. /\ errands \subseteq ErrandType /\ errands' \subseteq ErrandType
        /\ trail \in Seq(Nat) /\ trail' \in Seq(Nat) /\ happened \in [Task -> Nat]
        /\ opened \in Task \cup {NoTask} /\ torn \in BOOLEAN /\ NoTask \notin Task
    BY ThreadAssumption DEF ThreadTypeOK
  <1>e. \A e \in errands : /\ e.task \in Task /\ e.items \in Seq(Nat) /\ e.offset \in Nat
                           /\ e.append \in BOOLEAN /\ e.alone \in BOOLEAN
    BY <1>t DEF ErrandType
  <1>l. \A e \in errands : e.kind = "history" => ListedPage(e)' /\ (~e.append => e.offset = 0)
    <2> SUFFICES ASSUME NEW e \in errands, e.kind = "history"
                 PROVE  ListedPage(e)' /\ (~e.append => e.offset = 0)
      OBVIOUS
    <2>1. ListedPage(e) /\ (~e.append => e.offset = 0)
      BY DEF TrailInv, PageOf, ListedPage
    <2>2. e.stage = "listed" => Within(e.items, e.offset, e.task)'
      BY <2>1, <1>e, WithinKept DEF ListedPage
    <2>3. NoGaps(e.items) => NoGaps(e.items)'
      BY DEF NoGaps
    <2> QED
      BY <2>1, <2>2, <2>3 DEF ListedPage
  <1>n. ASSUME NEW f \in errands', SentAnew(f) PROVE PageOf(f)'
    BY <1>n DEF SentAnew, PageOf
  <1>a. ASSUME NEW f \in errands', ~f.alone, CarriedOn(f) PROVE PageOf(f)'
    <2>1. PICK e \in errands : Like(f, e)
      BY <1>a DEF CarriedOn
    <2> QED
      BY <2>1, <1>a, <1>l DEF Like, SameTask, PageOf, ListedPage
  <1>k. ASSUME UNCHANGED <<trail, torn, opened>>
        PROVE  /\ \A f \in errands' : CarriedOn(f) => PageOf(f)'
               /\ (~torn => NoGaps(trail) /\ (trail # <<>> => opened \in Task) /\ Within(trail, 0, opened))'
    <2>1. ASSUME NEW f \in errands', CarriedOn(f) PROVE PageOf(f)'
      <3>1. PICK e \in errands : Like(f, e) /\ (f.alone => e.alone)
        BY <2>1 DEF CarriedOn
      <3>2. PageOf(e)
        BY DEF TrailInv
      <3> QED
        BY <3>1, <3>2, <1>k, <1>l DEF Like, SameTask, PageOf, ListedPage
    <2>2. CASE torn
      BY <2>1, <2>2, <1>k
    <2>3. CASE ~torn
      <3>1. NoGaps(trail) /\ (trail # <<>> => opened \in Task) /\ Within(trail, 0, opened)
        BY <2>3 DEF TrailInv
      <3>2. NoGaps(trail)' /\ (trail # <<>> => opened \in Task)'
        BY <3>1, <1>k DEF NoGaps
      <3>3. CASE trail = <<>>
        BY <2>1, <3>2, <3>3, <1>k DEF Within
      <3>4. CASE trail # <<>>
        <4>1. \A s \in Seq(Nat) : \A t \in Task : Within(s, 0, t) => Within(s, 0, t)'
          BY WithinKept
        <4>2. trail' = trail /\ opened' = opened
          BY <1>k
        <4>3. Within(trail, 0, opened)'
          BY <3>1, <3>4, <4>1, <4>2, <1>t DEF Within
        <4> QED
          BY <2>1, <3>2, <4>3
      <3> QED
        BY <3>3, <3>4
    <2> QED
      BY <2>2, <2>3
  <1>c. \A f \in errands : CarriedOn(f)
    BY DEF CarriedOn, Like, SameTask
  <1>1. CASE ServeHistory
    <2>1. PICK e \in errands :
             LET n == happened[e.task]
                 items == IF e.offset < n THEN Entries(n, e.offset) ELSE <<>> IN
             /\ e.kind = "history"
             /\ errands' = (errands \ {e}) \cup {[AsListed(e, items) EXCEPT !.more = n > e.offset + PageSize]}
      BY <1>1 DEF ServeHistory
    <2>2. UNCHANGED <<trail, torn, opened, happened>>
      BY <1>1 DEF ServeHistory, threadLists, judged, editorState, store
    <2>3. PICK n : n = happened[e.task]
      OBVIOUS
    <2>4. PICK items : items = IF e.offset < n THEN Entries(n, e.offset) ELSE <<>>
      OBVIOUS
    <2>5. PICK g : g = AsListed(e, items)
      OBVIOUS
    <2>6. PICK b : b = (n > e.offset + PageSize)
      OBVIOUS
    <2>7. PICK f : f = [g EXCEPT !.more = b]
      OBVIOUS
    <2>8. n \in Nat /\ e.offset \in Nat /\ e \in ErrandType
      BY <2>3, <1>e, <1>t
    <2>9. CASE e.offset < n
      <3>1. /\ items \in Seq(Nat) /\ items # <<>> /\ Len(items) \in 1 .. n - e.offset
            /\ \A i \in 1 .. Len(items) : items[i] = n - e.offset - i + 1
        BY <2>4, <2>8, <2>9, EntriesAre
      <3>2. g \in ErrandType /\ SameTask(g, e) /\ g.stage = "listed" /\ g.items = items /\ g.alone = e.alone
        BY <2>5, <2>8, <3>1, AsListedIs
      <3>3. SameTask(f, e) /\ f.stage = "listed" /\ f.items = items /\ f.alone = e.alone
        BY <2>6, <2>7, <3>2, MoreIs DEF SameTask
      <3>4. NoGaps(items)
        <4> SUFFICES ASSUME NEW i \in 1 .. Len(items) - 1 PROVE items[i] <= items[i + 1] + 1
          BY DEF NoGaps
        <4>1. Len(items) \in Nat /\ i \in 1 .. Len(items) /\ i + 1 \in 1 .. Len(items)
          BY <3>1
        <4>2. items[i] = n - e.offset - i + 1 /\ items[i + 1] = n - e.offset - (i + 1) + 1
          BY <3>1, <4>1
        <4> QED
          BY <4>1, <4>2, <2>8
      <3>5. items[Len(items)] + Len(items) + e.offset <= n + 1
        <4>1. Len(items) \in Nat /\ Len(items) \in 1 .. Len(items)
          BY <3>1
        <4>2. items[Len(items)] = n - e.offset - Len(items) + 1
          BY <3>1, <4>1
        <4> QED
          BY <4>1, <4>2, <2>8
      <3>6. ASSUME e.append, e.alone, ~torn, trail # <<>>
            PROVE  trail[Len(trail)] <= items[1] + 1
        <4>1. /\ e.task = opened /\ e.offset = Len(trail)
          BY <3>6, <2>1 DEF TrailInv, PageOf
        <4>2. trail[Len(trail)] + Len(trail) + 0 <= n + 1
          BY <3>6, <4>1, <2>3 DEF TrailInv, Within
        <4>3. 1 \in 1 .. Len(items) /\ Len(items) \in Nat
          BY <3>1
        <4>4. items[1] = n - e.offset - 1 + 1
          BY <3>1, <4>3
        <4>5. trail[Len(trail)] \in Nat /\ Len(trail) \in Nat
          BY <3>6, <1>t
        <4> QED
          BY <4>1, <4>2, <4>4, <4>5, <2>8
      <3>7. PageOf(f)'
        <4>1. (NoGaps(items) /\ Within(items, e.offset, e.task))'
          BY <3>4, <3>5, <2>2, <2>3 DEF NoGaps, Within
        <4>2. ~e.append => e.offset = 0
          BY <2>1, <1>l
        <4>3. e.append /\ e.alone => e.task = opened' /\ e.offset = Len(trail')
          BY <2>1, <2>2 DEF TrailInv, PageOf
        <4>4. e.append /\ e.alone /\ ~torn' /\ trail' # <<>> => trail'[Len(trail')] <= items[1] + 1
          BY <3>6, <2>2
        <4> QED
          BY <3>3, <4>1, <4>2, <4>3, <4>4 DEF PageOf, SameTask
      <3>8. errands' = (errands \ {e}) \cup {f}
        BY <2>1, <2>3, <2>4, <2>5, <2>6, <2>7
      <3> QED
        BY <3>7, <3>8, <2>2, <1>k, <1>c DEF TrailInv
    <2>10. CASE ~(e.offset < n)
      <3>1. items = <<>> /\ items \in Seq(Nat)
        BY <2>4, <2>10
      <3>2. g \in ErrandType /\ SameTask(g, e) /\ g.stage = "listed" /\ g.items = items /\ g.alone = e.alone
        BY <2>5, <2>8, <3>1, AsListedIs
      <3>3. SameTask(f, e) /\ f.stage = "listed" /\ f.items = items /\ f.alone = e.alone
        BY <2>6, <2>7, <3>2, MoreIs DEF SameTask
      <3>4. (NoGaps(items) /\ Within(items, e.offset, e.task))'
        <4>1. Len(items) = 0
          BY <3>1
        <4> QED
          BY <3>1, <4>1 DEF NoGaps, Within
      <3>5. ~e.append => e.offset = 0
        BY <2>1, <1>l
      <3>6. e.append /\ e.alone => e.task = opened' /\ e.offset = Len(trail')
        BY <2>1, <2>2 DEF TrailInv, PageOf
      <3>7. PageOf(f)'
        BY <3>1, <3>3, <3>4, <3>5, <3>6 DEF PageOf, SameTask
      <3>8. errands' = (errands \ {e}) \cup {f}
        BY <2>1, <2>3, <2>4, <2>5, <2>6, <2>7
      <3> QED
        BY <3>7, <3>8, <2>2, <1>k, <1>c DEF TrailInv
    <2> QED
      BY <2>9, <2>10
  <1>2. CASE LoadMore
    <2>1. PICK f : f = Page(opened, NextOffset)
      OBVIOUS
    <2>2. opened \in Task /\ NextOffset \in Nat /\ NextOffset = Len(trail)
      BY <1>2, <1>t DEF LoadMore, NextOffset
    <2>3. /\ f.kind = "history" /\ f.task = opened /\ f.stage = "sent" /\ f.append
          /\ f.offset = Len(trail)
      BY <2>1, <2>2, PageIs
    <2>4. errands' = errands \cup {f} /\ UNCHANGED <<trail, torn, opened>>
      BY <1>2, <2>1 DEF LoadMore, judged, editorState
    <2>5. PageOf(f)'
      BY <2>3, <2>4 DEF PageOf
    <2> QED
      BY <2>4, <2>5, <1>k, <1>c DEF TrailInv
  <1>3. CASE ReceiveHistory
    <2>1. PICK e \in errands :
             /\ e.kind = "history" /\ e.stage = "listed"
             /\ trail' = IF e.append THEN trail \o e.items ELSE e.items
             /\ torn' = (e.task # opened \/ (e.append /\ (torn \/ ~e.alone)))
             /\ errands' = Apart(errands \ {e})
      BY <1>3 DEF ReceiveHistory
    <2>2. opened' = opened
      BY <1>3 DEF ReceiveHistory
    <2>3. \A f \in errands' : PageOf(f)'
      <3> SUFFICES ASSUME NEW f \in errands' PROVE PageOf(f)'
        OBVIOUS
      <3>1. errands \ {e} \in SUBSET ErrandType /\ f \in Apart(errands \ {e})
        BY <2>1, <1>t
      <3>2. ~f.alone /\ CarriedOn(f)
        BY <3>1, ApartIs DEF CarriedOn, Like
      <3> QED
        BY <3>2, <1>a
    <2>4. ASSUME ~torn'
          PROVE  (NoGaps(trail) /\ (trail # <<>> => opened \in Task) /\ Within(trail, 0, opened))'
      <3>1. e.task = opened /\ opened' = opened /\ opened \in Task
        BY <2>1, <2>2, <2>4, <1>e
      <3>2. NoGaps(e.items) /\ Within(e.items, e.offset, opened)' /\ (~e.append => e.offset = 0)
        <4>1. ListedPage(e)' /\ (~e.append => e.offset = 0)
          BY <2>1, <1>l
        <4>2. NoGaps(e.items)' /\ Within(e.items, e.offset, e.task)'
          BY <4>1, <2>1 DEF ListedPage
        <4>3. NoGaps(e.items)
          BY <4>2 DEF NoGaps
        <4> QED
          BY <4>1, <4>2, <4>3, <3>1, <2>2 DEF Within
      <3>3. CASE ~e.append
        BY <3>1, <3>2, <3>3, <2>1 DEF Within, NoGaps
      <3>4. CASE e.append
        <4>1. ~torn /\ e.alone /\ trail' = trail \o e.items
          BY <2>1, <2>4, <3>4
        <4>2. /\ e.offset = Len(trail)
              /\ trail # <<>> /\ e.items # <<>> => trail[Len(trail)] <= e.items[1] + 1
          BY <2>1, <3>4, <4>1 DEF TrailInv, PageOf
        <4>3. NoGaps(trail) /\ Within(trail, 0, opened)
          BY <4>1 DEF TrailInv
        <4>4. /\ NoGaps(trail') /\ Len(trail') = Len(trail) + Len(e.items)
              /\ e.items # <<>> => trail'[Len(trail')] = e.items[Len(e.items)]
              /\ e.items = <<>> => trail' = trail
          BY <4>1, <4>2, <4>3, <3>2, <1>t, <1>e, JoinIs, SMTT(20)
        <4>5. CASE e.items = <<>>
          <5>1. Within(trail, 0, opened)' 
            <6>1. \A s \in Seq(Nat) : \A t \in Task : Within(s, 0, t) => Within(s, 0, t)'
              BY WithinKept
            <6> QED
              BY <6>1, <4>3, <4>4, <4>5, <3>1, <1>t DEF Within
          <5> QED
            BY <5>1, <4>4, <3>1 DEF Within, NoGaps
        <4>6. CASE e.items # <<>>
          <5>1. e.items[Len(e.items)] + Len(e.items) + Len(trail) <= happened'[opened] + 1
            BY <4>2, <4>6, <3>1, <3>2 DEF Within
          <5>2. e.items[Len(e.items)] \in Nat /\ Len(e.items) \in Nat /\ Len(trail) \in Nat
            BY <4>6, <1>t, <1>e
          <5>3. happened'[opened] \in Nat
            BY <3>1, HappenedGrows
          <5>4. trail'[Len(trail')] + Len(trail') + 0 <= happened'[opened] + 1
            BY <4>4, <4>6, <5>1, <5>2, <5>3
          <5> QED
            BY <5>4, <4>4, <3>1 DEF Within, NoGaps
        <4> QED
          BY <4>5, <4>6
      <3> QED
        BY <3>3, <3>4
    <2> QED
      BY <2>3, <2>4 DEF TrailInv
  <1>4. CASE OpenTask
    <2>1. PICK t \in Task : opened' = t /\ errands' = Apart(errands) \cup {Comments(t), History(t)}
      BY <1>4 DEF OpenTask
    <2>2. opened = NoTask /\ UNCHANGED <<trail, torn>>
      BY <1>4 DEF OpenTask, judged
    <2>3. ~torn => trail = <<>>
      BY <2>2, <1>t DEF TrailInv
    <2>4. \A f \in errands' : PageOf(f)'
      <3> SUFFICES ASSUME NEW f \in errands' PROVE PageOf(f)'
        OBVIOUS
      <3>1. CASE f \in Apart(errands)
        <4>1. ~f.alone /\ CarriedOn(f)
          BY <3>1, <1>t, ApartIs DEF CarriedOn, Like
        <4> QED
          BY <4>1, <1>a
      <3>2. CASE f \in {Comments(t), History(t)}
        <4>1. SentAnew(f)
          BY <3>2, ErrandIs, HistoryIs DEF Comments, SentAnew
        <4> QED
          BY <4>1, <1>n
      <3> QED
        BY <2>1, <3>1, <3>2
    <2>5. (~torn => NoGaps(trail) /\ (trail # <<>> => opened \in Task) /\ Within(trail, 0, opened))'
      BY <2>2, <2>3 DEF NoGaps, Within
    <2> QED
      BY <2>4, <2>5 DEF TrailInv
  <1>5. CASE CloseTask
    <2>1. errands' = Apart(errands) /\ trail' = <<>>
      BY <1>5 DEF CloseTask
    <2>2. \A f \in errands' : PageOf(f)'
      <3> SUFFICES ASSUME NEW f \in errands' PROVE PageOf(f)'
        OBVIOUS
      <3>1. ~f.alone /\ CarriedOn(f)
        BY <2>1, <1>t, ApartIs DEF CarriedOn, Like
      <3> QED
        BY <3>1, <1>a
    <2>3. NoGaps(trail)' /\ Within(trail, 0, opened)'
      <3>1. Len(trail') = 0
        BY <2>1
      <3> QED
        BY <2>1, <3>1 DEF NoGaps, Within
    <2> QED
      BY <2>1, <2>2, <2>3 DEF TrailInv
  <1>6. CASE \/ OthersStamp \/ OthersWriteComment \/ OthersChange \/ TypeComment \/ ServeComments
             \/ ReceiveComments \/ MarkRead \/ CommentsFail \/ HistoryFails \/ SubmitComment
             \/ StampPost \/ WritePost \/ PostAnswered \/ PostFails \/ DeleteComment
             \/ UNCHANGED threadVars
    <2>1. UNCHANGED <<trail, torn, opened>>
      BY <1>6 DEF OthersStamp, OthersWriteComment, OthersChange, TypeComment, ServeComments,
         ReceiveComments, MarkRead, CommentsFail, HistoryFails, SubmitComment, StampPost, WritePost,
         PostAnswered, PostFails, DeleteComment, threadVars, threadLists, judged, editorState
    <2>m. CASE LoadMore \/ ServeHistory
      BY <2>m, <1>1, <1>2
    <2>n. SUFFICES ASSUME ~LoadMore, ~ServeHistory PROVE TrailInv'
      BY <2>m
    <2>2. \A f \in errands' : CarriedOn(f) \/ SentAnew(f) \/ f.kind # "history"
      <3>1. CASE ServeComments
        <4>1. PICK e \in errands : /\ e.kind = "comments"
                                   /\ errands' = (errands \ {e}) \cup {AsListed(e, ThreadOf(e.task))}
          BY <3>1 DEF ServeComments
        <4>2. e \in ErrandType /\ ThreadOf(e.task) \in Seq(Nat)
          BY <1>t, <1>e, ThreadOfIs
        <4>3. AsListed(e, ThreadOf(e.task)).kind = "comments"
          BY <4>1, <4>2, AsListedIs DEF SameTask
        <4> QED
          BY <4>1, <4>3, <1>c
      <3>2. CASE ReceiveComments
        <4>1. PICK e \in errands : errands' = (errands \ {e}) \cup {Marking(e)}
          BY <3>2 DEF ReceiveComments
        <4>2. Marking(e).kind = "comments"
          BY <1>t, MarkingIs
        <4> QED
          BY <4>1, <4>2, <1>c
      <3> QED
        BY <2>n, <3>1, <3>2, ErrandsCome
    <2>3. \A f \in errands' : f.kind # "history" => PageOf(f)'
      BY DEF PageOf
    <2> QED
      BY <2>1, <2>2, <2>3, <1>k, <1>n DEF TrailInv
  <1> QED
    BY <1>1, <1>2, <1>3, <1>4, <1>5, <1>6 DEF ThreadNext

LEMMA TrailStarts == ThreadInit => TrailInv
  <1> SUFFICES ASSUME ThreadInit PROVE TrailInv
    OBVIOUS
  <1>1. trail = <<>> /\ Len(trail) = 0 /\ errands = {}
    BY DEF ThreadInit
  <1> QED
    BY <1>1 DEF TrailInv, NoGaps, Within

LEMMA TrailHolds == ThreadSpec => []TrailInv
  BY TrailStarts, TrailStep, ThreadTypes, PTL DEF ThreadSpec

\* No comment is shown twice, and no entry of the history is left out between two that
\* are shown, unless a page was appended to another list than it was asked for.
THEOREM ThreadsAreWhole == ThreadSpec => []ThreadIsWhole
  <1>1. RequestInv /\ TrailInv => ThreadIsWhole
    BY DEF RequestInv, TrailInv, NoRepeats, NoGaps, ThreadIsWhole
  <1> QED
    BY <1>1, ThreadTypes, TrailHolds, PTL
=============================================================================
