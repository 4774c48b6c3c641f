---------------------------- MODULE BoardClient ----------------------------
(***************************************************************************)
(* The board page of the frontend (TasksPage, tasksBoardApi, boardMerge    *)
(* and taskVersions) as one user edits one task with it: the row on the    *)
(* board, the cache of versions that supplies If-Match, the editor with    *)
(* the copy it started from, the merge after a 412, the conflict dialog.   *)
(*                                                                         *)
(* The colleagues are the rest of the world: their pages, the file agent   *)
(* and reorders write any field at any time.  The service is what          *)
(* TaskBoard says of it: it writes a PATCH whose If-Match is the version   *)
(* of the row, and a version names one content, so that a copy of the row  *)
(* is just its version.  The page has one save in flight; two tabs of the  *)
(* user are a page and a colleague.                                        *)
(***************************************************************************)
EXTENDS Naturals, Sequences

CONSTANTS
    Field,           \* fields of the task that a form edits
    Quick,           \* those that can be edited on the board itself
    Suggested,       \* those that the assistant writes: title and description
    Value,           \* their values
    Mine,            \* values that the user types
    Theirs,          \* values that colleagues write
    Initial,         \* content of the task at first
    MaxVersion,      \* bound: the last version that is written
    MaxSaves,        \* bound: saves that the user starts
    RecognisesNoRows \* whether the service answers a stale If-Match with 412

ASSUME ClientAssumption ==
    /\ Quick \cup Suggested \subseteq Field
    /\ Mine \subseteq Value /\ Theirs \subseteq Value
    /\ Initial \in [Field -> Value]
    /\ MaxVersion \in Nat \ {0} /\ MaxSaves \in Nat
    /\ RecognisesNoRows \in BOOLEAN

VARIABLES
    past,    \* past[v]: content of version v of the row; the last is current
    inbox,   \* versions in the task.updated events on their way to the page
    list,    \* version of the row that the board shows
    cache,   \* version in taskVersions
    editor,  \* editorTask, editorBaseTaskRef, the form and editorDirtyRef
    save,    \* the save in flight
    dialog,  \* what taskConflict holds
    saves    \* how many the user has started

service == <<past, inbox>>
board == <<list, cache>>
editVars == <<service, board, editor, save, dialog, saves>>

Content == [Field -> Value]
Body == UNION {[fs -> Value] : fs \in SUBSET Field}  \* fields that a PATCH names
Current == Len(past)
Stage == {"none", "sent", "retried", "forced", "saved", "stale", "error"}
InFlight == {"sent", "retried", "forced"}

\* quick: an edit on the board, else the editor is saved.  At stage "saved" or
\* "stale" the answer has the row of version `reply`; a PATCH that was written at
\* stage `after` is "saved".
Patch(stage, quick, body, base, match) ==
    [stage |-> stage, quick |-> quick, body |-> body, base |-> base,
     match |-> match, reply |-> 1, after |-> "none"]
NoBody == [f \in {} |-> Initial]
NoSave == Patch("none", FALSE, NoBody, 1, 1)
NoDialog == [open |-> FALSE, body |-> NoBody, row |-> 1]
NoEditor == [open |-> FALSE, base |-> 1, form |-> Initial, dirty |-> FALSE]

EditInit ==
    /\ past = <<Initial>>
    /\ inbox = {}
    /\ list = 1
    /\ cache = 1
    /\ editor = NoEditor
    /\ save = NoSave
    /\ dialog = NoDialog
    /\ saves = 0

-----------------------------------------------------------------------------
(* What the user does.                                                     *)

\* handleEditTask: the editor starts from the row that the board shows.
OpenEditor ==
    /\ ~editor.open
    /\ editor' = [open |-> TRUE, base |-> list, form |-> past[list], dirty |-> FALSE]
    /\ UNCHANGED <<service, board, save, dialog, saves>>

CloseEditor ==
    /\ editor.open
    /\ editor' = NoEditor
    /\ UNCHANGED <<service, board, save, dialog, saves>>

\* handleEditorTaskChange
Type ==
    /\ editor.open
    /\ \E f \in Field, v \in Mine :
          editor' = [[editor EXCEPT !.form[f] = v] EXCEPT !.dirty = TRUE]
    /\ UNCHANGED <<service, board, save, dialog, saves>>

\* requestTaskContentRewrite and applyTaskSuggestion: the user takes a text that the
\* assistant has sent, for whatever the form had then.  It does not count as typed.
TakeSuggestion ==
    /\ editor.open
    /\ \E f \in Suggested, v \in Mine : editor' = [editor EXCEPT !.form[f] = v]
    /\ UNCHANGED <<service, board, save, dialog, saves>>

\* patchTask: If-Match comes from the cache, whatever the edit started from.
Send(quick, body, base) ==
    /\ save.stage = "none"
    /\ saves < MaxSaves /\ saves' = saves + 1
    /\ save' = Patch("sent", quick, body, base, cache)
    /\ UNCHANGED <<service, board, editor, dialog>>

\* handleEditorTaskSubmit sends every field of the form.
SaveEditor == editor.open /\ Send(FALSE, editor.form, editor.base)

\* handleInlineEditSave, handleToggleTaskDone, a drag to another column: one field
\* of the row on the board.
SaveQuick ==
    \E f \in Quick, v \in Mine :
        past[list][f] # v /\ Send(TRUE, [g \in {f} |-> v], list)

-----------------------------------------------------------------------------
(* The service.                                                            *)

\* The fields of the patch replace those of the row.  (The variant is a PUT.)
PatchedAll(body) == body
Patched(body) ==
    [f \in Field |-> IF f \in DOMAIN body THEN body[f] ELSE past[Current][f]]

\* A change by a colleague, announced to the page.
ColleagueWrites ==
    /\ \E f \in Field, v \in Theirs : past' = Append(past, Patched([g \in {f} |-> v]))
    /\ inbox' = inbox \cup {Current + 1}
    /\ UNCHANGED <<board, editor, save, dialog, saves>>

\* The PATCH is written (its own user is told by the answer alone), or answered
\* with the row as it is; with the driver in use, with an error.
Accept ==
    /\ save.stage \in InFlight /\ save.match = Current
    /\ past' = Append(past, Patched(save.body))
    /\ save' = [[Patch("saved", save.quick, NoBody, 1, 1)
                    EXCEPT !.after = save.stage] EXCEPT !.reply = Current + 1]
    /\ UNCHANGED <<inbox, board, editor, dialog, saves>>

Refuse ==
    /\ save.stage \in InFlight /\ save.match # Current
    /\ save' = IF save.stage = "sent" /\ RecognisesNoRows
               THEN [[save EXCEPT !.stage = "stale"] EXCEPT !.reply = Current]
               ELSE [NoSave EXCEPT !.stage = "error"]
    /\ UNCHANGED <<service, board, editor, dialog, saves>>

-----------------------------------------------------------------------------
(* The answer.                                                             *)

\* The editor takes the row for the new base of its edit; the form stays.
Rebased(v) == [editor EXCEPT !.base = IF editor.open THEN v ELSE @]
Shows(v) == list' = v /\ cache' = v

\* 200: the end of applyTaskPatch, or of handleConflictForceLocal.
OnSaved ==
    /\ save.stage = "saved"
    /\ Shows(save.reply)
    /\ editor' = [Rebased(save.reply) EXCEPT
                    !.dirty = @ /\ (save.quick \/ save.after = "forced")]
    /\ dialog' = IF save.after = "forced" THEN NoDialog ELSE dialog
    /\ save' = NoSave
    /\ UNCHANGED <<service, saves>>

\* mergeTaskPatch: the fields that the user changed from the base, and that the
\* service has changed into something else.  (The variant has the first test the
\* wrong way round.)
ConflictsInverted(body, base, server) ==
    {f \in DOMAIN body : body[f] = base[f] /\ server[f] \notin {base[f], body[f]}}
Conflicts(body, base, server) ==
    {f \in DOMAIN body : body[f] # base[f] /\ server[f] \notin {base[f], body[f]}}

\* The second PATCH: the same patch, against the row that the 412 showed; the
\* variant takes the newest version that the page knows.
RetryMatchCached == cache
RetryMatch == save.reply

\* 412 on the first PATCH: merge, or ask the user.
OnStale ==
    /\ save.stage = "stale"
    /\ IF Conflicts(save.body, past[save.base], past[save.reply]) = {}
       THEN /\ save' = [[save EXCEPT !.stage = "retried"] EXCEPT !.match = RetryMatch]
            /\ UNCHANGED dialog
       ELSE /\ dialog' = [open |-> TRUE, body |-> save.body, row |-> save.reply]
            /\ save' = NoSave
    /\ UNCHANGED <<service, board, editor, saves>>

\* Any other failure, and a 412 on a later PATCH, is shown and the save is over; a
\* dialog stays open.
OnError ==
    /\ save.stage = "error"
    /\ save' = NoSave
    /\ UNCHANGED <<service, board, editor, dialog, saves>>

-----------------------------------------------------------------------------
(* The conflict dialog.                                                    *)

\* handleConflictKeepServer: the form keeps what the user typed.
KeepServer ==
    /\ dialog.open
    /\ Shows(dialog.row)
    /\ editor' = Rebased(dialog.row)
    /\ dialog' = NoDialog
    /\ UNCHANGED <<service, save, saves>>

\* handleConflictForceLocal: the patch again, against the row that was shown.
\* (The variant is against the newest version that the page knows.)
ForceMatchCached == cache
ForceMatch == dialog.row

ForceLocal ==
    /\ dialog.open /\ save.stage = "none"
    /\ save' = Patch("forced", FALSE, dialog.body, dialog.row, ForceMatch)
    /\ UNCHANGED <<service, board, editor, dialog, saves>>

CancelDialog ==
    /\ dialog.open
    /\ dialog' = NoDialog
    /\ UNCHANGED <<service, board, editor, save, saves>>

-----------------------------------------------------------------------------
(* The board stream.                                                       *)

\* handleBoardEvent with a task.updated.  Events may overtake each other: those of
\* two changes are sent by two goroutines.  One that is lost is one that stays in
\* the inbox.  The editor follows when nothing was typed.
Receive ==
    \E v \in inbox :
        /\ inbox' = inbox \ {v}
        /\ Shows(v)
        /\ editor' = IF editor.open /\ ~editor.dirty
                     THEN [[editor EXCEPT !.base = v] EXCEPT !.form = past[v]] ELSE editor
        /\ UNCHANGED <<past, save, dialog, saves>>

\* loadTasks, or a board.snapshot: the board and the cache, not the editor.  How many
\* are on their way is not kept: the answer may be as old as the page.
ReloadList ==
    /\ \E v \in 1 .. Current : Shows(v)
    /\ UNCHANGED <<service, editor, save, dialog, saves>>

-----------------------------------------------------------------------------
\* The bound: we stop looking when the last version is written.
EditNext ==
    /\ Current < MaxVersion
    /\ \/ OpenEditor \/ CloseEditor \/ Type \/ TakeSuggestion \/ SaveEditor \/ SaveQuick
       \/ ColleagueWrites \/ Accept \/ Refuse
       \/ OnSaved \/ OnStale \/ OnError
       \/ KeepServer \/ ForceLocal \/ CancelDialog
       \/ Receive \/ ReloadList

EditSpec == EditInit /\ [][EditNext]_editVars

-----------------------------------------------------------------------------
EditTypeOK ==
    /\ past \in Seq(Content) /\ Current \in 1 .. MaxVersion
    /\ inbox \subseteq 1 .. Current
    /\ {list, cache} \subseteq 1 .. Current
    /\ editor \in [open : BOOLEAN, base : 1 .. Current, form : Content, dirty : BOOLEAN]
    /\ save \in [stage : Stage, quick : BOOLEAN, body : Body, base : 1 .. Current,
                 match : 1 .. Current, reply : 1 .. Current, after : Stage]
    /\ dialog \in [open : BOOLEAN, body : Body, row : 1 .. Current]
    /\ saves \in 0 .. MaxSaves

\* The PATCH sent at that stage is written by this step; it replaces the value of
\* field f; the edit had started from that value.
Writes(stage) == save.stage = stage /\ save'.stage = "saved"
Replaces(f) == f \in DOMAIN save.body /\ past[Current][f] # save.body[f]
Seen(f) == past[Current][f] = past[save.base][f]

\* A quick edit on the board replaces nothing but the value that the board showed
\* when the user made it, whatever arrives in between: first PATCH or merged one.
QuickEditsAreInformed ==
    [][save.quick /\ (Writes("sent") \/ Writes("retried")) =>
          \A f \in Field : Replaces(f) => Seen(f)]_editVars

\* The merge after a 412 lets no colleague's value disappear in a field that the
\* user has changed: neither the value that the 412 showed nor a later one.
MergeKeepsTheirs ==
    [][Writes("retried") =>
          \A f \in Field :
              Replaces(f) /\ save.body[f] # past[save.base][f] => Seen(f)]_editVars

\* "Force mine" replaces exactly the row that the dialog compared with.
ForceReplacesWhatWasShown == [][Writes("forced") => Current = save.base]_editVars

\* README.md:122 promises "optimistic concurrency" through ETags, and the notice of
\* TasksPage.jsx:903, when a colleague has changed the task in the editor, that
\* the user may save and then see the current version: a save that the user was not
\* asked about replaces only values that the edit started from.
SavesReplaceWhatWasSeen ==
    [][Writes("sent") \/ Writes("retried") =>
          \A f \in Field : Replaces(f) => Seen(f)]_editVars

-----------------------------------------------------------------------------
(* The inductive invariant.                                                *)

\* The cache is moved by nothing but what moves the board.
CacheIsShown == cache = list

\* A quick edit changes each field that it names, and its first PATCH is for the row
\* from which it started.
QuickOf ==
    save.quick =>
        /\ save.stage = "sent" => save.match = save.base
        /\ save.stage \in {"sent", "stale", "retried"} =>
              \A f \in DOMAIN save.body : save.body[f] # past[save.base][f]

\* A second PATCH is for the row with which the merge found no conflict, a forced one
\* for the row of the dialog.
MergedOf ==
    save.stage = "retried" =>
        Conflicts(save.body, past[save.base], past[save.match]) = {}
ForcedOf == save.stage = "forced" => save.match = save.base

SaveInv == CacheIsShown /\ QuickOf /\ MergedOf /\ ForcedOf
=============================================================================
