------------------------------ MODULE MCPages ------------------------------
(* An instance for TLC of the modules of the pages one user works with:      *)
(* one of them, the focus, runs while the others stay where they start.      *)
(*   edit     a title, which can be edited on the board, and a description   *)
(*   columns  two columns and a third one, a reorder by the user and one by  *)
(*            a colleague                                                    *)
(*   scope    two teams, one with two projects; a project does not exist yet *)
(*   sync     two boards                                                     *)
(*   comments, history   of two tasks; the loads of the other list hang or   *)
(*            fail                                                           *)
(*   files    two environments, a folder with a file                         *)
(*   media    two streams of the microphone, one other voice                 *)
EXTENDS BoardClient, BoardColumns, BoardScope, BoardSync, TaskThread,
        FilePage, CallMedia, TLC

CONSTANTS title, description, old, mine, hers,
          move1, move2, teamA, teamB, a1, b1, b2, boardA, boardB, task1, task2,
          envA, envB, docs, note, stream1, stream2, ann, address

MCInitial == [f \in Field |-> old]
MCTeamOf == a1 :> teamA @@ b1 :> teamB @@ b2 :> teamB
MCFolderOf == note :> docs

VARIABLE focus

boardVars == <<editVars, columnVars, scopeVars, syncVars, threadVars>>
pageVars == <<boardVars, fileVars, mediaVars, focus>>
Of(kind, es) == {e \in es : e.kind = kind}

MCInit ==
    /\ focus \in {"edit", "columns", "scope", "sync", "comments", "history",
                 "files", "media"}
    /\ EditInit /\ ColumnsInit /\ ScopeInit /\ SyncInit /\ ThreadInit
    /\ FileInit /\ MediaInit
    /\ focus # "scope" => there = (Team \cup Project) \ {CHOOSE p \in Project : TRUE}
    /\ focus # "files" => permitted = Env /\ savedEnv = NoEnv /\ \A e \in Env : disk[e] = {}

EditStep == focus = "edit" /\ EditNext /\ UNCHANGED <<columnVars, scopeVars, syncVars, threadVars>>
ColumnsStep ==
    focus = "columns" /\ ColumnsNext /\ UNCHANGED <<editVars, scopeVars, syncVars, threadVars>>
ScopeStep ==
    focus = "scope" /\ ScopeNext /\ UNCHANGED <<editVars, columnVars, syncVars, threadVars>>
SyncStep ==
    focus = "sync" /\ SyncNext /\ UNCHANGED <<editVars, columnVars, scopeVars, threadVars>>
ThreadStep ==
    /\ focus \in {"comments", "history"} /\ ThreadNext
    /\ focus = "comments" => \A e \in Of("history", errands') : e.stage = "sent"
    /\ focus = "history" => /\ \A e \in Of("comments", errands') : e.stage = "sent"
                            /\ Of("post", errands') = {}
    /\ UNCHANGED <<editVars, columnVars, scopeVars, syncVars>>

MCNext ==
    /\ UNCHANGED focus
    /\ \/ /\ EditStep \/ ColumnsStep \/ ScopeStep \/ SyncStep \/ ThreadStep
          /\ UNCHANGED <<fileVars, mediaVars>>
       \/ focus = "files" /\ FileNext /\ UNCHANGED <<boardVars, mediaVars>>
       \/ focus = "media" /\ MediaNext /\ UNCHANGED <<boardVars, fileVars>>

MCSpec == MCInit /\ [][MCNext]_pageVars

\* The types of all seven modules.
PagesTypeOK ==
    /\ EditTypeOK /\ ColumnsTypeOK /\ ScopeTypeOK /\ SyncTypeOK /\ ThreadTypeOK
    /\ FileTypeOK /\ MediaTypeOK
=============================================================================
