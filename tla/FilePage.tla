------------------------------ MODULE FilePage ------------------------------
(***************************************************************************)
(* The page of the files of a team's projects (FileEnvironments) and the   *)
(* file service behind it (storage_service.py).  Each project has an       *)
(* environment: a tree of files.  An operation of the page changes one and *)
(* then lists directories of it, one request after the other, while the    *)
(* user may go on and other people change the same files.                  *)
(***************************************************************************)
EXTENDS Naturals, Sequences, FiniteSets

CONSTANTS
    Env,        \* environments: a team and a project
    NoEnv,
    Root,       \* the directory '.'
    Folder,     \* the directories in it
    File,
    FolderOf,   \* where a file is: [File -> Folder \cup {Root}]
    NoEntry,
    MaxRequests, \* bound: operations under way
    MaxStarts   \* bound: operations and reloads

ASSUME FileAssumption ==
    /\ NoEnv \notin Env /\ Root \notin Folder /\ Folder \cap File = {}
    /\ NoEntry \notin Folder \cup File
    /\ FolderOf \in [File -> Folder \cup {Root}]
    /\ {MaxRequests, MaxStarts} \subseteq Nat

VARIABLES
    disk,        \* [Env -> the files and folders there are]
    permitted,   \* the environments of the teams the user is in
    envs,        \* environments
    reloading,   \* isLoadingEnvironments
    selectedEnv, \* selectedEnvironmentKey
    savedEnv,    \* the team and project in localStorage
    info,        \* environmentInfo: of which environment
    entries,     \* directoryItemsByPath: [directory -> of which environment, and what]
    loadedDirs,  \* loadedDirectoryPaths
    target,      \* uploadTargetDirectory
    busy,        \* isBusy
    ops,         \* operations under way
    mingled,     \* history: an operation was started beside another by a control that
                 \* stays enabled, or the selection changed by a reload of the list
    starts       \* how many operations and reloads there were

fileView == <<envs, reloading, selectedEnv, savedEnv, info, entries, loadedDirs, target, busy>>
fileVars == <<disk, permitted, fileView, ops, mingled, starts>>

Dir == Folder \cup {Root}
Entry == Folder \cup File
In(e) == IF e \in Folder THEN Root ELSE FolderOf[e]
Listing(env, d) == {e \in disk[env] : In(e) = d}
NoItems == [d \in Dir |-> [env |-> NoEnv, what |-> {}]]
Loaded(its) == UNION {its[d].what : d \in Dir}
Op(kind, env, arg, todo) == [kind |-> kind, env |-> env, arg |-> arg, pc |-> "sent", todo |-> todo]

FileInit ==
    /\ disk \in [Env -> {{}, Entry}]
    /\ permitted \in SUBSET Env /\ permitted # {}
    /\ savedEnv \in Env \cup {NoEnv}
    /\ envs = {} /\ reloading = TRUE
    /\ selectedEnv = NoEnv /\ info = NoEnv
    /\ entries = NoItems /\ loadedDirs = {}
    /\ target = Root
    /\ busy = FALSE
    /\ ops = {} /\ mingled = FALSE /\ starts = 0

-----------------------------------------------------------------------------
(* The environment: the service's disk and the teams of the user.          *)

\* create_folder, upload_file and delete_entry: a folder is made on the way, and
\* deleted with what is in it.
Stored(env, e) == disk' = [disk EXCEPT ![env] = @ \cup ({e, In(e)} \ {Root})]
Deleted(env, e) == disk' = [disk EXCEPT ![env] = {f \in @ : f # e /\ In(f) # e}]

OthersStore ==
    /\ \E env \in Env, e \in Entry : e \notin disk[env] /\ Stored(env, e)
    /\ starts < MaxStarts /\ starts' = starts + 1
    /\ UNCHANGED <<permitted, fileView, ops, mingled>>

OthersDeleteEntry ==
    /\ \E env \in Env, e \in Entry : e \in disk[env] /\ Deleted(env, e)
    /\ starts < MaxStarts /\ starts' = starts + 1
    /\ UNCHANGED <<permitted, fileView, ops, mingled>>

LeaveTeam ==
    /\ \E env \in permitted : permitted' = permitted \ {env}
    /\ UNCHANGED <<disk, fileView, ops, mingled, starts>>

-----------------------------------------------------------------------------
(* The page: which environment.                                            *)

\* The effect on the selection: ensureAndOpenEnvironment empties the tree and asks for it.
Open(env, others) ==
    /\ selectedEnv' = env /\ savedEnv' = env
    /\ info' = NoEnv /\ entries' = NoItems /\ loadedDirs' = {}
    /\ busy' = TRUE
    /\ ops' = others \cup {Op("open", env, NoEntry, <<Root>>)}

\* The cards are hidden while the list is loaded and disabled while the page is busy.
\* (The variant does not disable them.)
CardsAlways(env) == env \in envs /\ ~reloading
Cards(env) == env \in envs /\ ~reloading /\ ~busy
SelectEnvironment ==
    /\ starts < MaxStarts /\ starts' = starts + 1
    /\ \E env \in Env \ {selectedEnv} : Cards(env) /\ Open(env, ops)
    /\ UNCHANGED <<disk, permitted, envs, reloading, target, mingled>>

\* loadAvailableEnvironments: by its button, or when the access token changes.
StartReload ==
    /\ ~reloading
    /\ starts < MaxStarts /\ starts' = starts + 1
    /\ reloading' = TRUE
    /\ UNCHANGED <<disk, permitted, envs, selectedEnv, savedEnv, info, entries, loadedDirs, target,
                   busy, ops, mingled>>

Emptied ==
    /\ selectedEnv' = NoEnv /\ info' = NoEnv /\ entries' = NoItems /\ loadedDirs' = {}
    /\ UNCHANGED <<savedEnv, busy, ops, mingled>>
\* Its answer selects the project that was saved, or else the first one.
EndReload ==
    /\ reloading /\ reloading' = FALSE
    /\ \/ envs' = {} /\ Emptied
       \/ /\ envs' = permitted /\ permitted # {}
          /\ \E env \in IF savedEnv \in permitted THEN {savedEnv} ELSE permitted :
                IF env = selectedEnv
                THEN UNCHANGED <<selectedEnv, savedEnv, info, entries, loadedDirs, busy, ops, mingled>>
                ELSE Open(env, ops) /\ mingled' = (mingled \/ ops # {})
    /\ UNCHANGED <<disk, permitted, target, starts>>

-----------------------------------------------------------------------------
(* The page: operations on the selected environment.                       *)

Start(kind, arg, todo) ==
    /\ selectedEnv # NoEnv /\ Cardinality(ops) < MaxRequests
    /\ starts < MaxStarts /\ starts' = starts + 1
    /\ ops' = ops \cup {Op(kind, selectedEnv, arg, todo)}
    /\ busy' = TRUE
    /\ UNCHANGED <<disk, permitted, envs, reloading, selectedEnv, savedEnv, info, entries, loadedDirs, target>>

AndRoot(d) == IF d = Root THEN <<Root>> ELSE <<d, Root>>
\* createFolder, uploadFile and refreshCurrentEntries, which wait until the page is idle
Create ==
    /\ ~busy /\ UNCHANGED mingled
    /\ \/ \E d \in Folder : Start("store", d, <<Root>>)
       \/ \E f \in File : FolderOf[f] = target /\ Start("store", f, AndRoot(target))
       \/ Start("list", NoEntry, <<target>>)

\* deleteEntry, downloadFile and expandDirectory do not: the buttons of the tree are
\* always there.
ActOn(e) ==
    \/ Start("delete", e, AndRoot(In(e)))
    \/ e \in File /\ Start("get", e, <<>>)
    \/ e \in Folder \ loadedDirs /\ Start("list", NoEntry, <<e>>)
OfTheTree ==
    /\ \E e \in Loaded(entries) : ActOn(e)
    /\ mingled' = (mingled \/ busy)

\* Where the next upload goes: a choice that stays when another environment is opened.
Aim ==
    /\ \E d \in {Root} \cup (Folder \cap Loaded(entries)) : target' = d
    /\ UNCHANGED <<disk, permitted, envs, reloading, selectedEnv, savedEnv, info, entries, loadedDirs, busy,
                   ops, mingled, starts>>

\* The first request of an operation has been done.
OpActs ==
    /\ \E o \in ops :
          /\ o.pc = "sent" /\ o.kind # "list" /\ o.env \in permitted
          /\ o.kind \in {"get", "delete"} => o.arg \in disk[o.env]
          /\ \/ o.kind = "store" /\ Stored(o.env, o.arg)
             \/ o.kind = "delete" /\ Deleted(o.env, o.arg)
             \/ o.kind \in {"get", "open"} /\ UNCHANGED disk
          /\ info' = IF o.kind = "open" THEN o.env ELSE info
          /\ IF o.todo = <<>> THEN busy' = FALSE /\ ops' = ops \ {o}
             ELSE ops' = (ops \ {o}) \cup {[o EXCEPT !.pc = "done"]} /\ UNCHANGED busy
    /\ UNCHANGED <<permitted, envs, reloading, selectedEnv, savedEnv, entries, loadedDirs, target, mingled, starts>>

\* refreshEntries, for the next directory; after the last one the operation ends.
OpLists ==
    /\ \E o \in ops :
          /\ o.kind = "list" \/ o.pc = "done"
          /\ LET d == o.todo[1]
             IN  /\ d = Root \/ d \in disk[o.env]
                 /\ entries' = [entries EXCEPT ![d] = [env |-> o.env, what |-> Listing(o.env, d)]]
                 /\ loadedDirs' = loadedDirs \cup {d}
          /\ IF Len(o.todo) = 1 THEN busy' = FALSE /\ ops' = ops \ {o}
             ELSE ops' = (ops \ {o}) \cup {[o EXCEPT !.todo = Tail(@)]} /\ UNCHANGED busy
    /\ UNCHANGED <<disk, permitted, envs, reloading, selectedEnv, savedEnv, info, target, mingled, starts>>

\* A request is refused or lost, or its answer is: the operation ends with a message.
OpFails ==
    /\ \E o \in ops : ops' = ops \ {o}
    /\ busy' = FALSE
    /\ UNCHANGED <<disk, permitted, envs, reloading, selectedEnv, savedEnv, info, entries, loadedDirs, target, mingled, starts>>

FileNext ==
    \/ OthersStore \/ OthersDeleteEntry \/ LeaveTeam
    \/ SelectEnvironment \/ StartReload \/ EndReload
    \/ Create \/ OfTheTree \/ Aim
    \/ OpActs \/ OpLists \/ OpFails

FileSpec == FileInit /\ [][FileNext]_fileVars

-----------------------------------------------------------------------------
FileTypeOK ==
    /\ disk \in [Env -> SUBSET Entry] /\ envs \cup permitted \subseteq Env
    /\ {selectedEnv, savedEnv, info} \subseteq Env \cup {NoEnv}
    /\ entries \in [Dir -> [env : Env \cup {NoEnv}, what : SUBSET Entry]]
    /\ loadedDirs \subseteq Dir /\ target \in Dir
    /\ {reloading, busy, mingled} \subseteq BOOLEAN /\ starts \in 0 .. MaxStarts
    /\ \A o \in ops :
          /\ o \in [kind : {"open", "store", "delete", "get", "list"}, env : Env,
                   arg : Entry \cup {NoEntry}, pc : {"sent", "done"}, todo : Seq(Dir)]
          /\ (o.kind = "list" \/ o.pc = "done") => o.todo # <<>>
          /\ o.kind = "store" => o.arg \in Entry

\* The tree, from which the user deletes, and the list of members are of the selected
\* environment: isBusy keeps the user from another one while answers are due, except
\* where a control that ignores it, or a reload of the list, has put two side by side.
TreeIsOfTheEnvironment ==
    ~mingled /\ selectedEnv # NoEnv =>
        /\ info \in {NoEnv, selectedEnv}
        /\ \A d \in loadedDirs : entries[d].env = selectedEnv

-----------------------------------------------------------------------------
(* The inductive invariant.                                                *)

\* Unless the exception was made, one operation runs at a time, the page is busy as
\* long as it does, and it works on the selected environment.
OneAtATime ==
    ~mingled =>
        /\ \A o, p \in ops : o = p
        /\ ops # {} => busy
        /\ selectedEnv # NoEnv => \A o \in ops : o.env = selectedEnv

FileInv == FileTypeOK /\ OneAtATime /\ TreeIsOfTheEnvironment
=============================================================================
