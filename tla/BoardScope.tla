----------------------------- MODULE BoardScope -----------------------------
(***************************************************************************)
(* Which team and project the board page works on: the lists it chooses    *)
(* from, the loads that a choice starts, what they leave on the page, and  *)
(* the deletions that the user confirms.                                   *)
(*                                                                         *)
(* A load writes its answer to the page whatever is selected by then, and  *)
(* the flag that disables a control is one for all loads of its kind.  The *)
(* effects of a choice run before anything else happens on the page: they  *)
(* are part of the action.  The members of teams and projects are loaded   *)
(* and emptied like the columns.                                           *)
(***************************************************************************)
EXTENDS Naturals, FiniteSets

CONSTANTS
    Team, Project,
    TeamOf,      \* the team of a project
    Part,        \* what is loaded for a project
    Nothing,     \* no team or project; nothing shown; the settings by default
    MaxLoads,    \* bound: loads under way when the user acts
    MaxActs      \* bound: what users do

ASSUME ScopeAssumption ==
    /\ TeamOf \in [Project -> Team] /\ Team \cap Project = {}
    /\ Nothing \notin Team \cup Project
    /\ {"tasks", "settings"} \subseteq Part /\ Part \subseteq {"tasks", "columns", "settings"}

VARIABLES
    there,     \* teams and projects that the service has
    selected,  \* selectedTeamId, selectedProjectId
    stored,    \* storage.taskTeamId, storage.taskProjectId
    menus,     \* teams and projects: what can be selected
    content,   \* whose tasks, columns and settings the page shows
    loads,     \* requests under way
    loading,   \* isLoadingTeams, isLoadingProjects, isLoadingDeadlineSettings
    goal,      \* what handleCreateTeam, handleCreateProject select in the end
    saving,    \* the project whose settings are being saved
    confirm,   \* the confirmDialog, and the deletion that it decides
    deleting,  \* the deletion under way, whose team and project are those of the click
    crossed,   \* history: an answer came for what was no longer selected, or a failure
    acts

page == <<selected, stored, menus, content>>
requests == <<loads, loading, goal, saving, deleting>>
scopeVars == <<there, page, requests, confirm, crossed, acts>>

Pair(t, p) == [team |-> t, project |-> p]
Load(kind, sel) == [kind |-> kind, of |-> sel]
Unselected == Pair(Nothing, Nothing)
Complete(sel) == Nothing \notin {sel.team, sel.project}
NoQuestion == [what |-> Nothing, at |-> Unselected]

ScopeInit ==
    /\ \E p \in Project : there = (Team \cup Project) \ {p}
    /\ selected = Unselected /\ stored = Unselected /\ menus = {}
    /\ content = [k \in Part |-> Nothing]
    /\ loads = {Load("teams", Unselected)} /\ loading = {"teams"}
    /\ goal = Nothing /\ saving = Nothing
    /\ confirm = NoQuestion /\ deleting = NoQuestion
    /\ crossed = FALSE /\ acts = 0

-----------------------------------------------------------------------------
(* The selection and its effects.                                          *)

\* Without a team or a project, tasks and columns are emptied, the settings stay.
Cleared(sel) ==
    [k \in Part |-> IF Complete(sel) \/ k = "settings" THEN content[k] ELSE Nothing]

ProjectsOf(sel) ==
    IF sel.team = Nothing THEN {} ELSE {Load("projects", Pair(sel.team, Nothing))}
PartsOf(sel) == IF Complete(sel) THEN {Load(k, sel) : k \in Part} ELSE {}
Overlap(ls) == \E l, m \in ls : l.kind = "settings" /\ m.kind = "settings" /\ l.of # m.of

\* The page selects `sel` when the requests `done` have been answered, and loads `new`.
Select(sel, done, new) ==
    /\ selected' = sel /\ stored' = sel
    /\ content' = Cleared(sel)
    /\ loads' = (loads \ done) \cup new
    /\ loading' = (loading \ {l.kind : l \in done}) \cup {l.kind : l \in new}

Act == acts < MaxActs /\ acts' = acts + 1 /\ Cardinality(loads) <= MaxLoads

\* The selects, which are disabled while a load of their kind runs.  A new team keeps
\* the project of the old one until its projects have come.
SelectTeam ==
    /\ Act /\ "teams" \notin loading
    /\ \E t \in (menus \cap Team) \cup {Nothing} :
          LET sel == IF t = Nothing THEN Unselected ELSE Pair(t, selected.project)
          IN  t # selected.team /\ Select(sel, {}, ProjectsOf(sel) \cup PartsOf(sel))
    /\ menus' = IF selected'.team = Nothing THEN menus \cap Team ELSE menus
    /\ crossed' = (crossed \/ Overlap(loads'))
    /\ UNCHANGED <<there, goal, saving, deleting, confirm>>
SelectProject ==
    /\ Act /\ "projects" \notin loading /\ selected.team # Nothing
    /\ \E p \in (menus \cap Project) \cup {Nothing} :
          LET sel == Pair(selected.team, p)
          IN  p # selected.project /\ Select(sel, {}, PartsOf(sel))
    /\ crossed' = (crossed \/ Overlap(loads'))
    /\ UNCHANGED <<there, menus, goal, saving, deleting, confirm>>

-----------------------------------------------------------------------------
(* The answers.                                                            *)

\* What is selected from a list: what was just created, what was stored, or the first.
\* (The variant takes the stored one without looking for it.)
FirstOf(items) == IF items = {} THEN Nothing ELSE CHOOSE x \in items : TRUE
PreferredStored(was, items) ==
    IF goal \in items THEN goal ELSE IF was # Nothing THEN was ELSE FirstOf(items)
Preferred(was, items) ==
    IF goal \in items THEN goal ELSE IF was \in items THEN was ELSE FirstOf(items)

\* loadTeams
TeamsLoaded ==
    /\ \E l \in loads :
          LET items == there \cap Team
              team == Preferred(stored.team, items)
              sel == IF team = Nothing THEN Unselected ELSE Pair(team, selected.project)
              parts == IF team = selected.team THEN {} ELSE PartsOf(sel)
          IN  /\ l.kind = "teams"
              /\ Select(sel, {l}, ProjectsOf(sel) \cup parts)
              /\ menus' = items \cup (IF team = Nothing THEN {} ELSE menus \cap Project)
    /\ goal' = IF goal \in Team THEN Nothing ELSE goal
    /\ crossed' = (crossed \/ Overlap(loads'))
    /\ UNCHANGED <<there, saving, deleting, confirm, acts>>

\* loadProjects, also of a team that is no longer selected.
ProjectsLoaded ==
    /\ \E l \in loads :
          LET items == {p \in there \cap Project : TeamOf[p] = l.of.team /\ l.of.team \in there}
              sel == Pair(selected.team, Preferred(stored.project, items))
          IN  /\ l.kind = "projects"
              /\ Select(sel, {l}, PartsOf(sel))
              /\ menus' = (menus \cap Team) \cup items
              /\ crossed' = (crossed \/ Overlap(loads') \/ l.of.team # selected.team)
    /\ goal' = IF goal \in Project THEN Nothing ELSE goal
    /\ UNCHANGED <<there, saving, deleting, confirm, acts>>

\* loadTasks, loadColumns, loadDeadlineSettings.  When they fail, the tasks stay, the
\* columns are emptied, the settings are those by default.
Found(sel) == {sel.team, sel.project} \subseteq there /\ TeamOf[sel.project] = sel.team
Arrives(l, what) ==
    /\ content' = [content EXCEPT ![l.kind] = what]
    /\ loads' = loads \ {l} /\ loading' = loading \ {l.kind}
PartLoaded ==
    /\ \E l \in loads :
          /\ l.kind \in Part /\ Found(l.of) /\ Arrives(l, l.of.project)
          /\ crossed' = (crossed \/ l.of # selected)
    /\ UNCHANGED <<there, selected, stored, menus, goal, saving, deleting, confirm, acts>>
PartFails ==
    /\ \E l \in loads :
          /\ l.kind \in Part
          /\ Arrives(l, IF l.kind = "tasks" THEN content[l.kind] ELSE Nothing)
          /\ crossed' = (crossed \/ TeamOf[l.of.project] = l.of.team \/ l.of # selected)
    /\ UNCHANGED <<there, selected, stored, menus, goal, saving, deleting, confirm, acts>>
\* A list that fails stays as it was; what was just created is selected all the same.
ListFails ==
    /\ \E l \in loads :
          LET sel == IF l.kind = "teams" /\ goal \in Team THEN Pair(goal, selected.project)
                     ELSE IF l.kind = "projects" /\ goal \in Project /\ selected.team # Nothing
                     THEN Pair(selected.team, goal) ELSE selected
          IN  /\ l.kind \in {"teams", "projects"}
              /\ Select(sel, {l}, (IF sel.team = selected.team THEN {} ELSE ProjectsOf(sel))
                                  \cup (IF sel = selected THEN {} ELSE PartsOf(sel)))
    /\ crossed' = TRUE /\ goal' = Nothing
    /\ UNCHANGED <<there, menus, saving, deleting, confirm, acts>>

-----------------------------------------------------------------------------
(* Creations, deletions and settings.                                      *)

\* The request and the load that follows it, in the team of the click.
Ask(ls) == loads' = loads \cup ls /\ loading' = loading \cup {l.kind : l \in ls}
CreateTeam ==
    /\ Act /\ goal = Nothing
    /\ \E t \in Team \ there : there' = there \cup {t} /\ goal' = t
    /\ Ask({Load("teams", Unselected)})
    /\ UNCHANGED <<page, saving, deleting, confirm, crossed>>
CreateProject ==
    /\ Act /\ goal = Nothing /\ selected.team \in there
    /\ \E p \in Project \ there :
          TeamOf[p] = selected.team /\ there' = there \cup {p} /\ goal' = p
    /\ Ask(ProjectsOf(selected))
    /\ UNCHANGED <<page, saving, deleting, confirm, crossed>>

\* requestConfirm: a new question answers the one before it with no.
AskDeleteTeam ==
    /\ Act /\ selected.team # Nothing
    /\ confirm' = [what |-> selected.team, at |-> selected]
    /\ UNCHANGED <<there, page, requests, crossed>>
AskDeleteProject ==
    /\ Act /\ selected.project # Nothing
    /\ confirm' = [what |-> selected.project, at |-> selected]
    /\ UNCHANGED <<there, page, requests, crossed>>
AnswerNo ==
    /\ confirm # NoQuestion /\ confirm' = NoQuestion
    /\ UNCHANGED <<there, page, requests, crossed, acts>>

\* What a yes deletes: the team and the project of the click.  (The variant: those
\* selected by now.)
TargetNow == [what |-> IF confirm.what \in Team THEN selected.team ELSE selected.project,
              at |-> selected]
Target == confirm
AnswerYes ==
    /\ confirm # NoQuestion /\ confirm' = NoQuestion
    /\ deleting = NoQuestion /\ deleting' = Target
    /\ UNCHANGED <<there, page, loads, loading, goal, saving, crossed, acts>>

\* DELETE, by the page or a colleague.
ServeDelete ==
    /\ deleting.what \in there /\ there' = there \ {deleting.what}
    /\ UNCHANGED <<page, requests, confirm, crossed, acts>>
OthersDeleteProject ==
    /\ Act /\ \E p \in there \cap Project : there' = there \ {p}
    /\ UNCHANGED <<page, requests, confirm, crossed>>

\* The answer: of a project, tasks and columns are emptied, whatever is selected by now,
\* and the projects of the team are loaded; of a team, everything is, and the teams.
ProjectDeleted ==
    /\ deleting.what \in Project \ there /\ deleting' = NoQuestion
    /\ stored' = [stored EXCEPT !.project = Nothing]
    /\ content' = [k \in Part |-> IF k = "settings" THEN content[k] ELSE Nothing]
    /\ Ask(ProjectsOf(deleting.at))
    /\ UNCHANGED <<there, selected, menus, goal, saving, confirm, crossed, acts>>
TeamDeleted ==
    /\ deleting.what \in Team \ there /\ deleting' = NoQuestion
    /\ Select(Unselected, {}, {Load("teams", Unselected)})
    /\ menus' = menus \cap Team
    /\ UNCHANGED <<there, goal, saving, confirm, crossed, acts>>

\* Refused, or lost on the way to or from the service: the question is not asked again.
DeleteFails ==
    /\ deleting # NoQuestion /\ deleting' = NoQuestion
    /\ UNCHANGED <<there, page, loads, loading, goal, saving, confirm, crossed, acts>>

\* The form of the settings can be sent: it is shown, and none are loaded or saved.
MaySave == Complete(selected) /\ saving = Nothing /\ "settings" \notin loading
SaveSettings ==
    /\ Act /\ MaySave /\ saving' = selected.project
    /\ UNCHANGED <<there, page, loads, loading, goal, deleting, confirm, crossed>>
SettingsSaved ==
    /\ saving # Nothing /\ saving' = Nothing
    /\ content' = [content EXCEPT !["settings"] = saving]
    /\ crossed' = (crossed \/ saving # selected.project)
    /\ UNCHANGED <<there, selected, stored, menus, loads, loading, goal, deleting, confirm, acts>>
SaveFails ==
    /\ saving # Nothing /\ saving' = Nothing
    /\ UNCHANGED <<there, page, loads, loading, goal, deleting, confirm, crossed, acts>>

ScopeNext ==
    \/ SelectTeam \/ SelectProject
    \/ TeamsLoaded \/ ProjectsLoaded \/ PartLoaded \/ PartFails \/ ListFails
    \/ CreateTeam \/ CreateProject
    \/ AskDeleteTeam \/ AskDeleteProject \/ AnswerNo \/ AnswerYes
    \/ ServeDelete \/ OthersDeleteProject \/ ProjectDeleted \/ TeamDeleted \/ DeleteFails
    \/ SaveSettings \/ SettingsSaved \/ SaveFails

ScopeSpec == ScopeInit /\ [][ScopeNext]_scopeVars

-----------------------------------------------------------------------------
Selection == [team : Team \cup {Nothing}, project : Project \cup {Nothing}]
ScopeTypeOK ==
    /\ there \cup menus \subseteq Team \cup Project
    /\ {selected, stored} \subseteq Selection
    /\ content \in [Part -> Project \cup {Nothing}]
    /\ goal \in Team \cup Project \cup {Nothing} /\ saving \in Project \cup {Nothing}
    /\ crossed \in BOOLEAN
    /\ \A l \in loads :
          /\ l \in [kind : {"teams", "projects"} \cup Part, of : Selection]
          /\ l.kind \in Part => Complete(l.of)
    /\ {confirm, deleting} \subseteq [what : Team \cup Project \cup {Nothing}, at : Selection]

\* When nothing is under way, the page shows the project that is selected and a project
\* of the team that is selected, and shows none when none is, unless a load failed or its
\* answer came when something else had been selected.
ScopeSettles ==
    loads = {} /\ deleting = NoQuestion /\ ~crossed =>
        /\ Complete(selected) => /\ TeamOf[selected.project] = selected.team
                                 /\ \A k \in Part : content[k] = selected.project
        /\ ~Complete(selected) => content["tasks"] = Nothing

\* What is deleted is what the question named that the user said yes to, whatever was
\* loaded, selected or asked meanwhile.
DeletedWasConfirmed ==
    [][deleting' # deleting /\ deleting' # NoQuestion =>
          deleting'.what = confirm.what]_scopeVars

-----------------------------------------------------------------------------
(* The inductive invariant.                                                *)

\* No project is selected, or its deletion asked for, without a team, whose projects can
\* be loaded again.
HasTeam(sel) == sel.project # Nothing => sel.team # Nothing
ProjectsHaveTeams ==
    ~crossed => /\ HasTeam(selected)
                /\ \A q \in {confirm, deleting} : q.what \in Project => q.at.team # Nothing

\* A list is under way, after which the page selects, and loads what it selects.
ListsComing == \E l \in loads : l.kind \in {"teams", "projects"}

\* Otherwise what is selected fits together, the menu has the projects of the selected
\* team, and each part is that of the project or on its way.
PartsCome ==
    ~crossed /\ ~ListsComing =>
        /\ \A p \in menus \cap Project : TeamOf[p] = selected.team
        /\ Complete(selected) =>
              /\ TeamOf[selected.project] = selected.team
              /\ \A k \in Part : content[k] = selected.project \/ Load(k, selected) \in loads
        /\ ~Complete(selected) => content["tasks"] = Nothing

ScopeInv == ProjectsHaveTeams /\ PartsCome
=============================================================================
