------------------------------ MODULE Directory ------------------------------
(***************************************************************************)
(* What issues are filed under and who sees them: the team registry, the   *)
(* team lists of users, projects and issues, projects and their components *)
(* (db/teams.go, db/projects.go, their handlers and the CLI commands       *)
(* "teams", "define", "delete" and "user").                                *)
(*                                                                         *)
(* Renaming a team is a transaction, so one step; everything else is one   *)
(* step per SQL statement.  The CLI calls the same functions of package db *)
(* and asks for no account, so the administrative operations have no       *)
(* caller here; Accounts models who is entitled to make them.              *)
(*                                                                         *)
(* A team list is a sequence of names, as it is stored (comma-separated);  *)
(* case and blanks, which every function normalises away, are left out.    *)
(***************************************************************************)
EXTENDS Naturals, Sequences, SequencesExt, FiniteSets, Tables, Slices

CONSTANTS
  Requests,    \* requests and CLI commands under way: the concurrency allowed
  Users,
  Projects, Components,
  NoName,      \* the blank project or component of an issue
  Names,       \* team names other than the two reserved ones
  Likes,       \* name -> the stretches of a list its LIKE pattern matches
  Lists,       \* the team lists that requests carry
  MaxIssues    \* bound on the issues ever filed

TeamAdmin == "admin"
TeamAny == "any"
Reserved == {TeamAdmin, TeamAny}
AllNames == Names \cup Reserved

ASSUME DirectoryAssumption ==
  /\ Names \cap Reserved = {}
  /\ NoName \notin Projects \cup Components
  /\ \A t \in AllNames : <<t>> \in Likes[t] /\ Likes[t] \subseteq Seq(AllNames)
  /\ \A t \in Reserved : Likes[t] = {<<t>>}
  /\ Lists \subseteq Seq(AllNames)
  /\ MaxIssues \in Nat

VARIABLES
  teams,       \* table teams: the names registered
  users,       \* table users: user -> team list
  projects,    \* table projects: name -> team list
  components,  \* table components: pairs of project and name
  issues,      \* table issues: id -> project, component and team list
  nextIssue,   \* AUTOINCREMENT counter of issues
  serving      \* requests in flight: goroutine or process -> what it is doing

vars == <<teams, users, projects, components, issues, nextIssue, serving>>

IssueRow == [project: Projects \cup {NoName}, component: Components \cup {NoName},
             teams: Seq(AllNames)]

Init ==
  /\ teams = Reserved
  /\ users = [u \in Users |-> <<TeamAny>>]
  /\ projects = NoRows /\ components = {}
  /\ issues = NoRows /\ nextIssue = 1
  /\ serving = NoRows

-----------------------------------------------------------------------------
(* Team lists.                                                             *)

\* A list stored is never empty.
BugFormatTeams(list) == list
FormatTeams(list) == IF list = <<>> THEN <<TeamAny>> ELSE list

ContainsTeam(list, name) == name \in ToSet(list)

\* IssueMatchesUserTeams and ProjectMatchesUserTeams.
Matches(list, own) ==
  \/ ContainsTeam(own, TeamAdmin) \/ ContainsTeam(own, TeamAny)
  \/ ContainsTeam(list, TeamAny)
  \/ ToSet(own) \cap ToSet(list) # {}

\* ',' || list || ',' LIKE '%,name,%'.  The name is not escaped, and nothing
\* keeps _ and % out of a name (CreateTeam), so that it may match other names,
\* and several in a row with their commas.
Like(list, name) == \E i, j \in DOMAIN list : i <= j /\ SubSeq(list, i, j) \in Likes[name]

\* No name of the list has a wildcard in it.
Plain(list) == \A t \in ToSet(list) : Likes[t] = {<<t>>}

\* The team filter of buildWhereClause: none at all for an empty list.
MatchesWhereClause(list, own) ==
  own # <<>> /\ ~ContainsTeam(own, TeamAdmin) /\ ~ContainsTeam(own, TeamAny)
    => \E t \in ToSet(own) \cup {TeamAny} : Like(list, t)

\* mergeAdminAlias
MergeAdminAlias(list, isAdmin) ==
  IF list = <<>> THEN <<IF isAdmin THEN TeamAdmin ELSE TeamAny>>
  ELSE IF isAdmin /\ ~ContainsTeam(list, TeamAdmin) THEN Append(list, TeamAdmin)
  ELSE list

\* teamsEqual
TeamsEqual(a, b) == Len(a) = Len(b) /\ ToSet(b) \subseteq ToSet(a)

\* replace(',' || teams || ',', ',old,', ',new,'): a match takes the comma the
\* next one would begin with, so in a run of old names every second one stays.
RunStart(list, i) == CHOOSE j \in 1..i :
  /\ \A k \in j..i : list[k] = list[i]
  /\ j > 1 => list[j - 1] # list[i]
BugRenamed(list, old, new) ==
  [i \in DOMAIN list |-> IF list[i] = old /\ i < Len(list) THEN new ELSE list[i]]
Renamed(list, old, new) ==
  [i \in DOMAIN list |->
     IF list[i] = old /\ (i - RunStart(list, i)) % 2 = 0 THEN new ELSE list[i]]

-----------------------------------------------------------------------------
(* A request's progress.                                                   *)

\* caller: the team list of the account it is made with, as auth read it.
Serving == [step: {"team_projects", "team_issues", "team_row", "user_write", "component_insert",
                   "project_components", "project_row", "component_row",
                   "issue_project", "issue_insert", "issue_read", "issue_write"},
            caller: Seq(AllNames), user: Users \cup {NoName}, team: Names \cup {NoName},
            admin: BOOLEAN, list: Seq(AllNames), project: Projects \cup {NoName},
            component: Components \cup {NoName}, issue: 0..MaxIssues]

Idle(r) == r \notin DOMAIN serving
At(r, step) == r \in DOMAIN serving /\ serving[r].step = step
NoRequest == [step |-> "", caller |-> <<>>, user |-> NoName, team |-> NoName, admin |-> FALSE,
              list |-> <<>>, project |-> NoName, component |-> NoName, issue |-> 0]
Begin(r, request) == Idle(r) /\ serving' = Put(serving, r, request)
Advance(r, step) == serving' = [serving EXCEPT ![r].step = step]
Answer(r) == serving' = Without(serving, {r})

-----------------------------------------------------------------------------
(* The team registry.                                                      *)

CreateTeam ==
  /\ \E t \in Names \ teams : teams' = teams \cup {t}
  /\ UNCHANGED <<users, projects, components, issues, nextIssue, serving>>

UserLists == {users[u] : u \in Users}
ProjectLists == {projects[p] : p \in DOMAIN projects}
IssueLists == {issues[i].teams : i \in DOMAIN issues}
AllLists == UserLists \cup ProjectLists \cup IssueLists

\* DeleteTeam counts the uses of the name in three queries, by its pattern;
\* reserved: refused.
Counts(team, lists) == \E l \in lists : Like(l, team)

DeleteTeamUsers(r) ==
  /\ \E t \in Names :
       IF Counts(t, UserLists) THEN Idle(r) /\ UNCHANGED serving
       ELSE Begin(r, [NoRequest EXCEPT !.step = "team_projects", !.team = t])
  /\ UNCHANGED <<teams, users, projects, components, issues, nextIssue>>

DeleteTeamProjects(r) ==
  /\ At(r, "team_projects")
  /\ IF Counts(serving[r].team, ProjectLists) THEN Answer(r) ELSE Advance(r, "team_issues")
  /\ UNCHANGED <<teams, users, projects, components, issues, nextIssue>>

DeleteTeamIssues(r) ==
  /\ At(r, "team_issues")
  /\ IF Counts(serving[r].team, IssueLists) THEN Answer(r) ELSE Advance(r, "team_row")
  /\ UNCHANGED <<teams, users, projects, components, issues, nextIssue>>

DeleteTeamRow(r) ==
  /\ At(r, "team_row")
  /\ teams' = teams \ {serving[r].team}
  /\ Answer(r)
  /\ UNCHANGED <<users, projects, components, issues, nextIssue>>

\* UpdateTeam with a new name.  Only a row that exists can collide; the lists
\* are rewritten whether or not the old name is registered (by the text of the
\* name: rows that only its pattern matches are written as they are).
BugRenamable == AllNames
Renamable == Names

RenameTeam(old, new) ==
  /\ old \in Renamable /\ new # old
  /\ ~(old \in teams /\ new \in teams)
  /\ teams' = IF old \in teams THEN (teams \ {old}) \cup {new} ELSE teams
  /\ users' = [u \in Users |-> Renamed(users[u], old, new)]
  /\ projects' = [p \in DOMAIN projects |-> Renamed(projects[p], old, new)]
  /\ issues' = [i \in DOMAIN issues |-> [issues[i] EXCEPT !.teams = Renamed(@, old, new)]]
  /\ UNCHANGED <<components, nextIssue, serving>>

-----------------------------------------------------------------------------
(* Users' teams.                                                           *)

\* POST and PUT /api/users, user --add: a list, and is_admin as an alias.
SetUserTeams ==
  /\ \E u \in Users, list \in Lists \cup {<<>>}, isAdmin \in BOOLEAN :
       users' = [users EXCEPT ![u] = FormatTeams(MergeAdminAlias(list, isAdmin))]
  /\ UNCHANGED <<teams, projects, components, issues, nextIssue, serving>>

\* user --update --admin true|false: db.UpdateUser reads the list it changes.
UpdateUserRead(r) ==
  /\ \E u \in Users, isAdmin \in BOOLEAN :
       Begin(r, [NoRequest EXCEPT !.step = "user_write", !.user = u, !.list = users[u],
                                  !.admin = isAdmin])
  /\ UNCHANGED <<teams, users, projects, components, issues, nextIssue>>

UpdateUserWrite(r) ==
  /\ At(r, "user_write")
  /\ LET list == serving[r].list
         effective == IF ~serving[r].admin THEN Filter(list, AllNames \ {TeamAdmin})
                      ELSE MergeAdminAlias(list, TRUE)
     IN users' = [users EXCEPT ![serving[r].user] = FormatTeams(effective)]
  /\ Answer(r)
  /\ UNCHANGED <<teams, projects, components, issues, nextIssue>>

-----------------------------------------------------------------------------
(* Projects and components.                                                *)

\* INSERT OR IGNORE
CreateProject ==
  /\ \E p \in Projects \ DOMAIN projects, list \in Lists \cup {<<>>} :
       projects' = Put(projects, p, FormatTeams(list))
  /\ UNCHANGED <<teams, users, components, issues, nextIssue, serving>>

SetProjectTeams ==
  /\ \E p \in DOMAIN projects, list \in Lists \cup {<<>>} :
       projects' = Update(projects, p, FormatTeams(list))
  /\ UNCHANGED <<teams, users, components, issues, nextIssue, serving>>

\* AddComponent: is there such a project?  INSERT OR IGNORE.
AddComponentCount(r) ==
  /\ \E p \in DOMAIN projects, c \in Components :
       Begin(r, [NoRequest EXCEPT !.step = "component_insert", !.project = p, !.component = c])
  /\ UNCHANGED <<teams, users, projects, components, issues, nextIssue>>

AddComponentInsert(r) ==
  /\ At(r, "component_insert")
  /\ components' = components \cup {<<serving[r].project, serving[r].component>>}
  /\ Answer(r)
  /\ UNCHANGED <<teams, users, projects, issues, nextIssue>>

FiledUnder(p) == {i \in DOMAIN issues : issues[i].project = p}

\* DeleteProject: the issues that refer to it; its components; its row.
DeleteProjectIssues(r) ==
  /\ \E p \in Projects :
       /\ FiledUnder(p) = {}
       /\ Begin(r, [NoRequest EXCEPT !.step = "project_components", !.project = p])
  /\ UNCHANGED <<teams, users, projects, components, issues, nextIssue>>

BugDeleteProjectComponents(r) ==
  /\ At(r, "project_components")
  /\ projects' = Without(projects, {serving[r].project})
  /\ Advance(r, "project_row")
  /\ UNCHANGED <<teams, users, components, issues, nextIssue>>
DeleteProjectComponents(r) ==
  /\ At(r, "project_components")
  /\ components' = {pc \in components : pc[1] # serving[r].project}
  /\ Advance(r, "project_row")
  /\ UNCHANGED <<teams, users, projects, issues, nextIssue>>

DeleteProjectRow(r) ==
  /\ At(r, "project_row")
  /\ projects' = Without(projects, {serving[r].project})
  /\ Answer(r)
  /\ UNCHANGED <<teams, users, components, issues, nextIssue>>

Referring(p, c) == {i \in FiledUnder(p) : issues[i].component = c}

DeleteComponentIssues(r) ==
  /\ \E p \in Projects, c \in Components :
       /\ Referring(p, c) = {}
       /\ Begin(r, [NoRequest EXCEPT !.step = "component_row", !.project = p, !.component = c])
  /\ UNCHANGED <<teams, users, projects, components, issues, nextIssue>>

DeleteComponentRow(r) ==
  /\ At(r, "component_row")
  /\ components' = components \ {<<serving[r].project, serving[r].component>>}
  /\ Answer(r)
  /\ UNCHANGED <<teams, users, projects, issues, nextIssue>>

-----------------------------------------------------------------------------
(* Issues, as far as projects and teams go.                                *)

\* POST /api/issues: auth reads the caller, ListProjects what he may file under
\* (a blank project is not looked up), and the row is inserted with team "any".
CreateIssueAuth(r) ==
  /\ \E u \in Users, p \in Projects \cup {NoName}, c \in Components \cup {NoName} :
       Begin(r, [NoRequest EXCEPT !.step = "issue_project", !.caller = users[u],
                                  !.project = p, !.component = c])
  /\ UNCHANGED <<teams, users, projects, components, issues, nextIssue>>

MayFileUnder(p, own) == p = NoName \/ (p \in DOMAIN projects /\ Matches(projects[p], own))

CreateIssueProject(r) ==
  /\ At(r, "issue_project")
  /\ IF MayFileUnder(serving[r].project, serving[r].caller)
     THEN Advance(r, "issue_insert") ELSE Answer(r)
  /\ UNCHANGED <<teams, users, projects, components, issues, nextIssue>>

CreateIssueInsert(r) ==
  /\ At(r, "issue_insert")
  /\ nextIssue \in 1..MaxIssues
  /\ issues' = Put(issues, nextIssue, [project |-> serving[r].project,
                     component |-> serving[r].component, teams |-> <<TeamAny>>])
  /\ nextIssue' = nextIssue + 1
  /\ Answer(r)
  /\ UNCHANGED <<teams, users, projects, components>>

\* PUT /api/issues/{id}: any project and component; an empty list leaves the
\* teams alone, any other is an admin's or equals the one stored.
UpdateIssueAuth(r) ==
  /\ \E u \in Users, i \in DOMAIN issues :
       Begin(r, [NoRequest EXCEPT !.step = "issue_read", !.caller = users[u], !.issue = i])
  /\ UNCHANGED <<teams, users, projects, components, issues, nextIssue>>

TeamsAccepted(list, row, own) ==
  list = <<>> \/ ContainsTeam(own, TeamAdmin) \/ TeamsEqual(row.teams, list)

UpdateIssueRead(r) ==
  /\ At(r, "issue_read")
  /\ IF serving[r].issue \notin DOMAIN issues THEN Answer(r)
     ELSE \E p \in Projects \cup {NoName}, c \in Components \cup {NoName}, list \in Lists \cup {<<>>} :
            /\ TeamsAccepted(list, issues[serving[r].issue], serving[r].caller)
            /\ serving' = [serving EXCEPT ![r].step = "issue_write", ![r].project = p,
                                          ![r].component = c, ![r].list = list]
  /\ UNCHANGED <<teams, users, projects, components, issues, nextIssue>>

UpdateIssueWrite(r) ==
  /\ At(r, "issue_write")
  /\ LET i == serving[r].issue IN
       issues' = Update(issues, i,
         [project |-> serving[r].project, component |-> serving[r].component,
          teams |-> IF serving[r].list = <<>> THEN issues[i].teams ELSE FormatTeams(serving[r].list)])
  /\ Answer(r)
  /\ UNCHANGED <<teams, users, projects, components, nextIssue>>

DeleteIssue ==
  /\ \E i \in DOMAIN issues : issues' = Without(issues, {i})
  /\ UNCHANGED <<teams, users, projects, components, nextIssue, serving>>

\* The process dies, or a statement fails: what was written stays.
Abort(r) ==
  /\ ~Idle(r)
  /\ Answer(r)
  /\ UNCHANGED <<teams, users, projects, components, issues, nextIssue>>

-----------------------------------------------------------------------------
\* Requests of a single statement or transaction: they too take a goroutine.
AtOnce(r) ==
  /\ Idle(r)
  /\ \/ CreateTeam \/ SetUserTeams \/ CreateProject \/ SetProjectTeams \/ DeleteIssue
     \/ \E old, new \in AllNames : RenameTeam(old, new)

Next ==
  \E r \in Requests :
       \/ AtOnce(r)
       \/ DeleteTeamUsers(r) \/ DeleteTeamProjects(r) \/ DeleteTeamIssues(r) \/ DeleteTeamRow(r)
       \/ UpdateUserRead(r) \/ UpdateUserWrite(r)
       \/ AddComponentCount(r) \/ AddComponentInsert(r)
       \/ DeleteProjectIssues(r) \/ DeleteProjectComponents(r) \/ DeleteProjectRow(r)
       \/ DeleteComponentIssues(r) \/ DeleteComponentRow(r)
       \/ CreateIssueAuth(r) \/ CreateIssueProject(r) \/ CreateIssueInsert(r)
       \/ UpdateIssueAuth(r) \/ UpdateIssueRead(r) \/ UpdateIssueWrite(r)
       \/ Abort(r)

Spec == Init /\ [][Next]_vars

-----------------------------------------------------------------------------
(* Properties.                                                             *)

TypeOK ==
  /\ teams \subseteq AllNames
  /\ users \in [Users -> Seq(AllNames)]
  /\ DOMAIN projects \subseteq Projects /\ projects \in [DOMAIN projects -> Seq(AllNames)]
  /\ components \subseteq Projects \X Components
  /\ nextIssue \in 1..(MaxIssues + 1)
  /\ DOMAIN issues \subseteq 1..(nextIssue - 1) /\ issues \in [DOMAIN issues -> IssueRow]
  /\ DOMAIN serving \subseteq Requests /\ serving \in [DOMAIN serving -> Serving]

\* The two reserved teams are always registered ("admin and any are always
\* present", docs/API.md): no deletion and no chain of renames removes one.
ReservedRemain == Reserved \subseteq teams

\* The list of issues, filtered in SQL (buildWhereClause), shows everybody every
\* issue that the rule in Go lets him open (IssueMatchesUserTeams), whatever has
\* become of the team lists, and no other, unless one of his teams has a wildcard
\* in its name: "the padded-LIKE pattern prevents false substring matches"
\* (db/issues.go), but does not keep "dev_ops" from matching "devxops".  The two
\* would differ on an account with an empty list as well, so no edit, rename or
\* command may ever leave one.  (On top of the types.)
RulesAgree == TypeOK /\
  \A u \in Users, i \in DOMAIN issues :
    /\ Matches(issues[i].teams, users[u]) => MatchesWhereClause(issues[i].teams, users[u])
    /\ MatchesWhereClause(issues[i].teams, users[u]) /\ Plain(users[u])
         => Matches(issues[i].teams, users[u])

\* A component belongs to a project that exists, also when a deletion dies
\* half way (DeleteProject's order), as long as requests do not overlap.
ComponentsHaveProject == \A pc \in components : pc[1] \in DOMAIN projects

UsedIn(team, lists) == \E l \in lists : ContainsTeam(l, team)

\* A team that is deleted is referenced by nobody: deleting "fails if the team is
\* still referenced by any user, project, or issue" (docs/API.md).  False of
\* requests that overlap: DeleteTeam counts in three statements and deletes in a
\* fourth, and somebody may be given the team in between.
DeletedTeamIsUnused ==
  [][\A r \in Requests : DeleteTeamRow(r) => ~UsedIn(serving[r].team, AllLists')]_vars

\* Renaming a team to a name nobody uses changes what nobody may see, and, where
\* a list does not name it twice, leaves no trace of the old name: the string
\* surgery of UpdateTeam finds it first, last and in the middle.
Distinct(lists) == \A l \in lists : IsInjective(l)
RenameKeepsSight ==
  [][\A old, new \in Names :
       RenameTeam(old, new) /\ ~UsedIn(new, AllLists) =>
         /\ \A u \in Users :
              /\ \A p \in DOMAIN projects :
                   Matches(projects'[p], users'[u]) = Matches(projects[p], users[u])
              /\ \A i \in DOMAIN issues :
                   Matches(issues'[i].teams, users'[u]) = Matches(issues[i].teams, users[u])
         /\ Distinct(AllLists) => ~UsedIn(old, AllLists')]_vars
=============================================================================
