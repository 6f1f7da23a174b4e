--------------------------- MODULE DirectoryProofs ---------------------------
(***************************************************************************)
(* What holds of Directory for any number of requests, users, projects,    *)
(* components, issues and team names.                                      *)
(***************************************************************************)
EXTENDS Directory, DataTheorems

Steps == {"team_projects", "team_issues", "team_row", "user_write", "component_insert",
          "project_components", "project_row", "component_row",
          "issue_project", "issue_insert", "issue_read", "issue_write"}

TeamSteps == {"team_projects", "team_issues", "team_row"}

-----------------------------------------------------------------------------
(* Team lists.                                                             *)

LEMMA TeamNames ==
  /\ TeamAdmin \in AllNames /\ TeamAny \in AllNames
  /\ TeamAdmin \notin Names /\ TeamAny \notin Names
  /\ TeamAdmin \in Reserved /\ TeamAny \in Reserved
BY DirectoryAssumption DEF AllNames, Reserved

\* A list as it is stored is never empty.
LEMMA FormatTeamsType ==
  ASSUME NEW list \in Seq(AllNames)
  PROVE  FormatTeams(list) \in Seq(AllNames) /\ FormatTeams(list) # <<>>
BY TeamNames DEF FormatTeams

LEMMA MergeAdminAliasType ==
  ASSUME NEW list \in Seq(AllNames), NEW isAdmin
  PROVE  MergeAdminAlias(list, isAdmin) \in Seq(AllNames)
BY TeamNames DEF MergeAdminAlias

LEMMA ListTypes == \A list \in Lists \cup {<<>>} : list \in Seq(AllNames)
<1>1. <<>> \in Seq(AllNames)
  OBVIOUS
<1> QED BY <1>1, DirectoryAssumption

\* A rename keeps a list's length and is made of team names.
LEMMA RenamedType ==
  ASSUME NEW list \in Seq(AllNames), NEW old, NEW new \in AllNames
  PROVE  /\ Renamed(list, old, new) \in Seq(AllNames)
         /\ DOMAIN Renamed(list, old, new) = DOMAIN list
         /\ list # <<>> => Renamed(list, old, new) # <<>>
<1>1. DOMAIN list = 1..Len(list) /\ Len(list) \in Nat /\ \A i \in 1..Len(list) : list[i] \in AllNames
  OBVIOUS
<1>2. Renamed(list, old, new) \in [1..Len(list) -> AllNames]
  BY <1>1 DEF Renamed
<1>3. Renamed(list, old, new) \in Seq(AllNames) /\ Len(Renamed(list, old, new)) = Len(list)
  BY <1>1, <1>2, IsASeq
<1>4. list # <<>> => Len(list) # 0
  OBVIOUS
<1> HIDE DEF Renamed
<1> QED BY <1>1, <1>2, <1>3, <1>4

-----------------------------------------------------------------------------
(* Requests keep their type as they progress.                              *)

ServingOK == DOMAIN serving \subseteq Requests /\ serving \in [DOMAIN serving -> Serving]

\* The steps that use a field have it.
FieldsOK ==
  \A r \in DOMAIN serving :
    /\ serving[r].step \in TeamSteps => serving[r].team \in Names
    /\ serving[r].step = "component_insert" =>
         serving[r].project \in Projects /\ serving[r].component \in Components

LEMMA NoRequestType == <<>> \in Seq(AllNames) /\ 0 \in 0..MaxIssues
BY DirectoryAssumption

LEMMA StepType ==
  ASSUME NEW q \in Serving, NEW step \in Steps
  PROVE  [q EXCEPT !.step = step] \in Serving
BY DEF Serving, Steps

LEMMA BeginType ==
  ASSUME ServingOK, FieldsOK, NEW r \in Requests, NEW request \in Serving, Begin(r, request),
         request.step \in TeamSteps => request.team \in Names,
         request.step = "component_insert" =>
           request.project \in Projects /\ request.component \in Components
  PROVE  ServingOK' /\ FieldsOK'
<1>1. ServingOK'
  BY PutType DEF ServingOK, Begin, Put
<1>2. FieldsOK'
  BY DEF FieldsOK, Begin, Put, Idle
<1> QED BY <1>1, <1>2

LEMMA AdvanceType ==
  ASSUME ServingOK, FieldsOK, NEW r \in DOMAIN serving, NEW step \in Steps, Advance(r, step),
         step \in TeamSteps => serving[r].step \in TeamSteps,
         step # "component_insert"
  PROVE  ServingOK' /\ FieldsOK'
<1>1. ServingOK'
  BY StepType DEF ServingOK, Advance
<1>2. \A s \in DOMAIN serving : s # r => serving'[s] = serving[s]
  BY DEF ServingOK, Advance
<1>3. serving'[r].step = step /\ serving'[r].team = serving[r].team
  BY DEF ServingOK, Advance, Serving
<1>4. FieldsOK'
  BY <1>2, <1>3 DEF FieldsOK, Advance
<1> QED BY <1>1, <1>4

LEMMA AnswerType ==
  ASSUME ServingOK, FieldsOK, NEW r, Answer(r)
  PROVE  ServingOK' /\ FieldsOK'
BY DEF ServingOK, FieldsOK, Answer, Without, Restrict

-----------------------------------------------------------------------------
(* The invariant: types, the reserved teams, and no account without teams. *)

NobodyTeamless == \A u \in Users : users[u] # <<>>

IInv == TypeOK /\ FieldsOK /\ ReservedRemain /\ NobodyTeamless

LEMMA InitIInv == Init => IInv
<1> SUFFICES ASSUME Init PROVE IInv
  OBVIOUS
<1>1. <<TeamAny>> \in Seq(AllNames) /\ <<TeamAny>> # <<>>
  BY TeamNames
<1>2. 1 \in 1..(MaxIssues + 1)
  BY DirectoryAssumption
<1>3. TypeOK
  BY <1>1, <1>2, DirectoryAssumption DEF Init, TypeOK, NoRows, AllNames
<1> QED BY <1>1, <1>3 DEF IInv, Init, FieldsOK, ReservedRemain, NobodyTeamless, NoRows

\* An action that leaves requests alone, or only the tables that it writes.
LEMMA ServingKept == ASSUME ServingOK, FieldsOK, UNCHANGED serving PROVE ServingOK' /\ FieldsOK'
BY DEF ServingOK, FieldsOK

LEMMA RenameStep ==
  ASSUME IInv, NEW old, NEW new \in AllNames, RenameTeam(old, new)
  PROVE  IInv'
<1>1. /\ TypeOK /\ ServingOK /\ FieldsOK /\ Reserved \subseteq teams /\ teams \subseteq AllNames
      /\ old \in Names /\ old \notin Reserved
  BY DirectoryAssumption DEF IInv, TypeOK, ServingOK, ReservedRemain, RenameTeam, Renamable
<1>2. ServingOK' /\ FieldsOK'
  BY <1>1, ServingKept DEF RenameTeam
<1>3. teams' \subseteq AllNames /\ Reserved \subseteq teams'
  BY <1>1 DEF RenameTeam
<1>4. users' \in [Users -> Seq(AllNames)] /\ \A u \in Users : users'[u] # <<>>
  BY <1>1, RenamedType DEF RenameTeam, TypeOK, IInv, NobodyTeamless
<1>5. DOMAIN projects' = DOMAIN projects /\ projects' \in [DOMAIN projects -> Seq(AllNames)]
  BY <1>1, RenamedType DEF RenameTeam, TypeOK
<1>6. DOMAIN issues' = DOMAIN issues /\ issues' \in [DOMAIN issues -> IssueRow]
  <2>1. ASSUME NEW i \in DOMAIN issues
        PROVE  [issues[i] EXCEPT !.teams = Renamed(@, old, new)] \in IssueRow
    <3>1. issues[i] \in IssueRow
      BY <1>1 DEF TypeOK
    <3> QED BY <3>1, RenamedType DEF IssueRow
  <2> QED BY <2>1 DEF RenameTeam
<1>7. TypeOK'
  BY <1>1, <1>2, <1>3, <1>4, <1>5, <1>6 DEF RenameTeam, TypeOK, ServingOK
<1> QED BY <1>2, <1>3, <1>4, <1>7 DEF IInv, ReservedRemain, NobodyTeamless

LEMMA AtOnceStep ==
  ASSUME IInv, NEW r, AtOnce(r)
  PROVE  IInv'
<1>1. TypeOK /\ ServingOK /\ FieldsOK /\ ReservedRemain /\ NobodyTeamless
  BY DEF IInv, TypeOK, ServingOK
<1>2. CASE CreateTeam
  BY <1>1, <1>2, ServingKept
     DEF IInv, CreateTeam, TypeOK, ServingOK, ReservedRemain, NobodyTeamless, AllNames
<1>3. CASE SetUserTeams
  <2>1. PICK u \in Users, list \in Lists \cup {<<>>}, isAdmin \in BOOLEAN :
          users' = [users EXCEPT ![u] = FormatTeams(MergeAdminAlias(list, isAdmin))]
    BY <1>3 DEF SetUserTeams
  <2> DEFINE new == FormatTeams(MergeAdminAlias(list, isAdmin))
  <2>2. new \in Seq(AllNames) /\ new # <<>>
    BY ListTypes, MergeAdminAliasType, FormatTeamsType
  <2> HIDE DEF new
  <2>3. users' \in [Users -> Seq(AllNames)] /\ NobodyTeamless'
    BY <1>1, <2>1, <2>2 DEF TypeOK, NobodyTeamless, new
  <2> QED BY <1>1, <1>3, <2>3, ServingKept DEF IInv, SetUserTeams, TypeOK, ServingOK, ReservedRemain
<1>4. CASE CreateProject
  <2>1. PICK p \in Projects \ DOMAIN projects, list \in Lists \cup {<<>>} :
          projects' = Put(projects, p, FormatTeams(list))
    BY <1>4 DEF CreateProject
  <2>2. FormatTeams(list) \in Seq(AllNames)
    BY ListTypes, FormatTeamsType
  <2>3. DOMAIN projects' \subseteq Projects /\ projects' \in [DOMAIN projects' -> Seq(AllNames)]
    BY <1>1, <2>1, <2>2, PutType DEF TypeOK, Put
  <2> QED BY <1>1, <1>4, <2>3, ServingKept
          DEF IInv, CreateProject, TypeOK, ServingOK, ReservedRemain, NobodyTeamless
<1>5. CASE SetProjectTeams
  <2>1. PICK p \in DOMAIN projects, list \in Lists \cup {<<>>} :
          projects' = Update(projects, p, FormatTeams(list))
    BY <1>5 DEF SetProjectTeams
  <2>2. FormatTeams(list) \in Seq(AllNames)
    BY ListTypes, FormatTeamsType
  <2>3. DOMAIN projects' \subseteq Projects /\ projects' \in [DOMAIN projects' -> Seq(AllNames)]
    BY <1>1, <2>1, <2>2 DEF TypeOK, Update
  <2> QED BY <1>1, <1>5, <2>3, ServingKept
          DEF IInv, SetProjectTeams, TypeOK, ServingOK, ReservedRemain, NobodyTeamless
<1>6. CASE DeleteIssue
  <2>1. DOMAIN issues' \subseteq DOMAIN issues /\ issues' \in [DOMAIN issues' -> IssueRow]
    BY <1>1, <1>6 DEF DeleteIssue, TypeOK, Without, Restrict
  <2> QED BY <1>1, <1>6, <2>1, ServingKept
          DEF IInv, DeleteIssue, TypeOK, ServingOK, ReservedRemain, NobodyTeamless
<1>7. CASE \E old, new \in AllNames : RenameTeam(old, new)
  BY <1>7, RenameStep
<1> QED BY <1>2, <1>3, <1>4, <1>5, <1>6, <1>7 DEF AtOnce

\* Actions that only begin, advance or answer a request.
LEMMA ServingStep ==
  ASSUME IInv, NEW r \in Requests,
         \/ DeleteTeamUsers(r) \/ DeleteTeamProjects(r) \/ DeleteTeamIssues(r)
         \/ UpdateUserRead(r) \/ AddComponentCount(r)
         \/ DeleteProjectIssues(r) \/ DeleteComponentIssues(r)
         \/ CreateIssueAuth(r) \/ CreateIssueProject(r)
         \/ UpdateIssueAuth(r) \/ UpdateIssueRead(r) \/ Abort(r)
  PROVE  /\ ServingOK' /\ FieldsOK'
         /\ UNCHANGED <<teams, users, projects, components, issues, nextIssue>>
<1>1. TypeOK /\ ServingOK /\ FieldsOK
  BY DEF IInv, TypeOK, ServingOK
<1>2. \A u \in Users : users[u] \in Seq(AllNames)
  BY <1>1 DEF TypeOK
<1>3. \A i \in DOMAIN issues : i \in 0..MaxIssues
  BY <1>1, DirectoryAssumption DEF TypeOK
<1>4. ASSUME NEW q \in Serving, Begin(r, q),
             q.step \in TeamSteps => q.team \in Names,
             q.step = "component_insert" => q.project \in Projects /\ q.component \in Components
      PROVE  ServingOK' /\ FieldsOK'
  BY <1>1, <1>4, BeginType
<1>5. CASE DeleteTeamUsers(r)
  <2>1. PICK t \in Names :
          IF Counts(t, UserLists) THEN Idle(r) /\ UNCHANGED serving
          ELSE Begin(r, [NoRequest EXCEPT !.step = "team_projects", !.team = t])
    BY <1>5 DEF DeleteTeamUsers
  <2> DEFINE q == [NoRequest EXCEPT !.step = "team_projects", !.team = t]
  <2>2. q \in Serving /\ q.step = "team_projects" /\ q.team = t
    BY NoRequestType DEF Steps, NoRequest, Serving
  <2> HIDE DEF q
  <2>3. CASE Begin(r, q)
    BY <1>4, <1>5, <2>2, <2>3 DEF DeleteTeamUsers
  <2>4. CASE UNCHANGED serving
    BY <1>1, <1>5, <2>4, ServingKept DEF DeleteTeamUsers
  <2> QED BY <2>1, <2>3, <2>4 DEF q
<1>6. CASE DeleteTeamProjects(r)
  BY <1>1, <1>6, AdvanceType, AnswerType DEF DeleteTeamProjects, At, Steps, TeamSteps
<1>7. CASE DeleteTeamIssues(r)
  BY <1>1, <1>7, AdvanceType, AnswerType DEF DeleteTeamIssues, At, Steps, TeamSteps
<1>8. CASE UpdateUserRead(r)
  <2>1. PICK u \in Users, isAdmin \in BOOLEAN :
          Begin(r, [NoRequest EXCEPT !.step = "user_write", !.user = u, !.list = users[u],
                                     !.admin = isAdmin])
    BY <1>8 DEF UpdateUserRead
  <2> DEFINE q == [NoRequest EXCEPT !.step = "user_write", !.user = u, !.list = users[u],
                                    !.admin = isAdmin]
  <2>2. q \in Serving /\ q.step = "user_write"
    BY <1>2, NoRequestType DEF Steps, NoRequest, Serving
  <2> HIDE DEF q
  <2> QED BY <1>4, <1>8, <2>1, <2>2 DEF UpdateUserRead, TeamSteps, q
<1>9. CASE AddComponentCount(r)
  <2>1. PICK p \in DOMAIN projects, c \in Components :
          Begin(r, [NoRequest EXCEPT !.step = "component_insert", !.project = p, !.component = c])
    BY <1>9 DEF AddComponentCount
  <2> DEFINE q == [NoRequest EXCEPT !.step = "component_insert", !.project = p, !.component = c]
  <2>2. q \in Serving /\ q.step = "component_insert" /\ q.project \in Projects /\ q.component \in Components
    BY <1>1, NoRequestType DEF TypeOK, Steps, NoRequest, Serving
  <2> HIDE DEF q
  <2> QED BY <1>4, <1>9, <2>1, <2>2 DEF AddComponentCount, TeamSteps, q
<1>10. CASE DeleteProjectIssues(r)
  <2>1. PICK p \in Projects :
          Begin(r, [NoRequest EXCEPT !.step = "project_components", !.project = p])
    BY <1>10 DEF DeleteProjectIssues
  <2> DEFINE q == [NoRequest EXCEPT !.step = "project_components", !.project = p]
  <2>2. q \in Serving /\ q.step = "project_components"
    BY NoRequestType DEF Steps, NoRequest, Serving
  <2> HIDE DEF q
  <2> QED BY <1>4, <1>10, <2>1, <2>2 DEF DeleteProjectIssues, TeamSteps, q
<1>11. CASE DeleteComponentIssues(r)
  <2>1. PICK p \in Projects, c \in Components :
          Begin(r, [NoRequest EXCEPT !.step = "component_row", !.project = p, !.component = c])
    BY <1>11 DEF DeleteComponentIssues
  <2> DEFINE q == [NoRequest EXCEPT !.step = "component_row", !.project = p, !.component = c]
  <2>2. q \in Serving /\ q.step = "component_row"
    BY NoRequestType DEF Steps, NoRequest, Serving
  <2> HIDE DEF q
  <2> QED BY <1>4, <1>11, <2>1, <2>2 DEF DeleteComponentIssues, TeamSteps, q
<1>12. CASE CreateIssueAuth(r)
  <2>1. PICK u \in Users, p \in Projects \cup {NoName}, c \in Components \cup {NoName} :
          Begin(r, [NoRequest EXCEPT !.step = "issue_project", !.caller = users[u],
                                     !.project = p, !.component = c])
    BY <1>12 DEF CreateIssueAuth
  <2> DEFINE q == [NoRequest EXCEPT !.step = "issue_project", !.caller = users[u],
                                    !.project = p, !.component = c]
  <2>2. q \in Serving /\ q.step = "issue_project"
    BY <1>2, NoRequestType DEF Steps, NoRequest, Serving
  <2> HIDE DEF q
  <2> QED BY <1>4, <1>12, <2>1, <2>2 DEF CreateIssueAuth, TeamSteps, q
<1>13. CASE CreateIssueProject(r)
  BY <1>1, <1>13, AdvanceType, AnswerType DEF CreateIssueProject, At, Steps, TeamSteps
<1>14. CASE UpdateIssueAuth(r)
  <2>1. PICK u \in Users, i \in DOMAIN issues :
          Begin(r, [NoRequest EXCEPT !.step = "issue_read", !.caller = users[u], !.issue = i])
    BY <1>14 DEF UpdateIssueAuth
  <2> DEFINE q == [NoRequest EXCEPT !.step = "issue_read", !.caller = users[u], !.issue = i]
  <2>2. q \in Serving /\ q.step = "issue_read"
    BY <1>2, <1>3, NoRequestType DEF Steps, NoRequest, Serving
  <2> HIDE DEF q
  <2> QED BY <1>4, <1>14, <2>1, <2>2 DEF UpdateIssueAuth, TeamSteps, q
<1>15. CASE UpdateIssueRead(r)
  <2>1. CASE Answer(r)
    BY <1>1, <1>15, <2>1, AnswerType DEF UpdateIssueRead
  <2>2. ASSUME NEW p \in Projects \cup {NoName}, NEW c \in Components \cup {NoName},
               NEW list \in Lists \cup {<<>>},
               serving' = [serving EXCEPT ![r].step = "issue_write", ![r].project = p,
                                          ![r].component = c, ![r].list = list]
        PROVE  ServingOK' /\ FieldsOK'
    <3> DEFINE q == [serving[r] EXCEPT !.step = "issue_write", !.project = p, !.component = c,
                                       !.list = list]
    <3>1. serving[r] \in Serving /\ r \in DOMAIN serving
      BY <1>1, <1>15 DEF UpdateIssueRead, At, ServingOK
    <3>2. q \in Serving /\ q.step = "issue_write"
      BY <3>1, ListTypes DEF Serving
    <3>3. serving' = [serving EXCEPT ![r] = q]
      BY <2>2
    <3> HIDE DEF q
    <3> QED BY <1>1, <3>1, <3>2, <3>3 DEF ServingOK, FieldsOK, TeamSteps
  <2> QED BY <1>15, <2>1, <2>2 DEF UpdateIssueRead
<1>16. CASE Abort(r)
  BY <1>1, <1>16, AnswerType DEF Abort
<1> QED
  BY <1>5, <1>6, <1>7, <1>8, <1>9, <1>10, <1>11, <1>12, <1>13, <1>14, <1>15, <1>16

\* The statements that write.
LEMMA WriteStep ==
  ASSUME IInv, NEW r \in Requests,
         \/ DeleteTeamRow(r) \/ UpdateUserWrite(r) \/ AddComponentInsert(r)
         \/ DeleteProjectComponents(r) \/ DeleteProjectRow(r) \/ DeleteComponentRow(r)
         \/ CreateIssueInsert(r) \/ UpdateIssueWrite(r)
  PROVE  IInv'
<1>1. TypeOK /\ ServingOK /\ FieldsOK /\ ReservedRemain /\ NobodyTeamless
  BY DEF IInv, TypeOK, ServingOK
<1>2. r \in DOMAIN serving /\ serving[r] \in Serving
  BY <1>1 DEF ServingOK, At, DeleteTeamRow, UpdateUserWrite, AddComponentInsert,
     DeleteProjectComponents, DeleteProjectRow, DeleteComponentRow, CreateIssueInsert,
     UpdateIssueWrite
<1>3. ServingOK' /\ FieldsOK'
  BY <1>1, <1>2, AdvanceType, AnswerType DEF At, Steps, TeamSteps, DeleteTeamRow, UpdateUserWrite,
     AddComponentInsert, DeleteProjectComponents, DeleteProjectRow, DeleteComponentRow,
     CreateIssueInsert, UpdateIssueWrite
<1> USE <1>1, <1>2, <1>3 DEF IInv, TypeOK, ServingOK, ReservedRemain, NobodyTeamless
<1>4. CASE DeleteTeamRow(r)
  <2>1. serving[r].team \notin Reserved
    BY <1>4, DirectoryAssumption DEF DeleteTeamRow, At, FieldsOK, TeamSteps
  <2> QED BY <1>4, <2>1 DEF DeleteTeamRow
<1>5. CASE UpdateUserWrite(r)
  <2> DEFINE list == serving[r].list
             effective == IF ~serving[r].admin THEN Filter(list, AllNames \ {TeamAdmin})
                          ELSE MergeAdminAlias(list, TRUE)
             new == FormatTeams(effective)
  <2>1. list \in Seq(AllNames)
    BY DEF Serving
  <2>2. effective \in Seq(AllNames)
    BY <2>1, FilterMembers, MergeAdminAliasType
  <2>3. new \in Seq(AllNames) /\ new # <<>>
    BY <2>2, FormatTeamsType
  <2>4. users' = [users EXCEPT ![serving[r].user] = new]
    BY <1>5 DEF UpdateUserWrite
  <2> HIDE DEF new
  <2>5. users' \in [Users -> Seq(AllNames)] /\ NobodyTeamless'
    BY <2>3, <2>4
  <2> QED BY <1>5, <2>5 DEF UpdateUserWrite
<1>6. CASE AddComponentInsert(r)
  BY <1>6 DEF AddComponentInsert, At, FieldsOK
<1>7. CASE DeleteProjectComponents(r)
  BY <1>7 DEF DeleteProjectComponents
<1>8. CASE DeleteProjectRow(r)
  <2>1. DOMAIN projects' \subseteq Projects /\ projects' \in [DOMAIN projects' -> Seq(AllNames)]
    BY <1>8 DEF DeleteProjectRow, Without, Restrict
  <2> QED BY <1>8, <2>1 DEF DeleteProjectRow
<1>9. CASE DeleteComponentRow(r)
  BY <1>9 DEF DeleteComponentRow
<1>10. CASE CreateIssueInsert(r)
  <2> DEFINE row == [project |-> serving[r].project, component |-> serving[r].component,
                     teams |-> <<TeamAny>>]
  <2>1. row \in IssueRow
    BY TeamNames DEF IssueRow, Serving
  <2>2. issues' = Put(issues, nextIssue, row)
    BY <1>10 DEF CreateIssueInsert
  <2> HIDE DEF row
  <2>3. DOMAIN issues' = DOMAIN issues \cup {nextIssue} /\ issues' \in [DOMAIN issues' -> IssueRow]
    BY <2>1, <2>2, PutType DEF Put
  <2>4. nextIssue' \in 1..(MaxIssues + 1) /\ DOMAIN issues' \subseteq 1..(nextIssue' - 1)
    BY <1>10, <2>3, DirectoryAssumption DEF CreateIssueInsert
  <2> QED BY <1>10, <2>3, <2>4 DEF CreateIssueInsert
<1>11. CASE UpdateIssueWrite(r)
  <2> DEFINE i == serving[r].issue
             list == IF serving[r].list = <<>> THEN issues[i].teams ELSE FormatTeams(serving[r].list)
             row == [project |-> serving[r].project, component |-> serving[r].component,
                     teams |-> list]
  <2>1. issues' = Update(issues, i, row)
    BY <1>11 DEF UpdateIssueWrite
  <2>2. ASSUME i \in DOMAIN issues PROVE row \in IssueRow
    <3>1. issues[i].teams \in Seq(AllNames)
      BY <2>2 DEF IssueRow
    <3>2. list \in Seq(AllNames)
      BY <3>1, FormatTeamsType DEF Serving
    <3> HIDE DEF list
    <3> QED BY <3>2 DEF IssueRow, Serving
  <2> HIDE DEF row, i
  <2>3. DOMAIN issues' = DOMAIN issues /\ issues' \in [DOMAIN issues' -> IssueRow]
    BY <2>1, <2>2 DEF Update
  <2> QED BY <1>11, <2>3 DEF UpdateIssueWrite
<1> QED BY <1>4, <1>5, <1>6, <1>7, <1>8, <1>9, <1>10, <1>11

LEMMA NextIInv == IInv /\ [Next]_vars => IInv'
<1> SUFFICES ASSUME IInv, [Next]_vars PROVE IInv'
  OBVIOUS
<1>1. CASE UNCHANGED vars
  BY <1>1 DEF vars, IInv, TypeOK, FieldsOK, ReservedRemain, NobodyTeamless
<1>2. ASSUME NEW r \in Requests, ServingOK', FieldsOK',
             UNCHANGED <<teams, users, projects, components, issues, nextIssue>>
      PROVE  IInv'
  BY <1>2 DEF IInv, TypeOK, ServingOK, ReservedRemain, NobodyTeamless
<1>3. CASE Next
  BY <1>2, <1>3, AtOnceStep, ServingStep, WriteStep DEF Next
<1> QED BY <1>1, <1>3

LEMMA Invariance == Spec => []IInv
BY InitIInv, NextIInv, PTL DEF Spec

\* The reserved teams "admin" and "any" are always registered: neither a
\* deletion, however it interleaves with others, nor any chain of renames
\* (UpdateTeam, DeleteTeam) removes one.
THEOREM ReservedTeamsRemain == Spec => []ReservedRemain
BY Invariance, PTL DEF IInv

-----------------------------------------------------------------------------
(* Who sees what.                                                          *)

\* The pattern of a name matches the name, and without wildcards nothing else.
LEMMA NameLike ==
  ASSUME NEW list \in Seq(AllNames), NEW name \in AllNames
  PROVE  /\ ContainsTeam(list, name) => Like(list, name)
         /\ Likes[name] = {<<name>>} /\ Like(list, name) => ContainsTeam(list, name)
<1>1. DOMAIN list = 1..Len(list) /\ Len(list) \in Nat
  OBVIOUS
<1>2. ASSUME NEW i \in DOMAIN list, NEW j \in DOMAIN list, i <= j, SubSeq(list, i, j) = <<name>>
      PROVE  list[i] = name
  <2>1. SubSeq(list, i, j)[1] = list[i]
    <3>1. 1 \in 1..(j - i + 1) /\ i + 1 - 1 = i
      BY <1>1, <1>2
    <3>2. \A k \in i..j : list[k] \in AllNames
      BY <1>1
    <3>3. \A k \in 1..(j - i + 1) : SubSeq(list, i, j)[k] = list[i + k - 1]
      BY <1>1, <3>2, SubSeqProperties
    <3> QED BY <3>1, <3>3
  <2> QED BY <1>2, <2>1
<1>3. ASSUME NEW i \in DOMAIN list, list[i] = name
      PROVE  SubSeq(list, i, i) = <<name>>
  <2>1. i \in 1..Len(list)
    BY <1>1, <1>3
  <2> QED BY <1>3, <2>1, SubSeqOfOne
<1>4. ASSUME Like(list, name), Likes[name] = {<<name>>} PROVE ContainsTeam(list, name)
  <2>1. PICK i \in DOMAIN list : list[i] = name
    BY <1>2, <1>4 DEF Like
  <2> QED BY <2>1 DEF ContainsTeam, ToSet
<1>5. ASSUME ContainsTeam(list, name) PROVE Like(list, name)
  <2>1. PICK i \in DOMAIN list : list[i] = name
    BY <1>5 DEF ContainsTeam, ToSet
  <2>2. i <= i /\ SubSeq(list, i, i) \in Likes[name]
    <3>1. <<name>> \in Likes[name]
      BY DirectoryAssumption
    <3>2. SubSeq(list, i, i) = <<name>>
      BY <1>3, <2>1
    <3>3. i <= i
      BY <1>1
    <3> QED BY <3>1, <3>2, <3>3, Zenon
  <2> QED BY <2>2 DEF Like
<1> QED BY <1>4, <1>5

\* The two rules, for a list and a user who has a team.
LEMMA RulesAgreeOnLists ==
  ASSUME NEW list \in Seq(AllNames), NEW own \in Seq(AllNames), own # <<>>
  PROVE  /\ Matches(list, own) => MatchesWhereClause(list, own)
         /\ MatchesWhereClause(list, own) /\ Plain(own) => Matches(list, own)
<1>1. TeamAny \in AllNames /\ \A t \in ToSet(own) : t \in AllNames
  BY TeamNames DEF ToSet
<1>2. Likes[TeamAny] = {<<TeamAny>>}
  BY DirectoryAssumption DEF Reserved
<1>3. \A t \in ToSet(own) \cup {TeamAny} : ContainsTeam(list, t) => Like(list, t)
  BY <1>1, NameLike
<1>4. ASSUME Plain(own), NEW t \in ToSet(own) \cup {TeamAny}, Like(list, t)
      PROVE  ContainsTeam(list, t)
  BY <1>1, <1>2, <1>4, NameLike DEF Plain
<1> QED BY <1>3, <1>4 DEF MatchesWhereClause, Matches, ContainsTeam

\* The filter in SQL never hides from a user what the filter in Go lets him see,
\* and shows him nothing else unless one of his teams has a wildcard of LIKE in
\* its name (buildWhereClause, IssueMatchesUserTeams), whatever commands, edits
\* and renames, overlapping or cut off, have made of the team lists.
THEOREM OneRuleOfSight == Spec => []RulesAgree
<1>1. IInv => RulesAgree
  <2> SUFFICES ASSUME IInv, NEW u \in Users, NEW i \in DOMAIN issues
               PROVE  /\ Matches(issues[i].teams, users[u])
                           => MatchesWhereClause(issues[i].teams, users[u])
                      /\ MatchesWhereClause(issues[i].teams, users[u]) /\ Plain(users[u])
                           => Matches(issues[i].teams, users[u])
    BY DEF RulesAgree, IInv
  <2>1. issues[i].teams \in Seq(AllNames) /\ users[u] \in Seq(AllNames) /\ users[u] # <<>>
    BY DEF IInv, TypeOK, IssueRow, NobodyTeamless
  <2> QED BY <2>1, RulesAgreeOnLists
<1> QED BY <1>1, Invariance, PTL

-----------------------------------------------------------------------------
(* Renaming a team.  The least-number principle finds the start of a run.  *)

LEMMA RunStarts ==
  ASSUME NEW list \in Seq(AllNames), NEW i \in DOMAIN list
  PROVE  /\ RunStart(list, i) \in 1..i
         /\ list[RunStart(list, i)] = list[i]
         /\ RunStart(list, RunStart(list, i)) = RunStart(list, i)
<1> DEFINE Begins(j, n) == /\ \A k \in j..n : list[k] = list[n]
                           /\ j > 1 => list[j - 1] # list[n]
           T == {j \in 1..i : \A k \in j..i : list[k] = list[i]}
<1>1. i \in Nat /\ i >= 1 /\ T \subseteq Nat
  OBVIOUS
<1>2. i \in T
  BY <1>1
<1>3. PICK j \in T : \A k \in T : j <= k
  <2> HIDE DEF T
  <2> QED BY <1>1, <1>2, LeastNumber
<1>4. j > 1 => list[j - 1] # list[i]
  <2>1. ASSUME j > 1, list[j - 1] = list[i] PROVE j - 1 \in T
    <3>1. \A k \in (j - 1)..i : k = j - 1 \/ k \in j..i
      BY <1>1
    <3> QED BY <1>1, <1>3, <2>1, <3>1
  <2> QED BY <1>1, <1>3, <2>1
<1>5. \E n \in 1..i : Begins(n, i)
  BY <1>3, <1>4
<1>6. RunStart(list, i) \in 1..i /\ Begins(RunStart(list, i), i)
  BY <1>5 DEF RunStart
<1> DEFINE s == RunStart(list, i)
<1>7. s \in 1..i /\ list[s] = list[i] /\ Begins(s, i)
  BY <1>1, <1>6
<1> HIDE DEF s
<1>8. Begins(s, s)
  BY <1>1, <1>7
<1>9. \A n \in 1..s : Begins(n, s) => n = s
  <2> SUFFICES ASSUME NEW n \in 1..s, Begins(n, s), n # s PROVE FALSE
    OBVIOUS
  <2>1. s - 1 \in n..s /\ s > 1
    BY <1>1, <1>7
  <2> QED BY <1>7, <2>1
<1>10. s \in 1..s
  BY <1>1, <1>7
<1>11. RunStart(list, s) = s
  BY <1>8, <1>9, <1>10 DEF RunStart
<1> QED BY <1>7, <1>11 DEF s

\* Renaming a team in a list that does not name the new one yet: the list names
\* the new team if it named the old one, and other teams as before.
LEMMA RenamedMembers ==
  ASSUME NEW list \in Seq(AllNames), NEW old, NEW new \in AllNames, new # old,
         new \notin ToSet(list)
  PROVE  LET renamed == Renamed(list, old, new) IN
         /\ \A t : t \notin {old, new} => (t \in ToSet(renamed) <=> t \in ToSet(list))
         /\ new \in ToSet(renamed) <=> old \in ToSet(list)
         /\ old \in ToSet(renamed) => old \in ToSet(list)
         /\ IsInjective(list) => old \notin ToSet(renamed)
<1> DEFINE renamed == Renamed(list, old, new)
<1>1. DOMAIN renamed = DOMAIN list /\ DOMAIN list = 1..Len(list)
  BY RenamedType
<1>2. \A i \in DOMAIN list :
        renamed[i] = IF list[i] = old /\ (i - RunStart(list, i)) % 2 = 0 THEN new ELSE list[i]
  BY DEF Renamed
<1> HIDE DEF renamed
<1>3. ASSUME NEW t, t \notin {old, new} PROVE t \in ToSet(renamed) <=> t \in ToSet(list)
  BY <1>1, <1>2, <1>3 DEF ToSet
<1>4. ASSUME new \in ToSet(renamed) PROVE old \in ToSet(list)
  BY <1>1, <1>2, <1>4 DEF ToSet
<1>5. ASSUME old \in ToSet(list) PROVE new \in ToSet(renamed)
  <2>1. PICK i \in DOMAIN list : list[i] = old
    BY <1>5 DEF ToSet
  <2> DEFINE s == RunStart(list, i)
  <2>2. s \in DOMAIN list /\ list[s] = old /\ RunStart(list, s) = s /\ s - s = 0
    BY <1>1, <2>1, RunStarts
  <2> HIDE DEF s
  <2>3. renamed[s] = new
    BY <1>2, <2>2
  <2> QED BY <1>1, <2>2, <2>3 DEF ToSet
<1>6. ASSUME old \in ToSet(renamed) PROVE old \in ToSet(list)
  BY <1>1, <1>2, <1>6 DEF ToSet
<1>7. ASSUME IsInjective(list), old \in ToSet(renamed) PROVE FALSE
  <2>1. PICK i \in DOMAIN list : renamed[i] = old
    BY <1>1, <1>7 DEF ToSet
  <2>2. RunStart(list, i) \in DOMAIN list /\ list[RunStart(list, i)] = list[i]
    BY <1>1, RunStarts
  <2>3. RunStart(list, i) = i
    BY <1>7, <2>2 DEF IsInjective
  <2>4. (i - RunStart(list, i)) % 2 = 0
    BY <1>1, <2>3
  <2> QED BY <1>2, <2>1, <2>4
<1> QED BY <1>3, <1>4, <1>5, <1>6, <1>7 DEF renamed

\* A rename to a name that neither list has leaves what one lets the other see.
LEMMA RenamedMatches ==
  ASSUME NEW list \in Seq(AllNames), NEW own \in Seq(AllNames),
         NEW old \in Names, NEW new \in Names, new # old,
         new \notin ToSet(list), new \notin ToSet(own)
  PROVE  Matches(Renamed(list, old, new), Renamed(own, old, new)) = Matches(list, own)
<1>1. /\ old \in AllNames /\ new \in AllNames
      /\ TeamAdmin \notin {old, new} /\ TeamAny \notin {old, new}
  BY TeamNames DEF AllNames
<1> DEFINE list2 == ToSet(Renamed(list, old, new))
           own2 == ToSet(Renamed(own, old, new))
<1>2. /\ \A t : t \notin {old, new} => (t \in list2 <=> t \in ToSet(list))
      /\ new \in list2 <=> old \in ToSet(list)
      /\ old \in list2 => old \in ToSet(list)
  BY <1>1, RenamedMembers
<1>3. /\ \A t : t \notin {old, new} => (t \in own2 <=> t \in ToSet(own))
      /\ new \in own2 <=> old \in ToSet(own)
      /\ old \in own2 => old \in ToSet(own)
  BY <1>1, RenamedMembers
<1> HIDE DEF list2, own2
<1>4. own2 \cap list2 # {} <=> ToSet(own) \cap ToSet(list) # {}
  BY <1>2, <1>3
<1>5. /\ TeamAdmin \in own2 <=> TeamAdmin \in ToSet(own)
      /\ TeamAny \in own2 <=> TeamAny \in ToSet(own)
      /\ TeamAny \in list2 <=> TeamAny \in ToSet(list)
  BY <1>1, <1>2, <1>3
<1> QED BY <1>4, <1>5 DEF Matches, ContainsTeam, list2, own2

\* Renaming a team to a name that nobody uses changes what nobody may see, and
\* leaves no trace of the old name in lists that name no team twice: UpdateTeam's
\* string surgery, for lists of any length.
THEOREM RenamesKeepSight == Spec => RenameKeepsSight
<1>1. ASSUME TypeOK, NEW old \in Names, NEW new \in Names,
             RenameTeam(old, new), ~UsedIn(new, AllLists)
      PROVE  /\ \A u \in Users :
                  /\ \A p \in DOMAIN projects :
                       Matches(projects'[p], users'[u]) = Matches(projects[p], users[u])
                  /\ \A i \in DOMAIN issues :
                       Matches(issues'[i].teams, users'[u]) = Matches(issues[i].teams, users[u])
             /\ Distinct(AllLists) => ~UsedIn(old, AllLists')
  <2>1. new # old /\ new \in AllNames
    BY <1>1 DEF RenameTeam, AllNames
  <2>2. /\ \A u \in Users : users[u] \in Seq(AllNames) /\ new \notin ToSet(users[u])
        /\ \A p \in DOMAIN projects : projects[p] \in Seq(AllNames) /\ new \notin ToSet(projects[p])
        /\ \A i \in DOMAIN issues :
             issues[i].teams \in Seq(AllNames) /\ new \notin ToSet(issues[i].teams)
    BY <1>1 DEF TypeOK, IssueRow, UsedIn, AllLists, UserLists, ProjectLists, IssueLists, ContainsTeam
  <2>3. /\ \A u \in Users : users'[u] = Renamed(users[u], old, new)
        /\ DOMAIN projects' = DOMAIN projects
        /\ \A p \in DOMAIN projects : projects'[p] = Renamed(projects[p], old, new)
        /\ DOMAIN issues' = DOMAIN issues
        /\ \A i \in DOMAIN issues : issues'[i].teams = Renamed(issues[i].teams, old, new)
    BY <1>1 DEF RenameTeam, TypeOK, IssueRow
  <2>4. ASSUME NEW u \in Users, NEW p \in DOMAIN projects
        PROVE  Matches(projects'[p], users'[u]) = Matches(projects[p], users[u])
    BY <2>1, <2>2, <2>3, RenamedMatches
  <2>5. ASSUME NEW u \in Users, NEW i \in DOMAIN issues
        PROVE  Matches(issues'[i].teams, users'[u]) = Matches(issues[i].teams, users[u])
    BY <2>1, <2>2, <2>3, RenamedMatches
  <2>6. ASSUME Distinct(AllLists) PROVE ~UsedIn(old, AllLists')
    <3>1. ASSUME NEW l \in AllLists, l \in Seq(AllNames), new \notin ToSet(l)
          PROVE  old \notin ToSet(Renamed(l, old, new))
      BY <2>1, <2>6, <3>1, RenamedMembers DEF Distinct
    <3>2. ASSUME NEW u \in Users PROVE old \notin ToSet(users'[u])
      BY <2>2, <2>3, <3>1 DEF AllLists, UserLists
    <3>3. ASSUME NEW p \in DOMAIN projects PROVE old \notin ToSet(projects'[p])
      BY <2>2, <2>3, <3>1 DEF AllLists, ProjectLists
    <3>4. ASSUME NEW i \in DOMAIN issues PROVE old \notin ToSet(issues'[i].teams)
      BY <2>2, <2>3, <3>1 DEF AllLists, IssueLists
    <3> QED BY <2>3, <3>2, <3>3, <3>4
            DEF UsedIn, AllLists, UserLists, ProjectLists, IssueLists, ContainsTeam
  <2> QED BY <2>4, <2>5, <2>6
<1>2. TypeOK => [\A old, new \in Names :
       RenameTeam(old, new) /\ ~UsedIn(new, AllLists) =>
         /\ \A u \in Users :
              /\ \A p \in DOMAIN projects :
                   Matches(projects'[p], users'[u]) = Matches(projects[p], users[u])
              /\ \A i \in DOMAIN issues :
                   Matches(issues'[i].teams, users'[u]) = Matches(issues[i].teams, users[u])
         /\ Distinct(AllLists) => ~UsedIn(old, AllLists')]_vars
  BY <1>1
<1> QED BY <1>2, Invariance, PTL DEF RenameKeepsSight, IInv

-----------------------------------------------------------------------------
(* One request at a time, cut off at any statement.  (With two, a component *)
(* may be added to a project that is being deleted.)                       *)

\* What the request being served has made sure of.
CountsHold ==
  \A r \in DOMAIN serving :
    LET q == serving[r] IN
    /\ q.step = "component_insert" => q.project \in DOMAIN projects
    /\ q.step = "project_row" => \A pc \in components : pc[1] # q.project

SerialInv == IInv /\ ComponentsHaveProject /\ CountsHold

\* Nobody is left to account for.
LEMMA SerialAnswer ==
  ASSUME NEW r, \A s \in DOMAIN serving : s = r, Answer(r)
  PROVE  CountsHold'
<1>1. DOMAIN serving' = {}
  BY DEF Answer, Without, Restrict
<1> QED BY <1>1 DEF CountsHold

\* A request that begins at step with team t, project p and component c.
LEMMA SerialBegin ==
  ASSUME NEW r, NEW q, \A s \in DOMAIN serving : s = r, Begin(r, q),
         UNCHANGED <<teams, users, projects, components, issues, nextIssue>>,
         q.step = "component_insert" => q.project \in DOMAIN projects,
         q.step # "project_row"
  PROVE  CountsHold'
<1>1. DOMAIN serving' = {r} /\ serving'[r] = q
  BY DEF Begin, Put, Idle
<1> QED
  BY <1>1 DEF CountsHold

LEMMA SerialAdvance ==
  ASSUME TypeOK, NEW r \in DOMAIN serving, NEW step, Advance(r, step)
  PROVE  /\ DOMAIN serving' = DOMAIN serving /\ serving'[r].step = step
         /\ serving'[r].team = serving[r].team
         /\ serving'[r].project = serving[r].project
         /\ serving'[r].component = serving[r].component
BY DEF Advance, TypeOK, Serving

\* While somebody is served, a request of one statement waits.
LEMMA SerialAtOnce ==
  ASSUME SerialInv, NEW r, \A s \in DOMAIN serving : s = r, AtOnce(r)
  PROVE  ComponentsHaveProject' /\ CountsHold'
<1>1. DOMAIN serving = {} /\ UNCHANGED <<serving, components>>
  BY DEF AtOnce, Idle, CreateTeam, SetUserTeams, CreateProject, SetProjectTeams, DeleteIssue, RenameTeam
<1>2. DOMAIN projects \subseteq DOMAIN projects'
  BY DEF AtOnce, CreateTeam, SetUserTeams, CreateProject, SetProjectTeams, DeleteIssue, RenameTeam,
         Put, Update
<1> QED BY <1>1, <1>2 DEF SerialInv, ComponentsHaveProject, CountsHold

LEMMA SerialStep ==
  ASSUME SerialInv, NEW r \in Requests, \A s \in DOMAIN serving : s = r,
         \/ DeleteTeamUsers(r) \/ DeleteTeamProjects(r) \/ DeleteTeamIssues(r) \/ DeleteTeamRow(r)
         \/ UpdateUserRead(r) \/ UpdateUserWrite(r)
         \/ AddComponentCount(r) \/ AddComponentInsert(r)
         \/ DeleteProjectIssues(r) \/ DeleteProjectComponents(r) \/ DeleteProjectRow(r)
         \/ DeleteComponentIssues(r) \/ DeleteComponentRow(r)
         \/ CreateIssueAuth(r) \/ CreateIssueProject(r) \/ CreateIssueInsert(r)
         \/ UpdateIssueAuth(r) \/ UpdateIssueRead(r) \/ UpdateIssueWrite(r)
         \/ Abort(r)
  PROVE  ComponentsHaveProject' /\ CountsHold'
<1>0. TypeOK /\ ComponentsHaveProject /\ CountsHold
  BY DEF SerialInv, IInv
<1>1. ASSUME UNCHANGED <<projects, components>> PROVE ComponentsHaveProject'
  BY <1>0, <1>1 DEF ComponentsHaveProject
<1>2. CASE DeleteTeamUsers(r)
  <2>1. PICK t \in Names :
          IF Counts(t, UserLists) THEN Idle(r) /\ UNCHANGED serving
          ELSE Begin(r, [NoRequest EXCEPT !.step = "team_projects", !.team = t])
    BY <1>2 DEF DeleteTeamUsers
  <2> DEFINE q == [NoRequest EXCEPT !.step = "team_projects", !.team = t]
  <2>2. q.step = "team_projects"
    BY DEF NoRequest
  <2> HIDE DEF q
  <2>3. CASE UNCHANGED serving
    BY <1>0, <1>2, <2>3 DEF DeleteTeamUsers, ComponentsHaveProject, CountsHold
  <2>4. CASE Begin(r, q)
    BY <1>1, <1>2, <2>2, <2>4, SerialBegin DEF DeleteTeamUsers
  <2> QED BY <2>1, <2>3, <2>4 DEF q
<1>3. CASE DeleteTeamProjects(r) \/ DeleteTeamIssues(r)
  <2>1. r \in DOMAIN serving /\ UNCHANGED <<projects, components>>
    BY <1>3 DEF DeleteTeamProjects, DeleteTeamIssues, At
  <2>2. CASE Answer(r)
    BY <1>1, <2>1, <2>2, SerialAnswer
  <2>3. CASE \E step \in {"team_issues", "team_row"} : Advance(r, step)
    BY <1>0, <1>1, <2>1, <2>3, SerialAdvance DEF CountsHold
  <2> QED BY <1>3, <2>2, <2>3 DEF DeleteTeamProjects, DeleteTeamIssues
<1>5. CASE DeleteTeamRow(r) \/ UpdateUserWrite(r) \/ CreateIssueInsert(r) \/ UpdateIssueWrite(r)
           \/ Abort(r)
  BY <1>1, <1>5, SerialAnswer
     DEF DeleteTeamRow, UpdateUserWrite, CreateIssueInsert, UpdateIssueWrite, Abort
<1>6. CASE UpdateUserRead(r)
  BY <1>1, <1>6, SerialBegin DEF UpdateUserRead, NoRequest
<1>7. CASE AddComponentCount(r)
  BY <1>1, <1>7, SerialBegin DEF AddComponentCount, NoRequest
<1>8. CASE AddComponentInsert(r)
  <2>1. serving[r].project \in DOMAIN projects /\ Answer(r)
    BY <1>0, <1>8 DEF AddComponentInsert, At, CountsHold
  <2>2. ComponentsHaveProject'
    BY <1>0, <1>8, <2>1 DEF AddComponentInsert, ComponentsHaveProject
  <2> QED BY <2>1, <2>2, SerialAnswer
<1>9. CASE DeleteProjectIssues(r)
  BY <1>1, <1>9, SerialBegin DEF DeleteProjectIssues, NoRequest
<1>10. CASE DeleteProjectComponents(r)
  <2>1. /\ r \in DOMAIN serving /\ serving[r].step = "project_components"
        /\ Advance(r, "project_row") /\ UNCHANGED <<projects, issues>>
        /\ components' = {pc \in components : pc[1] # serving[r].project}
    BY <1>10 DEF DeleteProjectComponents, At
  <2>2. ComponentsHaveProject'
    BY <1>0, <2>1 DEF ComponentsHaveProject
  <2> QED BY <1>0, <2>1, <2>2, SerialAdvance DEF CountsHold
<1>11. CASE DeleteProjectRow(r)
  <2>1. /\ \A pc \in components : pc[1] # serving[r].project
        /\ DOMAIN projects' = DOMAIN projects \ {serving[r].project}
        /\ UNCHANGED components /\ Answer(r)
    BY <1>0, <1>11 DEF DeleteProjectRow, At, CountsHold, Without, Restrict
  <2>2. ComponentsHaveProject'
    BY <1>0, <2>1 DEF ComponentsHaveProject
  <2> QED BY <2>1, <2>2, SerialAnswer
<1>12. CASE DeleteComponentIssues(r)
  BY <1>1, <1>12, SerialBegin DEF DeleteComponentIssues, NoRequest
<1>13. CASE DeleteComponentRow(r)
  <2>1. ComponentsHaveProject'
    BY <1>0, <1>13 DEF DeleteComponentRow, ComponentsHaveProject
  <2> QED BY <1>13, <2>1, SerialAnswer DEF DeleteComponentRow
<1>14. CASE CreateIssueAuth(r)
  BY <1>1, <1>14, SerialBegin DEF CreateIssueAuth, NoRequest
<1>15. CASE CreateIssueProject(r)
  <2>1. r \in DOMAIN serving
    BY <1>15 DEF CreateIssueProject, At
  <2>2. CASE Answer(r)
    BY <1>1, <1>15, <2>2, SerialAnswer DEF CreateIssueProject
  <2>3. CASE Advance(r, "issue_insert")
    BY <1>0, <1>1, <1>15, <2>1, <2>3, SerialAdvance DEF CreateIssueProject, CountsHold
  <2> QED BY <1>15, <2>2, <2>3 DEF CreateIssueProject
<1>16. CASE UpdateIssueAuth(r)
  BY <1>1, <1>16, SerialBegin DEF UpdateIssueAuth, NoRequest
<1>17. CASE UpdateIssueRead(r)
  <2>1. r \in DOMAIN serving /\ UNCHANGED <<projects, components>>
    BY <1>17 DEF UpdateIssueRead, At
  <2>2. CASE Answer(r)
    BY <1>1, <2>1, <2>2, SerialAnswer
  <2>3. CASE ~Answer(r)
    <3>1. DOMAIN serving' = DOMAIN serving /\ serving'[r].step = "issue_write"
      <4>1. PICK p \in Projects \cup {NoName}, c \in Components \cup {NoName},
                 list \in Lists \cup {<<>>} :
              serving' = [serving EXCEPT ![r].step = "issue_write", ![r].project = p,
                                         ![r].component = c, ![r].list = list]
        BY <1>17, <2>3 DEF UpdateIssueRead
      <4>2. serving[r] \in Serving
        BY <1>0, <2>1 DEF TypeOK
      <4> QED BY <2>1, <4>1, <4>2 DEF Serving
    <3> QED BY <1>1, <2>1, <3>1 DEF CountsHold
  <2> QED BY <2>2, <2>3
<1> QED
  BY <1>2, <1>3, <1>5, <1>6, <1>7, <1>8, <1>9, <1>10, <1>11, <1>12, <1>13, <1>14, <1>15,
     <1>16, <1>17

LEMMA SerialInvariance ==
  ASSUME \A r, s \in Requests : r = s
  PROVE  Spec => []SerialInv
<1>1. Init => SerialInv
  <2> SUFFICES ASSUME Init PROVE ComponentsHaveProject /\ CountsHold
    BY InitIInv DEF SerialInv
  <2> QED BY DEF Init, NoRows, ComponentsHaveProject, CountsHold
<1>2. SerialInv /\ [Next]_vars => SerialInv'
  <2> SUFFICES ASSUME SerialInv, [Next]_vars PROVE ComponentsHaveProject' /\ CountsHold'
    BY NextIInv DEF SerialInv
  <2>1. CASE UNCHANGED vars
    BY <2>1 DEF SerialInv, vars, ComponentsHaveProject, CountsHold
  <2>2. CASE Next
    <3>1. PICK r \in Requests :
            \/ AtOnce(r)
            \/ DeleteTeamUsers(r) \/ DeleteTeamProjects(r) \/ DeleteTeamIssues(r) \/ DeleteTeamRow(r)
            \/ UpdateUserRead(r) \/ UpdateUserWrite(r)
            \/ AddComponentCount(r) \/ AddComponentInsert(r)
            \/ DeleteProjectIssues(r) \/ DeleteProjectComponents(r) \/ DeleteProjectRow(r)
            \/ DeleteComponentIssues(r) \/ DeleteComponentRow(r)
            \/ CreateIssueAuth(r) \/ CreateIssueProject(r) \/ CreateIssueInsert(r)
            \/ UpdateIssueAuth(r) \/ UpdateIssueRead(r) \/ UpdateIssueWrite(r)
            \/ Abort(r)
      BY <2>2 DEF Next
    <3>2. \A s \in DOMAIN serving : s = r
      BY DEF SerialInv, IInv, TypeOK
    <3> QED BY <3>1, <3>2, SerialAtOnce, SerialStep
  <2> QED BY <2>1, <2>2
<1> QED BY <1>1, <1>2, PTL DEF Spec

\* Requests served one at a time leave no component without its project, even
\* when one dies between two statements (DeleteProject's order, AddComponent's
\* look at the project).
THEOREM SerialComponentsHaveProject ==
  ASSUME \A r, s \in Requests : r = s
  PROVE  Spec => []ComponentsHaveProject
BY SerialInvariance, PTL DEF SerialInv
=============================================================================
