--------------------------- MODULE AccountsProofs ---------------------------
(***************************************************************************)
(* Theorems about Accounts, for any set of usernames, any operations and   *)
(* any number of overlapping requests.                                     *)
(***************************************************************************)
EXTENDS Accounts, DataTheorems, FiniteSetTheorems

ServingTypeOK == DOMAIN serving \subseteq Requests /\ serving \in [DOMAIN serving -> Serving]
UsersTypeOK == DOMAIN users \subseteq Usernames /\ users \in [DOMAIN users -> BOOLEAN]

-----------------------------------------------------------------------------
(* How the requests in flight and the table change.                        *)

Steps == {"mint", "onboard_find", "onboard_add", "onboard_clear", "onboard_refuse",
          "create_find", "create_add",
          "demote_find", "demote_count", "update_find", "update_write",
          "delete_find", "delete_count", "delete_row"}

LEMMA BeginServing ==
  ASSUME ServingTypeOK, NEW r \in Requests, NEW s \in Steps, NEW u \in Usernames,
         NEW a \in BOOLEAN, Begin(r, s, u, a)
  PROVE  /\ ServingTypeOK'
         /\ DOMAIN serving' = DOMAIN serving \cup {r}
         /\ serving'[r] = [step |-> s, target |-> u, admin |-> a]
         /\ \A q \in DOMAIN serving : q # r /\ serving'[q] = serving[q]
<1>1. [step |-> s, target |-> u, admin |-> a] \in Serving
  BY DEF Serving, Steps
<1> QED
  BY <1>1 DEF Begin, Idle, Put, ServingTypeOK

\* Whatever holds of all requests in flight and of the new one.
LEMMA BeginAmong ==
  ASSUME ServingTypeOK, NEW r \in Requests, NEW s \in Steps, NEW u \in Usernames,
         NEW a \in BOOLEAN, Begin(r, s, u, a), NEW S, s \in S,
         \A q \in DOMAIN serving : serving[q].step \in S
  PROVE  /\ \A q \in DOMAIN serving' : serving'[q].step \in S
         /\ \A q : At(q, "onboard_clear") => At(q, "onboard_clear")'
<1>1. /\ DOMAIN serving' = DOMAIN serving \cup {r}
      /\ serving'[r] = [step |-> s, target |-> u, admin |-> a]
      /\ \A q \in DOMAIN serving : serving'[q] = serving[q]
  BY BeginServing
<1>2. serving'[r].step = s
  BY <1>1
<1>3. \A q \in DOMAIN serving' : serving'[q].step \in S
  BY <1>1, <1>2
<1>4. ASSUME NEW q, At(q, "onboard_clear") PROVE At(q, "onboard_clear")'
  BY <1>1, <1>4 DEF At
<1> QED
  BY <1>3, <1>4

LEMMA AdvanceServing ==
  ASSUME ServingTypeOK, NEW r \in DOMAIN serving, NEW s \in Steps, Advance(r, s)
  PROVE  /\ ServingTypeOK'
         /\ DOMAIN serving' = DOMAIN serving
         /\ serving'[r].step = s
         /\ serving'[r].target = serving[r].target
         /\ serving'[r].admin = serving[r].admin
         /\ \A q \in DOMAIN serving : q # r => serving'[q] = serving[q]
<1>1. [serving[r] EXCEPT !.step = s] \in Serving
  BY DEF ServingTypeOK, Serving, Steps
<1>2. serving' = [serving EXCEPT ![r] = [serving[r] EXCEPT !.step = s]]
  BY DEF Advance
<1>3. serving[r] \in Serving
  BY DEF ServingTypeOK
<1> QED
  BY <1>1, <1>2, <1>3 DEF ServingTypeOK, Serving

LEMMA AnswerServing ==
  ASSUME ServingTypeOK, NEW r, Answer(r)
  PROVE  /\ ServingTypeOK'
         /\ DOMAIN serving' = DOMAIN serving \ {r}
         /\ \A q \in DOMAIN serving' : serving'[q] = serving[q]
BY DEF ServingTypeOK, Answer, Without, Restrict

LEMMA PutUser ==
  ASSUME UsersTypeOK, NEW u \in Usernames, NEW a \in BOOLEAN, users' = Put(users, u, a)
  PROVE  /\ UsersTypeOK'
         /\ DOMAIN users' = DOMAIN users \cup {u}
         /\ users'[u] = a
         /\ \A v \in DOMAIN users : v # u => users'[v] = users[v]
BY DEF UsersTypeOK, Put

LEMMA UpdateUsers ==
  ASSUME UsersTypeOK, NEW u \in Usernames, NEW a \in BOOLEAN, users' = Update(users, u, a)
  PROVE  /\ UsersTypeOK'
         /\ DOMAIN users' = DOMAIN users
         /\ u \in DOMAIN users => users'[u] = a
         /\ \A v \in DOMAIN users : v # u => users'[v] = users[v]
BY DEF UsersTypeOK, Update

LEMMA DeleteUsers ==
  ASSUME UsersTypeOK, NEW u, users' = Without(users, {u})
  PROVE  /\ UsersTypeOK'
         /\ DOMAIN users' = DOMAIN users \ {u}
         /\ \A v \in DOMAIN users' : users'[v] = users[v]
BY DEF UsersTypeOK, Without, Restrict

LEMMA NoRowsEmpty == \A t : DOMAIN t # {} => t # NoRows
BY DEF NoRows

LEMMA EmptyIsNoRows == ASSUME UsersTypeOK PROVE users = NoRows <=> DOMAIN users = {}
BY DEF UsersTypeOK, NoRows

-----------------------------------------------------------------------------
(* Types.                                                                  *)

LEMMA TypeParts == TypeOK => ServingTypeOK /\ UsersTypeOK
BY DEF TypeOK, ServingTypeOK, UsersTypeOK

LEMMA InitType == Init => TypeOK
BY AccountsAssumption DEF Init, TypeOK, NoRows

\* A request in flight is about some account.
LEMMA InFlight ==
  ASSUME TypeOK, NEW r \in DOMAIN serving
  PROVE  Target(r) \in Usernames /\ serving[r].admin \in BOOLEAN /\ serving[r].step \in Steps
BY DEF TypeOK, Serving, Target, Steps

LEMMA StepType == TypeOK /\ [Next]_vars => TypeOK'
<1> SUFFICES ASSUME TypeOK, [Next]_vars PROVE TypeOK'
  OBVIOUS
<1>0. ServingTypeOK /\ UsersTypeOK
  BY TypeParts
<1> DEFINE RestTypeOK == /\ tokens \in 0..MaxTokens /\ token \in 0..tokens
                         /\ hasUsers \in {"unknown", "no", "yes"}
<1>q. ASSUME ServingTypeOK', UsersTypeOK', RestTypeOK' PROVE TypeOK'
  BY <1>q DEF TypeOK, ServingTypeOK, UsersTypeOK
<1>r. RestTypeOK
  BY DEF TypeOK
<1>u. UNCHANGED users => UsersTypeOK'
  BY <1>0 DEF UsersTypeOK
<1>1. ASSUME NEW r \in Requests, RequestStep(r) PROVE TypeOK'
  <2>1. CASE Status(r)
    <3>1. ServingTypeOK'
      BY <1>0, <2>1, BeginServing DEF Status, Steps, ServingTypeOK
    <3>2. RestTypeOK'
      BY <1>r, <2>1 DEF Status, HasUsersCached, Answers
    <3> QED  BY <2>1, <3>1, <3>2, <1>q, <1>u DEF Status
  <2>2. CASE StatusMint(r)
    <3>1. ServingTypeOK'
      BY <1>0, <2>2, AnswerServing DEF StatusMint
    <3>2. RestTypeOK'
      BY <1>r, <2>2, AccountsAssumption DEF StatusMint
    <3> QED  BY <2>2, <3>1, <3>2, <1>q, <1>u DEF StatusMint
  <2>3. CASE OnboardToken(r)
    <3>1. ServingTypeOK'
      BY <1>0, <2>3, BeginServing DEF OnboardToken, Steps, NamesAccepted
    <3> QED  BY <1>r, <2>3, <3>1, <1>q, <1>u DEF OnboardToken
  <2>4. CASE OnboardFind(r)
    <3>1. ServingTypeOK'
      BY <1>0, <2>4, AdvanceServing DEF OnboardFind, Steps, At
    <3> QED  BY <1>r, <2>4, <3>1, <1>q, <1>u DEF OnboardFind
  <2>5. CASE OnboardRefuse(r)
    <3>1. ServingTypeOK'
      BY <1>0, <2>5, AnswerServing DEF OnboardRefuse
    <3> QED  BY <1>r, <2>5, <3>1, <1>q, <1>u DEF OnboardRefuse
  <2>6. CASE OnboardAdd(r)
    <3>1. ServingTypeOK'
      BY <1>0, <2>6, AdvanceServing DEF OnboardAdd, Steps, At
    <3>2. UsersTypeOK'
      BY <1>0, <2>6, PutUser, InFlight DEF OnboardAdd, At
    <3> QED  BY <1>r, <2>6, <3>1, <3>2, <1>q DEF OnboardAdd
  <2>7. CASE OnboardClear(r)
    <3>1. ServingTypeOK'
      BY <1>0, <2>7, AnswerServing DEF OnboardClear
    <3> QED  BY <1>r, <2>7, <3>1, <1>q, <1>u DEF OnboardClear
  <2>8. CASE CreateUser(r)
    <3>1. ServingTypeOK'
      BY <1>0, <2>8, BeginServing DEF CreateUser, Steps, NamesAccepted
    <3> QED  BY <1>r, <2>8, <3>1, <1>q, <1>u DEF CreateUser
  <2>9. CASE CreateUserFind(r)
    <3>1. ServingTypeOK'
      BY <1>0, <2>9, AdvanceServing, AnswerServing DEF CreateUserFind, Steps, At
    <3> QED  BY <1>r, <2>9, <3>1, <1>q, <1>u DEF CreateUserFind
  <2>10. CASE CreateUserAdd(r)
    <3>1. ServingTypeOK'
      BY <1>0, <2>10, AnswerServing DEF CreateUserAdd
    <3>2. UsersTypeOK'
      BY <1>0, <2>10, PutUser, InFlight DEF CreateUserAdd, At
    <3> QED  BY <1>r, <2>10, <3>1, <3>2, <1>q DEF CreateUserAdd
  <2>11. CASE UpdateUser(r)
    <3>1. ServingTypeOK'
      BY <1>0, <2>11, BeginServing DEF UpdateUser, Steps
    <3> QED  BY <1>r, <2>11, <3>1, <1>q, <1>u DEF UpdateUser
  <2>12. CASE DemoteFind(r)
    <3>1. ServingTypeOK'
      BY <1>0, <2>12, AdvanceServing DEF DemoteFind, Steps, At
    <3> QED  BY <1>r, <2>12, <3>1, <1>q, <1>u DEF DemoteFind
  <2>13. CASE DemoteCount(r)
    <3>1. ServingTypeOK'
      BY <1>0, <2>13, AdvanceServing, AnswerServing DEF DemoteCount, Steps, At
    <3> QED  BY <1>r, <2>13, <3>1, <1>q, <1>u DEF DemoteCount
  <2>14. CASE UpdateUserFind(r)
    <3>1. ServingTypeOK'
      BY <1>0, <2>14, AdvanceServing, AnswerServing DEF UpdateUserFind, Steps, At
    <3> QED  BY <1>r, <2>14, <3>1, <1>q, <1>u DEF UpdateUserFind
  <2>15. CASE UpdateUserWrite(r)
    <3>1. ServingTypeOK'
      BY <1>0, <2>15, AnswerServing DEF UpdateUserWrite
    <3>2. UsersTypeOK'
      BY <1>0, <2>15, UpdateUsers, InFlight DEF UpdateUserWrite, WriteUser, At
    <3> QED  BY <1>r, <2>15, <3>1, <3>2, <1>q DEF UpdateUserWrite
  <2>16. CASE DeleteUser(r)
    <3>1. ServingTypeOK'
      BY <1>0, <2>16, BeginServing DEF DeleteUser, Steps
    <3> QED  BY <1>r, <2>16, <3>1, <1>q, <1>u DEF DeleteUser
  <2>17. CASE DeleteUserFind(r)
    <3>1. ServingTypeOK'
      BY <1>0, <2>17, AdvanceServing, AnswerServing DEF DeleteUserFind, Steps, At
    <3> QED  BY <1>r, <2>17, <3>1, <1>q, <1>u DEF DeleteUserFind
  <2>18. CASE DeleteUserCount(r)
    <3>1. ServingTypeOK'
      BY <1>0, <2>18, AdvanceServing, AnswerServing DEF DeleteUserCount, Steps, At
    <3> QED  BY <1>r, <2>18, <3>1, <1>q, <1>u DEF DeleteUserCount
  <2>19. CASE DeleteUserRow(r)
    <3>1. ServingTypeOK'
      BY <1>0, <2>19, AnswerServing DEF DeleteUserRow
    <3>2. UsersTypeOK'
      BY <1>0, <2>19, DeleteUsers DEF DeleteUserRow
    <3> QED  BY <1>r, <2>19, <3>1, <3>2, <1>q DEF DeleteUserRow
  <2> QED
    BY <1>1, <2>1, <2>2, <2>3, <2>4, <2>5, <2>6, <2>7, <2>8, <2>9, <2>10, <2>11, <2>12,
       <2>13, <2>14, <2>15, <2>16, <2>17, <2>18, <2>19 DEF RequestStep
<1>2. CASE CacheExpires
  BY <1>0, <1>r, <1>u, <1>q, <1>2 DEF CacheExpires, ServingTypeOK
<1>3. CASE CliStep
  <2>1. UsersTypeOK'
    BY <1>0, <1>3, PutUser, UpdateUsers, DeleteUsers DEF CliStep, CliAdd, CliUpdate, CliDelete
  <2> QED  BY <1>0, <1>3, <1>r, <1>q, <2>1 DEF CliStep, ServingTypeOK
<1>4. CASE Restart
  BY <1>r, <1>u, <1>q, <1>4 DEF Restart, ServingTypeOK, NoRows
<1>5. CASE UNCHANGED vars
  BY <1>0, <1>r, <1>u, <1>q, <1>5 DEF vars, ServingTypeOK
<1> QED
  BY <1>1, <1>2, <1>3, <1>4, <1>5 DEF Next

\* The accounts have names, the onboarding token is one that was drawn, and
\* every request in flight is at a step of its handler.
THEOREM TypeCorrect == Spec => []TypeOK
BY InitType, StepType, PTL DEF Spec

-----------------------------------------------------------------------------
(* Any number of requests, and the command line tool.                      *)

\* An account deleted while a request updates it is not brought back by the
\* update: only onboarding, POST /api/users and the CLI insert rows.
THEOREM UpdatesReviveNobody == Spec => UpdateNeverRevives
<1>1. TypeOK /\ [Next]_vars
        => [DOMAIN users' \subseteq DOMAIN users
            \/ CliStep \/ \E r \in Requests : OnboardAdd(r) \/ CreateUserAdd(r)]_vars
  <2> SUFFICES ASSUME TypeOK, [Next]_vars, ~CliStep,
                      \A r \in Requests : ~OnboardAdd(r) /\ ~CreateUserAdd(r)
               PROVE  DOMAIN users' \subseteq DOMAIN users
    OBVIOUS
  <2>1. ASSUME NEW r \in Requests, UpdateUserWrite(r)
        PROVE  DOMAIN users' \subseteq DOMAIN users
    BY <2>1, UpdateUsers, InFlight, TypeParts DEF UpdateUserWrite, WriteUser, At
  <2>2. ASSUME NEW r \in Requests, DeleteUserRow(r)
        PROVE  DOMAIN users' \subseteq DOMAIN users
    BY <2>2, DeleteUsers, TypeParts DEF DeleteUserRow
  <2>3. \/ UNCHANGED users
        \/ \E r \in Requests : UpdateUserWrite(r) \/ DeleteUserRow(r)
    BY DEF Next, RequestStep, vars, Status, StatusMint, OnboardToken, OnboardFind,
           OnboardRefuse, OnboardClear, CreateUser, CreateUserFind, UpdateUser,
           DemoteFind, DemoteCount, UpdateUserFind, DeleteUser, DeleteUserFind,
           DeleteUserCount, CacheExpires, Restart
  <2> QED
    BY <2>1, <2>2, <2>3
<1> QED
  BY <1>1, TypeCorrect, PTL DEF Spec, UpdateNeverRevives

\* Once nobody is an admin nobody can become one but through the CLI: no
\* request is entitled to write the table, and onboarding finds it nonempty.
THEOREM LockoutsAreFinal == Spec => LockoutIsFinal
<1>1. TypeOK /\ [Next]_vars => [LockedOut => LockedOut' \/ CliStep]_vars
  <2> SUFFICES ASSUME TypeOK, [Next]_vars, LockedOut, ~CliStep PROVE LockedOut'
    OBVIOUS
  <2> DEFINE LockedSteps == {"mint", "onboard_find", "onboard_refuse"}
             Harmless == \A r \in DOMAIN serving : serving[r].step \in LockedSteps
  <2>0. ServingTypeOK /\ UsersTypeOK
    BY TypeParts
  <2>1. users # NoRows /\ Admins = {} /\ Harmless
    BY DEF LockedOut
  <2>2. ASSUME UNCHANGED users, Harmless' PROVE LockedOut'
    BY <2>1, <2>2 DEF LockedOut, Admins
  <2> HIDE DEF Harmless
  <2>3. ASSUME NEW r \in Requests, Status(r) PROVE LockedOut'
    <3>1. Harmless'
      <4>1. CASE UNCHANGED serving
        BY <2>1, <4>1 DEF Harmless
      <4>2. ASSUME NEW u \in Usernames, Begin(r, "mint", u, FALSE) PROVE Harmless'
        <5>1. "mint" \in Steps /\ "mint" \in LockedSteps
          BY DEF Steps
        <5> QED
          BY <2>0, <2>1, <4>2, <5>1, BeginAmong DEF Harmless
      <4> QED
        BY <2>3, <4>1, <4>2 DEF Status
    <3> QED
      BY <2>2, <2>3, <3>1 DEF Status
  <2>4. ASSUME NEW r \in Requests, StatusMint(r) \/ OnboardRefuse(r) PROVE LockedOut'
    <3>1. Harmless'
      BY <2>0, <2>1, <2>4, AnswerServing DEF Harmless, StatusMint, OnboardRefuse
    <3> QED
      BY <2>2, <2>4, <3>1 DEF StatusMint, OnboardRefuse
  <2>5. ASSUME NEW r \in Requests, OnboardToken(r) PROVE LockedOut'
    <3>1. Harmless'
      <4>1. PICK u \in Usernames : Begin(r, "onboard_find", u, TRUE)
        BY <2>5 DEF OnboardToken, NamesAccepted
      <4>2. "onboard_find" \in Steps /\ "onboard_find" \in LockedSteps
        BY DEF Steps
      <4> QED
        BY <2>0, <2>1, <4>1, <4>2, BeginAmong DEF Harmless
    <3> QED
      BY <2>2, <2>5, <3>1 DEF OnboardToken
  <2>6. ASSUME NEW r \in Requests, OnboardFind(r) PROVE LockedOut'
    <3>1. Harmless'
      BY <2>0, <2>1, <2>6, AdvanceServing DEF Harmless, OnboardFind, At, Steps
    <3> QED
      BY <2>2, <2>6, <3>1 DEF OnboardFind
  <2>7. ASSUME CacheExpires \/ UNCHANGED vars PROVE LockedOut'
    BY <2>1, <2>2, <2>7 DEF CacheExpires, vars, Harmless
  <2>8. ASSUME Restart PROVE LockedOut'
    BY <2>2, <2>8 DEF Restart, NoRows, Harmless
  <2>9. ASSUME NEW r \in Requests, RequestStep(r)
        PROVE  Status(r) \/ StatusMint(r) \/ OnboardRefuse(r) \/ OnboardToken(r) \/ OnboardFind(r)
    BY <2>1, <2>9
       DEF Harmless, RequestStep, At, AdminCalls, OnboardAdd, OnboardClear, CreateUser,
           CreateUserFind, CreateUserAdd, UpdateUser, DemoteFind, DemoteCount,
           UpdateUserFind, UpdateUserWrite, DeleteUser, DeleteUserFind, DeleteUserCount,
           DeleteUserRow
  <2> QED
    BY <2>3, <2>4, <2>5, <2>6, <2>7, <2>8, <2>9 DEF Next
<1> QED
  BY <1>1, TypeCorrect, PTL DEF Spec, LockoutIsFinal

-----------------------------------------------------------------------------
(* The last-admin guard.  Until something has been contended, requests     *)
(* overlap as they please, but at most one of them is on its way to take   *)
(* "admin" from somebody: what that one has counted can only grow.         *)

\* What a request that may take "admin" away has established, and what goes on
\* holding while the others can only add admins.
Entitled(q) ==
  /\ q.step = "create_find" /\ ~q.admin => Admins # {}
  /\ q.step = "create_add" /\ ~q.admin => Admins \ {q.target} # {}
  /\ q.step \in {"demote_find", "demote_count"} => Admins # {}
  /\ q.step \in {"update_find", "update_write"} /\ ~q.admin => Admins \ {q.target} # {}
  /\ q.step \in {"delete_find", "delete_count", "delete_row"} => Admins \ {q.target} # {}

AllEntitled == \A r \in DOMAIN serving : Entitled(serving[r])

UncontendedInv == TypeOK /\ (contended \/ (RemovalsApart /\ SomeAdmin /\ AllEntitled))

\* CountAdmins said more than one: whoever is meant, another remains.
LEMMA CountedOthers ==
  ASSUME UsersTypeOK, OthersRemain, NEW u
  PROVE  Admins \ {u} # {}
<1> SUFFICES ASSUME Admins \subseteq {u} PROVE FALSE
  OBVIOUS
<1>1. IsFiniteSet({u}) /\ Cardinality({u}) = 1
  BY FS_Singleton
<1>2. Cardinality(Admins) <= 1
  BY <1>1, FS_Subset
<1> QED
  BY <1>1, <1>2, FS_Subset, FS_CardinalityType DEF OthersRemain


\* A step of r leaves what the others are doing alone.
OthersKept(r) ==
  \A s \in DOMAIN serving' \ {r} : s \in DOMAIN serving /\ serving'[s] = serving[s]

\* A step that takes "admin" from nobody breaks nothing the others rely on.
LEMMA AdminsOnlyGrow ==
  ASSUME AllEntitled, NEW r, OthersKept(r), Admins \subseteq Admins',
         r \in DOMAIN serving' => Entitled(serving[r])'
  PROVE  AllEntitled'
<1>1. ASSUME NEW s \in DOMAIN serving', s # r
      PROVE  Entitled(serving[s])'
  <2>1. s \in DOMAIN serving /\ serving'[s] = serving[s] /\ Entitled(serving[s])
    BY <1>1 DEF OthersKept, AllEntitled
  <2> QED  BY <2>1 DEF Entitled
<1> QED  BY <1>1 DEF AllEntitled

\* A request that takes "admin" away is the only one that relies on anything.
LEMMA TheOnlyRemoval ==
  ASSUME RemovalsApart, NEW r \in DOMAIN serving, Removing(serving[r]),
         OthersKept(r), r \notin DOMAIN serving'
  PROVE  AllEntitled'
<1>1. ASSUME NEW s \in DOMAIN serving'
      PROVE  Entitled(serving[s])'
  <2>1. s \in DOMAIN serving /\ s # r /\ serving'[s] = serving[s]
    BY DEF OthersKept
  <2>2. ~Removing(serving[s])
    BY <2>1 DEF RemovalsApart
  <2> QED  BY <2>1, <2>2 DEF Removing, Entitled
<1> QED  BY <1>1 DEF AllEntitled

LEMMA CalmStep ==
  ASSUME TypeOK, RemovalsApart, SomeAdmin, AllEntitled, [Next]_vars, ~contended'
  PROVE  SomeAdmin' /\ AllEntitled'
<1>0. /\ TypeOK /\ TypeOK' /\ ServingTypeOK /\ UsersTypeOK
      /\ RemovalsApart /\ SomeAdmin /\ AllEntitled
  BY TypeParts, StepType
<1>1. ASSUME NEW r, OthersKept(r), UNCHANGED users,
             r \in DOMAIN serving' => Entitled(serving[r])'
      PROVE  SomeAdmin' /\ AllEntitled'
  BY <1>0, <1>1, AdminsOnlyGrow DEF SomeAdmin, Admins
<1>2. ASSUME NEW r \in Requests, NEW s \in Steps, NEW u \in Usernames, NEW a \in BOOLEAN,
             Begin(r, s, u, a), UNCHANGED users,
             Entitled([step |-> s, target |-> u, admin |-> a])
      PROVE  SomeAdmin' /\ AllEntitled'
  <2>1. /\ DOMAIN serving' = DOMAIN serving \cup {r}
        /\ serving'[r] = [step |-> s, target |-> u, admin |-> a]
        /\ \A q \in DOMAIN serving : q # r /\ serving'[q] = serving[q]
    BY <1>0, <1>2, BeginServing
  <2>2. OthersKept(r)
    BY <2>1 DEF OthersKept
  <2>3. Entitled(serving[r])'
    BY <1>2, <2>1 DEF Entitled, Admins
  <2> QED  BY <1>1, <1>2, <2>2, <2>3
<1>3. ASSUME NEW r \in DOMAIN serving, NEW s \in Steps, Advance(r, s), UNCHANGED users,
             Entitled([serving[r] EXCEPT !.step = s])
      PROVE  SomeAdmin' /\ AllEntitled'
  <2>1. /\ DOMAIN serving' = DOMAIN serving
        /\ serving'[r].step = s
        /\ serving'[r].target = serving[r].target
        /\ serving'[r].admin = serving[r].admin
        /\ \A q \in DOMAIN serving : q # r => serving'[q] = serving[q]
    BY <1>0, <1>3, AdvanceServing
  <2>2. OthersKept(r)
    BY <2>1 DEF OthersKept
  <2>3. serving[r] \in Serving
    BY <1>0 DEF ServingTypeOK
  <2>4. Entitled(serving[r])'
    BY <1>3, <2>1, <2>3 DEF Entitled, Admins, Serving
  <2> QED  BY <1>1, <1>3, <2>2, <2>4
<1>4. ASSUME NEW r, Answer(r)
      PROVE  OthersKept(r) /\ r \notin DOMAIN serving'
  BY <1>0, <1>4, AnswerServing DEF OthersKept
<1>5. ASSUME NEW r, Answer(r), UNCHANGED users PROVE SomeAdmin' /\ AllEntitled'
  BY <1>1, <1>4, <1>5
<1>6. ASSUME NEW r \in DOMAIN serving
      PROVE  /\ Entitled(serving[r]) /\ serving[r] \in Serving /\ Target(r) = serving[r].target
             /\ serving[r].target \in Usernames /\ serving[r].admin \in BOOLEAN
  BY <1>0, <1>6, InFlight DEF AllEntitled, ServingTypeOK, Target
<1>7. ASSUME NEW r \in Requests, Status(r) PROVE SomeAdmin' /\ AllEntitled'
  <2>1. CASE UNCHANGED serving
    BY <1>0, <1>7, <2>1 DEF Status, SomeAdmin, AllEntitled, Entitled, Admins
  <2>2. ASSUME NEW u \in Usernames, Begin(r, "mint", u, FALSE) PROVE SomeAdmin' /\ AllEntitled'
    BY <1>7, <1>2, <2>2 DEF Status, Steps, Entitled
  <2> QED  BY <1>7, <2>1, <2>2 DEF Status
<1>8. ASSUME NEW r \in Requests, OnboardToken(r) PROVE SomeAdmin' /\ AllEntitled'
  BY <1>8, <1>2 DEF OnboardToken, NamesAccepted, Steps, Entitled
<1>9. ASSUME NEW r \in Requests, CreateUser(r) PROVE SomeAdmin' /\ AllEntitled'
  BY <1>9, <1>2 DEF CreateUser, NamesAccepted, Steps, Entitled, AdminCalls
<1>10. ASSUME NEW r \in Requests, UpdateUser(r) PROVE SomeAdmin' /\ AllEntitled'
  BY <1>10, <1>2 DEF UpdateUser, Steps, Entitled, AdminCalls
<1>11. ASSUME NEW r \in Requests, DeleteUser(r) PROVE SomeAdmin' /\ AllEntitled'
  BY <1>11, <1>2 DEF DeleteUser, Steps, Entitled
<1>12. ASSUME NEW r \in Requests, OnboardFind(r) PROVE SomeAdmin' /\ AllEntitled'
  BY <1>12, <1>3, <1>6 DEF OnboardFind, At, Steps, Entitled, Serving
<1>13. ASSUME NEW r \in Requests, CreateUserFind(r) PROVE SomeAdmin' /\ AllEntitled'
  <2>1. r \in DOMAIN serving
    BY <1>13 DEF CreateUserFind, At
  <2>2. ASSUME Advance(r, "create_add"), Free(Target(r)) PROVE SomeAdmin' /\ AllEntitled'
    <3>1. Entitled([serving[r] EXCEPT !.step = "create_add"])
      BY <1>6, <1>13, <2>1, <2>2 DEF CreateUserFind, At, Entitled, Serving, Free, Admins
    <3> QED  BY <1>3, <1>13, <2>1, <2>2, <3>1 DEF CreateUserFind, Steps
  <2> QED  BY <1>5, <1>13, <2>2 DEF CreateUserFind
<1>14. ASSUME NEW r \in Requests, DemoteFind(r) PROVE SomeAdmin' /\ AllEntitled'
  <2>1. r \in DOMAIN serving
    BY <1>14 DEF DemoteFind, At
  <2>2. ASSUME Advance(r, "demote_count"), Target(r) \in Admins PROVE SomeAdmin' /\ AllEntitled'
    <3>1. Entitled([serving[r] EXCEPT !.step = "demote_count"])
      BY <1>6, <1>14, <2>1, <2>2 DEF DemoteFind, At, Entitled, Serving
    <3> QED  BY <1>3, <1>14, <2>1, <2>2, <3>1 DEF DemoteFind, Steps
  <2>3. ASSUME Advance(r, "update_find"), Target(r) \notin Admins PROVE SomeAdmin' /\ AllEntitled'
    <3>1. Entitled([serving[r] EXCEPT !.step = "update_find"])
      BY <1>6, <1>14, <2>1, <2>3 DEF DemoteFind, At, Entitled, Serving
    <3> QED  BY <1>3, <1>14, <2>1, <2>3, <3>1 DEF DemoteFind, Steps
  <2> QED  BY <1>5, <1>14, <2>2, <2>3 DEF DemoteFind
<1>15. ASSUME NEW r \in Requests, DemoteCount(r) PROVE SomeAdmin' /\ AllEntitled'
  <2>1. r \in DOMAIN serving
    BY <1>15 DEF DemoteCount, At
  <2>2. ASSUME Advance(r, "update_find"), OthersRemain PROVE SomeAdmin' /\ AllEntitled'
    <3>1. Entitled([serving[r] EXCEPT !.step = "update_find"])
      BY <1>6, <1>15, <2>1, <2>2, <1>0, CountedOthers DEF DemoteCount, At, Entitled, Serving
    <3> QED  BY <1>3, <1>15, <2>1, <2>2, <3>1 DEF DemoteCount, Steps
  <2> QED  BY <1>5, <1>15, <2>2 DEF DemoteCount
<1>16. ASSUME NEW r \in Requests, UpdateUserFind(r) PROVE SomeAdmin' /\ AllEntitled'
  <2>1. r \in DOMAIN serving
    BY <1>16 DEF UpdateUserFind, At
  <2>2. ASSUME Advance(r, "update_write") PROVE SomeAdmin' /\ AllEntitled'
    <3>1. Entitled([serving[r] EXCEPT !.step = "update_write"])
      BY <1>6, <1>16, <2>1, <2>2 DEF UpdateUserFind, At, Entitled, Serving
    <3> QED  BY <1>3, <1>16, <2>1, <2>2, <3>1 DEF UpdateUserFind, Steps
  <2> QED  BY <1>5, <1>16, <2>2 DEF UpdateUserFind
<1>17. ASSUME NEW r \in Requests, DeleteUserFind(r) PROVE SomeAdmin' /\ AllEntitled'
  <2>1. r \in DOMAIN serving
    BY <1>17 DEF DeleteUserFind, At
  <2>2. ASSUME Advance(r, "delete_count") PROVE SomeAdmin' /\ AllEntitled'
    <3>1. Entitled([serving[r] EXCEPT !.step = "delete_count"])
      BY <1>6, <1>17, <2>1, <2>2 DEF DeleteUserFind, At, Entitled, Serving
    <3> QED  BY <1>3, <1>17, <2>1, <2>2, <3>1 DEF DeleteUserFind, Steps
  <2>3. ASSUME Advance(r, "delete_row") PROVE SomeAdmin' /\ AllEntitled'
    <3>1. Entitled([serving[r] EXCEPT !.step = "delete_row"])
      BY <1>6, <1>17, <2>1, <2>3 DEF DeleteUserFind, At, Entitled, Serving
    <3> QED  BY <1>3, <1>17, <2>1, <2>3, <3>1 DEF DeleteUserFind, Steps
  <2> QED  BY <1>5, <1>17, <2>2, <2>3 DEF DeleteUserFind
<1>18. ASSUME NEW r \in Requests, DeleteUserCount(r) PROVE SomeAdmin' /\ AllEntitled'
  <2>1. r \in DOMAIN serving
    BY <1>18 DEF DeleteUserCount, At
  <2>2. ASSUME Advance(r, "delete_row") PROVE SomeAdmin' /\ AllEntitled'
    <3>1. Entitled([serving[r] EXCEPT !.step = "delete_row"])
      BY <1>6, <1>18, <2>1, <2>2 DEF DeleteUserCount, At, Entitled, Serving
    <3> QED  BY <1>3, <1>18, <2>1, <2>2, <3>1 DEF DeleteUserCount, Steps
  <2> QED  BY <1>5, <1>18, <2>2 DEF DeleteUserCount
<1>19. ASSUME NEW r \in Requests, StatusMint(r) \/ OnboardRefuse(r) \/ OnboardClear(r)
       PROVE  SomeAdmin' /\ AllEntitled'
  BY <1>19, <1>5 DEF StatusMint, OnboardRefuse, OnboardClear
<1>20. ASSUME NEW r \in Requests, OnboardAdd(r) PROVE SomeAdmin' /\ AllEntitled'
  <2>1. r \in DOMAIN serving /\ users' = Put(users, Target(r), TRUE) /\ Advance(r, "onboard_clear")
    BY <1>20 DEF OnboardAdd, At
  <2>2. Target(r) \in Admins' /\ Admins \subseteq Admins'
    BY <1>0, <1>6, <2>1, PutUser DEF Admins
  <2>3. /\ r \in DOMAIN serving' /\ serving'[r].step = "onboard_clear"
        /\ \A q \in DOMAIN serving' \ {r} : q \in DOMAIN serving /\ serving'[q] = serving[q]
    BY <1>0, <2>1, AdvanceServing DEF Steps
  <2>4. Entitled(serving[r])'
    BY <2>3 DEF Entitled
  <2> QED  BY <1>0, <2>2, <2>3, <2>4, AdminsOnlyGrow DEF SomeAdmin, OthersKept
\* The three writes that may take "admin" away.
<1>21. ASSUME NEW r \in DOMAIN serving, Answer(r), Admins' # {},
              Admins \subseteq Admins' \/ Removing(serving[r])
       PROVE  SomeAdmin' /\ AllEntitled'
  BY <1>0, <1>4, <1>21, AdminsOnlyGrow, TheOnlyRemoval DEF SomeAdmin
<1>22. ASSUME NEW r \in Requests, CreateUserAdd(r) PROVE SomeAdmin' /\ AllEntitled'
  <2>1. /\ r \in DOMAIN serving /\ users' = Put(users, Target(r), serving[r].admin)
        /\ Answer(r) /\ serving[r].step = "create_add"
    BY <1>22 DEF CreateUserAdd, At
  <2>2. /\ Target(r) \in DOMAIN users' /\ users'[Target(r)] = serving[r].admin
        /\ \A v \in DOMAIN users : v # Target(r) => v \in DOMAIN users' /\ users'[v] = users[v]
    BY <1>0, <1>6, <2>1, PutUser
  <2>3. CASE serving[r].admin
    <3>1. Admins \subseteq Admins' /\ Admins' # {}
      BY <2>2, <2>3 DEF Admins
    <3> QED  BY <1>21, <2>1, <3>1
  <2>4. CASE ~serving[r].admin
    <3>1. Admins \ {Target(r)} # {}
      BY <1>6, <2>1, <2>4 DEF Entitled
    <3>2. Admins' # {}
      BY <2>2, <3>1 DEF Admins
    <3> QED  BY <1>21, <2>1, <2>4, <3>2 DEF Removing
  <2> QED  BY <2>3, <2>4
<1>23. ASSUME NEW r \in Requests, UpdateUserWrite(r) PROVE SomeAdmin' /\ AllEntitled'
  <2>1. /\ r \in DOMAIN serving /\ users' = Update(users, Target(r), serving[r].admin)
        /\ Answer(r) /\ serving[r].step = "update_write"
    BY <1>23 DEF UpdateUserWrite, WriteUser, At
  <2>2. /\ DOMAIN users' = DOMAIN users
        /\ Target(r) \in DOMAIN users => users'[Target(r)] = serving[r].admin
        /\ \A v \in DOMAIN users : v # Target(r) => users'[v] = users[v]
    BY <1>0, <1>6, <2>1, UpdateUsers
  <2>3. CASE serving[r].admin
    <3>1. Admins \subseteq Admins'
      BY <2>2, <2>3 DEF Admins
    <3>2. AllEntitled'
      BY <1>0, <1>4, <2>1, <3>1, AdminsOnlyGrow
    <3>3. SomeAdmin'
      <4>1. CASE users = NoRows
        <5>1. users' = NoRows
          BY <1>0, <4>1, <2>1 DEF Update, NoRows
        <5> QED  BY <5>1 DEF SomeAdmin
      <4>2. CASE users # NoRows
        BY <1>0, <3>1, <4>2 DEF SomeAdmin
      <4> QED  BY <4>1, <4>2
    <3> QED  BY <3>2, <3>3
  <2>4. CASE ~serving[r].admin
    <3>1. Admins \ {Target(r)} # {}
      BY <1>6, <2>1, <2>4 DEF Entitled
    <3>2. Admins' # {}
      BY <2>2, <3>1 DEF Admins
    <3> QED  BY <1>21, <2>1, <2>4, <3>2 DEF Removing
  <2> QED  BY <2>3, <2>4, <1>6, <2>1
<1>24. ASSUME NEW r \in Requests, DeleteUserRow(r) PROVE SomeAdmin' /\ AllEntitled'
  <2>1. /\ r \in DOMAIN serving /\ users' = Without(users, {Target(r)})
        /\ Answer(r) /\ serving[r].step = "delete_row"
    BY <1>24 DEF DeleteUserRow, At
  <2>2. /\ DOMAIN users' = DOMAIN users \ {Target(r)}
        /\ \A v \in DOMAIN users' : users'[v] = users[v]
    BY <1>0, <2>1, DeleteUsers
  <2>3. Admins \ {Target(r)} # {}
    BY <1>6, <2>1 DEF Entitled
  <2>4. Admins' # {}
    BY <2>2, <2>3 DEF Admins
  <2> QED  BY <1>21, <2>1, <2>4 DEF Removing
<1>25. ASSUME CacheExpires \/ Restart \/ UNCHANGED vars PROVE SomeAdmin' /\ AllEntitled'
  BY <1>25, <1>0
     DEF CacheExpires, Restart, vars, SomeAdmin, AllEntitled, Entitled, Admins, NoRows
<1>26. ~(CliStep /\ contended' = TRUE)
  OBVIOUS
<1> QED
  BY <1>7, <1>8, <1>9, <1>10, <1>11, <1>12, <1>13, <1>14, <1>15, <1>16, <1>17, <1>18,
     <1>19, <1>20, <1>22, <1>23, <1>24, <1>25, <1>26 DEF Next, RequestStep

LEMMA CalmInvHolds == Spec => []UncontendedInv
<1>1. Init => UncontendedInv
  BY InitType DEF Init, UncontendedInv, RemovalsApart, SomeAdmin, AllEntitled, NoRows
<1>2. UncontendedInv /\ [Next]_vars => UncontendedInv'
  <2> SUFFICES ASSUME UncontendedInv, [Next]_vars PROVE UncontendedInv'
    OBVIOUS
  <2>0. TypeOK'
    BY StepType DEF UncontendedInv
  <2> SUFFICES ASSUME ~contended' PROVE RemovalsApart' /\ SomeAdmin' /\ AllEntitled'
    BY <2>0, Zenon DEF UncontendedInv
  <2>1. ~contended
    BY DEF Next, vars
  <2>2. SomeAdmin' /\ AllEntitled'
    BY <2>1, CalmStep DEF UncontendedInv
  <2>3. RemovalsApart'
    <3>1. RemovalsApart
      BY <2>1 DEF UncontendedInv
    <3>2. CASE CacheExpires \/ UNCHANGED vars
      BY <3>1, <3>2 DEF CacheExpires, RemovalsApart, vars
    <3>3. CASE Restart
      BY <3>3 DEF Restart, RemovalsApart, NoRows
    <3>4. CASE contended' = (contended \/ ~RemovalsApart')
      BY <3>4
    <3> QED  BY <3>2, <3>3, <3>4 DEF Next
  <2> QED  BY <2>2, <2>3
<1> QED  BY <1>1, <1>2, PTL DEF Spec

\* The last-admin guard fails in two ways only: two requests that take "admin"
\* away overlap, or the command line is used.  Until then there is always an
\* admin while there are accounts, however many creations, promotions,
\* onboardings and status polls overlap a demotion or a deletion.
THEOREM OnlyTwoRemovalsLockOut == Spec => []AdminRemains
<1>1. UncontendedInv => AdminRemains
  BY DEF UncontendedInv, AdminRemains
<1> QED
  BY <1>1, CalmInvHolds, PTL

-----------------------------------------------------------------------------
(* The status cache.                                                       *)

\* The steps of the requests that anybody may make.
OpenSteps == {"mint", "onboard_find", "onboard_add", "onboard_clear", "onboard_refuse"}

\* A request that only an admin may make is served only where there are accounts.
Called == \A r \in DOMAIN serving : serving[r].step \notin OpenSteps => users # NoRows

FreshInv == contended \/ (CacheFresh /\ Called)

\* A step of r takes nobody else off his way.
OthersStay(r) ==
  \A s \in DOMAIN serving \ {r} : s \in DOMAIN serving' /\ serving'[s] = serving[s]

LEMMA OnlyItMoves ==
  ASSUME ServingTypeOK, NEW r \in Requests, RequestStep(r)
  PROVE  OthersKept(r) /\ OthersStay(r)
<1>1. ASSUME NEW s, NEW u, NEW a, Begin(r, s, u, a) PROVE OthersKept(r) /\ OthersStay(r)
  BY <1>1 DEF Begin, Idle, Put, OthersKept, OthersStay
<1>2. ASSUME NEW s, r \in DOMAIN serving, Advance(r, s) PROVE OthersKept(r) /\ OthersStay(r)
  BY <1>2 DEF Advance, ServingTypeOK, OthersKept, OthersStay
<1>3. ASSUME Answer(r) PROVE OthersKept(r) /\ OthersStay(r)
  BY <1>3 DEF Answer, Without, Restrict, OthersKept, OthersStay
<1>4. ASSUME UNCHANGED serving PROVE OthersKept(r) /\ OthersStay(r)
  BY <1>4 DEF OthersKept, OthersStay
<1>5. \/ UNCHANGED serving \/ Answer(r)
      \/ \E s, u, a : Begin(r, s, u, a)
      \/ r \in DOMAIN serving /\ \E s : Advance(r, s)
  BY DEF RequestStep, At, Status, StatusMint, OnboardToken, OnboardFind, OnboardRefuse,
     OnboardAdd, OnboardClear, CreateUser, CreateUserFind, CreateUserAdd, UpdateUser,
     DemoteFind, DemoteCount, UpdateUserFind, UpdateUserWrite, DeleteUser, DeleteUserFind,
     DeleteUserCount, DeleteUserRow
<1> QED  BY <1>1, <1>2, <1>3, <1>4, <1>5

\* A step of r that leaves the cache alone, and the table as empty as it was.
LEMMA FreshKept ==
  ASSUME CacheFresh, Called, NEW r, OthersKept(r), OthersStay(r), ~At(r, "onboard_clear"),
         hasUsers' = "no" => hasUsers = "no" \/ users = NoRows,
         users = NoRows <=> users' = NoRows,
         r \in DOMAIN serving' /\ serving'[r].step \notin OpenSteps => users # NoRows
  PROVE  CacheFresh' /\ Called'
<1>1. ASSUME NEW q \in Requests, At(q, "onboard_clear") PROVE At(q, "onboard_clear")'
  BY <1>1 DEF At, OthersStay
<1>2. CacheFresh'
  BY <1>1 DEF CacheFresh
<1>3. Called'
  BY DEF Called, OthersKept
<1> QED  BY <1>2, <1>3

LEMMA FreshStep ==
  ASSUME TypeOK, AllEntitled, CacheFresh, Called, NEW r \in Requests, RequestStep(r)
  PROVE  CacheFresh' /\ Called'
<1>0. ServingTypeOK /\ UsersTypeOK /\ OthersKept(r) /\ OthersStay(r)
  BY TypeParts, OnlyItMoves
<1>1. ASSUME r \in DOMAIN serving PROVE Target(r) \in Usernames /\ serving[r].admin \in BOOLEAN
  BY <1>1, InFlight
<1>2. CASE Status(r)
  <2>1. r \in DOMAIN serving' => serving'[r].step \in OpenSteps
    BY <1>2 DEF Status, Begin, Idle, Put, OpenSteps
  <2>2. UNCHANGED users /\ ~At(r, "onboard_clear")
    BY <1>2 DEF Status, Begin, Idle, At
  <2>3. hasUsers' = "no" => hasUsers = "no" \/ users = NoRows
    BY <1>2 DEF Status, HasUsersCached, Answers
  <2> QED  BY <1>0, <2>1, <2>2, <2>3, FreshKept
<1>3. CASE StatusMint(r) \/ OnboardRefuse(r)
  <2>1. r \notin DOMAIN serving' /\ UNCHANGED <<users, hasUsers>> /\ ~At(r, "onboard_clear")
    BY <1>3 DEF StatusMint, OnboardRefuse, At, Answer, Without, Restrict
  <2> QED  BY <1>0, <2>1, FreshKept
<1>4. CASE OnboardToken(r) \/ CreateUser(r) \/ UpdateUser(r) \/ DeleteUser(r)
  <2>1. UNCHANGED <<users, hasUsers>> /\ ~At(r, "onboard_clear")
    BY <1>4 DEF OnboardToken, CreateUser, UpdateUser, DeleteUser, Begin, Idle, At
  <2>2. Admins # {} => users # NoRows
    BY DEF Admins, NoRows
  <2>3. serving'[r].step \in OpenSteps \/ users # NoRows
    <3>1. CASE OnboardToken(r)
      BY <3>1 DEF OnboardToken, Begin, Idle, Put, OpenSteps
    <3>2. CASE CreateUser(r) \/ UpdateUser(r) \/ DeleteUser(r)
      BY <2>2, <3>2 DEF CreateUser, UpdateUser, DeleteUser, AdminCalls
    <3> QED  BY <1>4, <3>1, <3>2
  <2> QED  BY <1>0, <2>1, <2>3, FreshKept
<1>5. CASE OnboardFind(r)
  <2>1. UNCHANGED <<users, hasUsers>> /\ ~At(r, "onboard_clear")
    BY <1>5 DEF OnboardFind, At
  <2>2. serving'[r].step \in OpenSteps
    BY <1>0, <1>5, AdvanceServing DEF OnboardFind, At, Steps, OpenSteps
  <2> QED  BY <1>0, <2>1, <2>2, FreshKept
<1>6. CASE OnboardAdd(r)
  <2>1. r \in DOMAIN serving /\ users' = Put(users, Target(r), TRUE)
    BY <1>6 DEF OnboardAdd, At
  <2>2. users' # NoRows
    BY <1>0, <1>1, <2>1, PutUser, NoRowsEmpty
  <2>3. At(r, "onboard_clear")'
    BY <1>0, <1>6, AdvanceServing DEF OnboardAdd, At, Steps
  <2> QED  BY <2>2, <2>3 DEF CacheFresh, Called
<1>7. CASE OnboardClear(r)
  <2>1. r \notin DOMAIN serving' /\ UNCHANGED users /\ hasUsers' = "unknown"
    BY <1>7 DEF OnboardClear, Answer, Without, Restrict
  <2> QED  BY <1>0, <2>1 DEF CacheFresh, Called, OthersKept
\* What only an admin may ask for meets a table that is not empty.
<1>8. ASSUME r \in DOMAIN serving, serving[r].step \notin OpenSteps, UNCHANGED hasUsers,
             users # NoRows => users' # NoRows
      PROVE  CacheFresh' /\ Called'
  <2>1. users # NoRows /\ users' # NoRows
    BY <1>8 DEF Called
  <2>2. ~At(r, "onboard_clear")
    BY <1>8 DEF At, OpenSteps
  <2> QED  BY <1>0, <1>8, <2>1, <2>2, FreshKept
<1>9. CASE \/ CreateUserFind(r) \/ DemoteFind(r) \/ DemoteCount(r) \/ UpdateUserFind(r)
           \/ DeleteUserFind(r) \/ DeleteUserCount(r)
  <2>1. /\ r \in DOMAIN serving /\ serving[r].step \notin OpenSteps
        /\ UNCHANGED <<users, hasUsers>>
    BY <1>9 DEF CreateUserFind, DemoteFind, DemoteCount, UpdateUserFind, DeleteUserFind,
       DeleteUserCount, At, OpenSteps
  <2> QED  BY <1>8, <2>1
<1>10. CASE CreateUserAdd(r)
  <2>1. /\ r \in DOMAIN serving /\ serving[r].step \notin OpenSteps /\ UNCHANGED hasUsers
        /\ users' = Put(users, Target(r), serving[r].admin)
    BY <1>10 DEF CreateUserAdd, At, OpenSteps
  <2>2. users' # NoRows
    BY <1>0, <1>1, <2>1, PutUser, NoRowsEmpty
  <2> QED  BY <1>8, <2>1, <2>2
<1>11. CASE UpdateUserWrite(r)
  <2>1. /\ r \in DOMAIN serving /\ serving[r].step \notin OpenSteps /\ UNCHANGED hasUsers
        /\ users' = Update(users, Target(r), serving[r].admin)
    BY <1>11 DEF UpdateUserWrite, WriteUser, At, OpenSteps
  <2>2. users # NoRows => users' # NoRows
    BY <1>0, <1>1, <2>1, UpdateUsers, NoRowsEmpty, EmptyIsNoRows
  <2> QED  BY <1>8, <2>1, <2>2
<1>12. CASE DeleteUserRow(r)
  <2>1. /\ r \in DOMAIN serving /\ serving[r].step = "delete_row" /\ UNCHANGED hasUsers
        /\ users' = Without(users, {Target(r)})
    BY <1>12 DEF DeleteUserRow, At
  <2>2. Admins \ {Target(r)} # {}
    BY <2>1 DEF AllEntitled, Entitled, Target
  <2>3. DOMAIN users' # {}
    BY <1>0, <2>1, <2>2, DeleteUsers DEF Admins
  <2>4. users' # NoRows
    BY <2>3, NoRowsEmpty
  <2> QED  BY <1>8, <2>1, <2>4 DEF OpenSteps
<1> QED
  BY <1>2, <1>3, <1>4, <1>5, <1>6, <1>7, <1>9, <1>10, <1>11, <1>12 DEF RequestStep

\* Until something has been contended, the status cache never keeps "nobody has
\* an account" past the onboarding that made it wrong, however many forms race
\* and whatever else is asked for meanwhile.
THEOREM StaleNoIsAlwaysDropped == Spec => []StaleNoIsDropped
<1>1. Init => FreshInv
  BY DEF Init, FreshInv, CacheFresh, Called, NoRows
<1>2. UncontendedInv /\ FreshInv /\ [Next]_vars => FreshInv'
  <2> SUFFICES ASSUME UncontendedInv, FreshInv, [Next]_vars PROVE FreshInv'
    OBVIOUS
  <2> SUFFICES ASSUME ~contended' PROVE CacheFresh' /\ Called'
    BY Zenon DEF FreshInv
  <2>1. ~contended
    BY DEF Next, vars
  <2>2. TypeOK /\ AllEntitled /\ CacheFresh /\ Called
    BY <2>1 DEF UncontendedInv, FreshInv
  <2>3. ASSUME NEW r \in Requests, RequestStep(r) PROVE CacheFresh' /\ Called'
    BY <2>2, <2>3, FreshStep
  <2>4. CASE UNCHANGED vars
    BY <2>2, <2>4 DEF vars, CacheFresh, Called, At
  <2>5. CASE CacheExpires
    BY <2>2, <2>5 DEF CacheExpires, CacheFresh, Called
  <2>6. CASE Restart
    BY <2>6 DEF Restart, CacheFresh, Called, NoRows
  <2>7. ~(CliStep /\ contended' = TRUE)
    OBVIOUS
  <2> QED  BY <2>3, <2>4, <2>5, <2>6, <2>7 DEF Next
<1>3. FreshInv => StaleNoIsDropped
  BY DEF FreshInv, StaleNoIsDropped
<1> QED
  BY <1>1, <1>2, <1>3, CalmInvHolds, PTL DEF Spec
=============================================================================
