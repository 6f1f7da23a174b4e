---------------------------- MODULE LoginProofs ----------------------------
(***************************************************************************)
(* What holds of Login for any number of requests, accounts, addresses and *)
(* passkeys, and any limit and window of the limiter.                      *)
(***************************************************************************)
EXTENDS Login, DataTheorems, FiniteSetTheorems

Steps == {"login_find", "login_upgrade", "clear", "record_failure", "finish",
          "passkey_allow", "passkey_find", "passkey_list", "passkey_usage",
          "auth_find", "register_begin", "register_take", "register_add",
          "delete_passkey"}

Failures == [count: Nat \ {0}, left: 0..LoginRateWindow]

-----------------------------------------------------------------------------
(* Requests keep their type as they progress.                              *)

ServingOK == DOMAIN serving \subseteq Requests /\ serving \in [DOMAIN serving -> Serving]

LEMMA NoBodyType == ASSUME NEW step \in Steps PROVE NoBody(step) \in Serving
BY LoginAssumption DEF NoBody, Serving, Steps

LEMMA BeginType ==
  ASSUME ServingOK, NEW r \in Requests, NEW request \in Serving, Begin(r, request)
  PROVE  ServingOK'
BY PutType DEF ServingOK, Begin, Put

LEMMA AdvanceType ==
  ASSUME ServingOK, NEW r \in DOMAIN serving, NEW step \in Steps, Advance(r, step)
  PROVE  ServingOK'
BY DEF ServingOK, Advance, Serving, Steps

LEMMA TakeType ==
  ASSUME ServingOK, NEW r \in DOMAIN serving, NEW step \in Steps, NEW c \in {0} \cup Challenges,
         serving' = [serving EXCEPT ![r].step = step, ![r].ceremony = c]
  PROVE  ServingOK'
BY DEF ServingOK, Serving, Steps

LEMMA CountType ==
  ASSUME ServingOK, NEW r \in DOMAIN serving, NEW step \in Steps, NEW n \in 0..MaxCount,
         serving' = [serving EXCEPT ![r].step = step, ![r].count = n]
  PROVE  ServingOK'
BY DEF ServingOK, Serving, Steps

LEMMA AnswerType == ASSUME ServingOK, NEW r, Answer(r) PROVE ServingOK'
BY DEF ServingOK, Answer, Without, Restrict

LEMMA EvictType ==
  ASSUME failures \in [DOMAIN failures -> Failures]
  PROVE  /\ DOMAIN EvictExpired(failures) \subseteq DOMAIN failures
         /\ EvictExpired(failures) \in [DOMAIN EvictExpired(failures) -> Failures]
BY DEF EvictExpired, Restrict

LEMMA TypeInit == Init => TypeOK
BY LoginAssumption DEF Init, TypeOK, NoRows, User

LEMMA TypeStep == TypeOK /\ [Next]_vars => TypeOK'
<1> SUFFICES ASSUME TypeOK, [Next]_vars PROVE TypeOK'
  OBVIOUS
<1> USE DEF tables, memory, ServingOK, At
<1>1. ServingOK /\ failures \in [DOMAIN failures -> Failures]
  BY DEF TypeOK, Failures
<1>2. ASSUME NEW r \in Requests, Login(r) PROVE TypeOK'
  <2>1. PICK ip \in Addresses, u \in Usernames, p \in Passwords :
          Allow(r, ip,
                Begin(r, [NoBody("login_find") EXCEPT !.ip = ip, !.user = u, !.password = p]),
                UNCHANGED serving)
    BY <1>2 DEF Login
  <2>2. [NoBody("login_find") EXCEPT !.ip = ip, !.user = u, !.password = p] \in Serving
    BY NoBodyType DEF Serving, Steps
  <2>3. ServingOK'
    BY <1>1, <2>1, <2>2, BeginType DEF Allow
  <2> QED
    BY <1>1, <1>2, <2>1, <2>3, EvictType DEF TypeOK, Login, Allow, Failures
<1>3. ASSUME NEW r \in Requests, LoginFind(r) PROVE TypeOK'
  <2>1. ServingOK'
    BY <1>1, <1>3, AdvanceType DEF LoginFind, Steps
  <2> QED
    BY <1>3, <2>1 DEF TypeOK, LoginFind
<1>4. ASSUME NEW r \in Requests, LoginUpgrade(r) PROVE TypeOK'
  <2>1. ServingOK'
    BY <1>1, <1>4, AdvanceType DEF LoginUpgrade, Steps
  <2> QED
    BY <1>4, <2>1 DEF TypeOK, LoginUpgrade, Upgrade, Update, User, Serving
<1>5. ASSUME NEW r \in Requests, RecordFailure(r) PROVE TypeOK'
  <2> DEFINE ip == serving[r].ip
  <2>1. ServingOK' /\ ip \in Addresses
    BY <1>1, <1>5, AnswerType DEF RecordFailure, Serving
  <2>2. [count |-> 1, left |-> LoginRateWindow] \in Failures
    BY LoginAssumption DEF Failures
  <2>3. DOMAIN failures' \subseteq Addresses /\ failures' \in [DOMAIN failures' -> Failures]
    BY <1>1, <1>5, <2>1, <2>2, PutType DEF RecordFailure, TypeOK, Put, Failures
  <2> QED
    BY <1>5, <2>1, <2>3 DEF TypeOK, RecordFailure, Failures
<1>6. ASSUME NEW r \in Requests, ClearFailures(r) PROVE TypeOK'
  <2>1. ServingOK'
    BY <1>1, <1>6, AdvanceType DEF ClearFailures, Steps
  <2> QED
    BY <1>6, <2>1 DEF TypeOK, ClearFailures, Without, Restrict
<1>7. ASSUME NEW r \in Requests, FinishLogin(r) PROVE TypeOK'
  <2>1. ServingOK' /\ serving[r].user \in Usernames
    BY <1>1, <1>7, AnswerType DEF FinishLogin, Serving
  <2> QED
    BY LoginAssumption, <1>7, <2>1 DEF TypeOK, FinishLogin, Tokens, Put
<1>8. ASSUME NEW r \in Requests, Authenticate(r) PROVE TypeOK'
  <2>1. PICK t \in DOMAIN sessions :
          IF sessions[t].valid
          THEN /\ Begin(r, [NoBody("auth_find") EXCEPT !.user = sessions[t].user])
               /\ UNCHANGED sessions
          ELSE /\ Idle(r)
               /\ sessions' = Without(sessions, {t})
               /\ UNCHANGED serving
    BY <1>8 DEF Authenticate
  <2>2. [NoBody("auth_find") EXCEPT !.user = sessions[t].user] \in Serving
    BY NoBodyType DEF TypeOK, Serving, Steps
  <2>3. ServingOK'
    BY <1>1, <2>1, <2>2, BeginType
  <2> QED
    BY <1>8, <2>1, <2>3 DEF TypeOK, Authenticate, Without, Restrict
<1>9. ASSUME NEW r \in Requests, AuthFind(r) PROVE TypeOK'
  <2>1. ServingOK'
    BY <1>1, <1>9, AdvanceType, AnswerType DEF AuthFind, PasskeySteps, Steps
  <2> QED
    BY <1>9, <2>1 DEF TypeOK, AuthFind
<1>10. ASSUME NEW r \in Requests, RegisterBegin(r) PROVE TypeOK'
  <2>1. ServingOK' /\ serving[r].user \in Usernames
    BY <1>1, <1>10, AnswerType DEF RegisterBegin, Serving
  <2> QED
    BY LoginAssumption, <1>10, <2>1 DEF TypeOK, RegisterBegin, Challenges, Put
<1>11. ASSUME NEW r \in Requests, RegisterTake(r) PROVE TypeOK'
  <2> DEFINE u == serving[r].user
  <2>1. ASSUME u \in DOMAIN registrations /\ registrations[u].valid PROVE ServingOK'
    <3>1. serving' = [serving EXCEPT ![r].step = "register_add",
                                     ![r].ceremony = registrations[u].challenge]
      BY <1>11, <2>1 DEF RegisterTake
    <3>2. registrations[u].challenge \in {0} \cup Challenges
      BY <2>1 DEF TypeOK
    <3> QED
      BY <1>1, <1>11, <3>1, <3>2, TakeType DEF RegisterTake, Steps
  <2>2. ASSUME ~(u \in DOMAIN registrations /\ registrations[u].valid) PROVE ServingOK'
    BY <1>1, <1>11, <2>2, AnswerType DEF RegisterTake
  <2>3. ServingOK'
    BY <2>1, <2>2
  <2> QED
    BY <1>11, <2>3 DEF TypeOK, RegisterTake, Taken, Without, Restrict
<1>12. ASSUME NEW r \in Requests, RegisterAdd(r) PROVE TypeOK'
  <2>1. ServingOK' /\ serving[r].user \in Usernames
    BY <1>1, <1>12, AnswerType DEF RegisterAdd, Serving
  <2>2. [user |-> serving[r].user, count |-> 0] \in Credential
    BY LoginAssumption, <2>1 DEF Credential
  <2> QED
    BY <1>12, <2>1, <2>2, PutType DEF TypeOK, RegisterAdd, Put
<1>13. ASSUME NEW r \in Requests, DeletePasskey(r) PROVE TypeOK'
  <2>1. ServingOK'
    BY <1>1, <1>13, AnswerType DEF DeletePasskey
  <2> QED
    BY <1>13, <2>1 DEF TypeOK, DeletePasskey, Revoked, Without, Restrict
<1>14. CASE PasskeyBegin
  BY LoginAssumption, <1>14 DEF TypeOK, PasskeyBegin, Challenges, Put
<1>15. ASSUME NEW r \in Requests, PasskeyTake(r) PROVE TypeOK'
  <2>1. PICK c \in DOMAIN logins, k \in DOMAIN authenticators, ip \in Addresses :
          /\ authenticators[k].count < MaxCount
          /\ authenticators' = [authenticators EXCEPT ![k].count = @ + 1]
          /\ IF logins[c].valid
             THEN Begin(r, [NoBody("passkey_allow") EXCEPT
                              !.ip = ip, !.user = authenticators[k].user,
                              !.ceremony = c, !.key = k, !.count = authenticators[k].count + 1])
             ELSE UNCHANGED serving
          /\ logins' = Taken(logins, c)
    BY <1>15 DEF PasskeyTake
  <2>2. /\ authenticators[k] \in Credential /\ authenticators[k].count + 1 \in 0..MaxCount
        /\ k \in Keys /\ c \in Challenges
    BY LoginAssumption, <2>1 DEF TypeOK, Credential
  <2>3. [NoBody("passkey_allow") EXCEPT
           !.ip = ip, !.user = authenticators[k].user,
           !.ceremony = c, !.key = k, !.count = authenticators[k].count + 1] \in Serving
    BY <2>2, NoBodyType DEF Serving, Steps, Credential
  <2>4. ServingOK'
    BY <1>1, <2>1, <2>3, BeginType
  <2>5. /\ DOMAIN authenticators' \subseteq Keys
        /\ authenticators' \in [DOMAIN authenticators' -> Credential]
    BY <2>1, <2>2 DEF TypeOK, Credential
  <2> QED
    BY <1>15, <2>1, <2>4, <2>5 DEF TypeOK, PasskeyTake, Taken, Without, Restrict
<1>16. ASSUME NEW r \in Requests, PasskeyAllow(r) PROVE TypeOK'
  <2>1. ServingOK'
    BY <1>1, <1>16, AdvanceType, AnswerType DEF PasskeyAllow, Allow, Steps
  <2> QED
    BY <1>1, <1>16, <2>1, EvictType DEF TypeOK, PasskeyAllow, Allow, Failures
<1>17. ASSUME NEW r \in Requests, PasskeyFind(r) PROVE TypeOK'
  <2>1. ServingOK'
    BY <1>1, <1>17, AdvanceType DEF PasskeyFind, Steps
  <2> QED
    BY <1>17, <2>1 DEF TypeOK, PasskeyFind
<1>18. ASSUME NEW r \in Requests, PasskeyList(r) PROVE TypeOK'
  <2> DEFINE k == serving[r].key
             after == CountAfter(passkeys[k].count, serving[r].count)
  <2>1. ASSUME Advance(r, "record_failure") PROVE ServingOK'
    BY <1>1, <1>18, <2>1, AdvanceType DEF PasskeyList, Steps
  <2>2. ASSUME k \in DOMAIN passkeys,
               serving' = [serving EXCEPT ![r].step = "clear",
                                          ![r].count = CountAfter(passkeys[k].count, @)]
        PROVE  ServingOK'
    <3>1. after \in 0..MaxCount
      BY <1>1, <1>18, <2>2 DEF TypeOK, PasskeyList, Credential, Serving, CountAfter
    <3>2. serving' = [serving EXCEPT ![r].step = "clear", ![r].count = after]
      BY <1>1, <1>18, <2>2 DEF PasskeyList
    <3> HIDE DEF after
    <3> QED
      BY <1>1, <1>18, <3>1, <3>2, CountType DEF PasskeyList, Steps
  <2>3. ServingOK'
    BY <1>18, <2>1, <2>2 DEF PasskeyList
  <2> QED
    BY <1>18, <2>3 DEF TypeOK, PasskeyList
<1>19. ASSUME NEW r \in Requests, PasskeyUsage(r) PROVE TypeOK'
  <2>1. ServingOK' /\ serving[r].count \in 0..MaxCount
    BY <1>1, <1>19, AdvanceType DEF PasskeyUsage, Serving, Steps
  <2> QED
    BY <1>19, <2>1 DEF TypeOK, PasskeyUsage, WriteUsage, Credential
<1>20. CASE Tick
  BY LoginAssumption, <1>20 DEF TypeOK, Tick
<1>21. CASE SessionExpires
  <2>1. PICK t \in DOMAIN sessions : sessions' = [sessions EXCEPT ![t].valid = FALSE]
    BY <1>21 DEF SessionExpires
  <2>2. DOMAIN sessions' \subseteq Tokens
        /\ sessions' \in [DOMAIN sessions' -> [user: Usernames, valid: BOOLEAN]]
    BY <2>1 DEF TypeOK
  <2> QED
    BY <1>21, <2>2 DEF TypeOK, SessionExpires
<1>22. CASE CeremonyExpires
  <2>1. ASSUME NEW c \in DOMAIN logins, logins' = [logins EXCEPT ![c].valid = FALSE],
               UNCHANGED registrations
        PROVE  TypeOK'
    BY <1>22, <2>1 DEF TypeOK, CeremonyExpires
  <2>2. ASSUME NEW u \in DOMAIN registrations, UNCHANGED logins,
               registrations' = [registrations EXCEPT ![u].valid = FALSE]
        PROVE  TypeOK'
    BY <1>22, <2>2 DEF TypeOK, CeremonyExpires
  <2> QED
    BY <1>22, <2>1, <2>2 DEF CeremonyExpires
<1>23. CASE SetPassword \/ DeleteAccount
  <2>1. DOMAIN users' \subseteq Usernames /\ users' \in [DOMAIN users' -> User]
    <3>1. CASE SetPassword
      <4>1. PICK u \in Usernames, p \in Passwords :
              users' = Put(users, u, [password |-> p, legacy |-> FALSE])
        BY <3>1 DEF SetPassword
      <4> QED
        BY <4>1 DEF TypeOK, Put, User
    <3>2. CASE DeleteAccount
      BY <3>2 DEF TypeOK, DeleteAccount, Without, Restrict
    <3> QED
      BY <1>23, <3>1, <3>2
  <2> QED
    BY <1>23, <2>1 DEF TypeOK, SetPassword, DeleteAccount
<1>24. CASE Logout \/ CliRevoke
  BY <1>24 DEF TypeOK, Logout, CliRevoke, Revoked, Without, Restrict
<1>25. CASE Restart
  BY <1>25 DEF TypeOK, Restart, NoRows
<1>26. CASE UNCHANGED vars
  BY <1>26 DEF TypeOK, vars
<1> QED
  BY <1>2, <1>3, <1>4, <1>5, <1>6, <1>7, <1>8, <1>9, <1>10, <1>11, <1>12, <1>13, <1>14, <1>15,
     <1>16, <1>17, <1>18, <1>19, <1>20, <1>21, <1>22, <1>23, <1>24, <1>25, <1>26
     DEF Next, RequestStep

-----------------------------------------------------------------------------
(* A challenge is drawn once and kept in one place.                        *)

Holds(r, c) == r \in DOMAIN serving /\ serving[r].ceremony = c

Drawn == 1..(nextCeremony - 1)

HeldOnce ==
  /\ DOMAIN logins \subseteq Drawn
  /\ \A u \in DOMAIN registrations :
       /\ registrations[u].challenge \in Drawn \ DOMAIN logins
       /\ \A v \in DOMAIN registrations \ {u} :
            registrations[v].challenge # registrations[u].challenge
  /\ \A r \in DOMAIN serving : serving[r].ceremony # 0 =>
       /\ serving[r].ceremony \in Drawn \ DOMAIN logins
       /\ \A u \in DOMAIN registrations : registrations[u].challenge # serving[r].ceremony
       /\ \A s \in DOMAIN serving \ {r} : serving[s].ceremony # serving[r].ceremony

\* A step that draws and takes no ceremony may drop or expire some.
KeepsHeld ==
  \A r \in DOMAIN serving' : \/ serving'[r].ceremony = 0
                             \/ Holds(r, serving'[r].ceremony)
NoneTaken ==
  /\ nextCeremony' = nextCeremony
  /\ DOMAIN logins' \subseteq DOMAIN logins
  /\ DOMAIN registrations' \subseteq DOMAIN registrations
  /\ \A u \in DOMAIN registrations' : registrations'[u].challenge = registrations[u].challenge
  /\ KeepsHeld

LEMMA NoneTakenStep == HeldOnce /\ NoneTaken => HeldOnce'
BY DEF HeldOnce, NoneTaken, KeepsHeld, Drawn, Holds

LEMMA BeginKeeps ==
  ASSUME NEW r, NEW request, request.ceremony = 0, Begin(r, request)
  PROVE  KeepsHeld
BY DEF Begin, Put, KeepsHeld, Holds

LEMMA AdvanceKeeps == ASSUME ServingOK, NEW r, NEW step, Advance(r, step) PROVE KeepsHeld
BY DEF Advance, ServingOK, Serving, KeepsHeld, Holds

LEMMA AnswerKeeps == ASSUME NEW r, Answer(r) PROVE KeepsHeld
BY DEF Answer, Without, Restrict, KeepsHeld, Holds

LEMMA SameKeeps == UNCHANGED serving => KeepsHeld
BY DEF KeepsHeld, Holds

LEMMA HeldInit == Init => HeldOnce
BY DEF Init, HeldOnce, NoRows

LEMMA HeldStep == TypeOK /\ HeldOnce /\ [Next]_vars => HeldOnce'
<1> SUFFICES ASSUME TypeOK, HeldOnce, [Next]_vars PROVE HeldOnce'
  OBVIOUS
<1> USE DEF tables, memory, At
<1>1. ServingOK
  BY DEF TypeOK, ServingOK
<1>2. ASSUME NEW r \in Requests, Login(r) PROVE NoneTaken
  <2>1. KeepsHeld
    BY <1>2, BeginKeeps, SameKeeps DEF Login, Allow, NoBody
  <2> QED
    BY <1>2, <2>1 DEF NoneTaken, Login
<1>3. ASSUME NEW r \in Requests,
             \/ LoginFind(r) \/ LoginUpgrade(r) \/ ClearFailures(r)
             \/ PasskeyFind(r) \/ PasskeyUsage(r)
      PROVE  NoneTaken
  <2>1. KeepsHeld
    BY <1>1, <1>3, AdvanceKeeps
       DEF LoginFind, LoginUpgrade, ClearFailures, PasskeyFind, PasskeyUsage
  <2> QED
    BY <1>3, <2>1
       DEF NoneTaken, LoginFind, LoginUpgrade, ClearFailures, PasskeyFind, PasskeyUsage
<1>4. ASSUME NEW r \in Requests,
             RecordFailure(r) \/ FinishLogin(r) \/ RegisterAdd(r) \/ DeletePasskey(r)
      PROVE  NoneTaken
  <2>1. KeepsHeld
    BY <1>4, AnswerKeeps DEF RecordFailure, FinishLogin, RegisterAdd, DeletePasskey
  <2> QED
    BY <1>4, <2>1 DEF NoneTaken, RecordFailure, FinishLogin, RegisterAdd, DeletePasskey
<1>5. ASSUME NEW r \in Requests, Authenticate(r) PROVE NoneTaken
  <2>1. KeepsHeld
    BY <1>5, BeginKeeps, SameKeeps DEF Authenticate, NoBody
  <2> QED
    BY <1>5, <2>1 DEF NoneTaken, Authenticate
<1>6. ASSUME NEW r \in Requests, AuthFind(r) \/ PasskeyAllow(r) PROVE NoneTaken
  <2>1. KeepsHeld
    BY <1>1, <1>6, AdvanceKeeps, AnswerKeeps DEF AuthFind, PasskeyAllow, Allow
  <2> QED
    BY <1>6, <2>1 DEF NoneTaken, AuthFind, PasskeyAllow
<1>7. ASSUME NEW r \in Requests, PasskeyList(r) PROVE NoneTaken
  <2>1. KeepsHeld
    BY <1>1, <1>7, AdvanceKeeps DEF PasskeyList, ServingOK, Serving, KeepsHeld, Holds
  <2> QED
    BY <1>7, <2>1 DEF NoneTaken, PasskeyList
<1>8. ASSUME NEW r \in Requests, RegisterBegin(r) PROVE HeldOnce'
  BY <1>8 DEF RegisterBegin, HeldOnce, Drawn, TypeOK, Answer, Put, Without, Restrict
<1>9. ASSUME NEW r \in Requests, RegisterTake(r) PROVE HeldOnce'
  BY <1>1, <1>9
     DEF RegisterTake, HeldOnce, Drawn, ServingOK, Serving, Answer, Taken, Without, Restrict
<1>10. CASE PasskeyBegin
  BY <1>10 DEF PasskeyBegin, HeldOnce, Drawn, TypeOK, Put
<1>11. ASSUME NEW r \in Requests, PasskeyTake(r) PROVE HeldOnce'
  <2>1. PICK c \in DOMAIN logins, k \in DOMAIN authenticators, ip \in Addresses :
          /\ \/ Begin(r, [NoBody("passkey_allow") EXCEPT
                            !.ip = ip, !.user = authenticators[k].user,
                            !.ceremony = c, !.key = k, !.count = authenticators[k].count + 1])
             \/ UNCHANGED serving
          /\ logins' = Taken(logins, c)
    BY <1>11 DEF PasskeyTake
  <2>2. \A s \in DOMAIN serving' : (s = r /\ serving'[s].ceremony = c)
                                   \/ Holds(s, serving'[s].ceremony)
    <3> DEFINE request == [NoBody("passkey_allow") EXCEPT
                             !.ip = ip, !.user = authenticators[k].user,
                             !.ceremony = c, !.key = k, !.count = authenticators[k].count + 1]
    <3>1. request.ceremony = c
      BY DEF NoBody
    <3>2. CASE UNCHANGED serving
      BY <3>2 DEF Holds
    <3>3. ASSUME Begin(r, request), NEW s \in DOMAIN serving'
          PROVE  (s = r /\ serving'[s].ceremony = c) \/ Holds(s, serving'[s].ceremony)
      <4> HIDE DEF request
      <4> QED
        BY <3>1, <3>3 DEF Begin, Put, Holds
    <3> QED
      BY <2>1, <3>2, <3>3
  <2>3. DOMAIN logins' = DOMAIN logins \ {c} /\ UNCHANGED <<registrations, nextCeremony>>
    BY <1>11, <2>1 DEF PasskeyTake, Taken, Without, Restrict
  <2> QED
    BY <2>1, <2>2, <2>3 DEF HeldOnce, Drawn, Holds
<1>12. CASE CeremonyExpires
  <2>1. /\ DOMAIN logins' = DOMAIN logins /\ DOMAIN registrations' = DOMAIN registrations
        /\ \A u \in DOMAIN registrations : registrations'[u].challenge = registrations[u].challenge
    BY <1>12 DEF CeremonyExpires, TypeOK
  <2> QED
    BY <1>12, <2>1, SameKeeps, NoneTakenStep DEF CeremonyExpires, NoneTaken
<1>13. CASE Restart
  BY <1>13 DEF Restart, HeldOnce, NoRows
<1>14. CASE \/ Tick \/ SessionExpires \/ SetPassword \/ DeleteAccount \/ Logout \/ CliRevoke
            \/ UNCHANGED vars
  BY <1>14, SameKeeps, NoneTakenStep
     DEF Tick, SessionExpires, SetPassword, DeleteAccount, Logout, CliRevoke, vars, NoneTaken
<1> QED
  BY <1>2, <1>3, <1>4, <1>5, <1>6, <1>7, <1>8, <1>9, <1>10, <1>11, <1>12, <1>13, <1>14,
     NoneTakenStep DEF Next, RequestStep

LEMMA Invariance == Spec => [](TypeOK /\ HeldOnce)
<1>1. Init => TypeOK /\ HeldOnce
  BY TypeInit, HeldInit
<1>2. TypeOK /\ HeldOnce /\ [Next]_vars => (TypeOK /\ HeldOnce)'
  BY TypeStep, HeldStep
<1> QED
  BY <1>1, <1>2, PTL DEF Spec

-----------------------------------------------------------------------------
(* How far the limit of failures can be exceeded.                          *)

\* The attempts from an address that the limiter has let pass and that may
\* still turn out to be failures.
Undecided == {"login_find", "record_failure", "passkey_find", "passkey_list"}
Pending(ip) ==
  {r \in DOMAIN serving : serving[r].ip = ip /\ serving[r].step \in Undecided}

\* A failure that is recorded is one attempt less that is pending.
Bounded(ip) ==
  ip \in DOMAIN failures =>
    failures[ip].count + Cardinality(Pending(ip)) < LoginRateLimit + Cardinality(Requests)
AllBounded == \A ip \in Addresses : Bounded(ip)

LEMMA Counts ==
  ASSUME NEW S \in SUBSET Requests, NEW T \in SUBSET S
  PROVE  /\ IsFiniteSet(S) /\ Cardinality(Requests) \in Nat
         /\ Cardinality(S) \in Nat /\ Cardinality(S) <= Cardinality(Requests)
         /\ Cardinality(T) \in Nat /\ Cardinality(T) <= Cardinality(S)
<1>1. IsFiniteSet(S) /\ Cardinality(S) <= Cardinality(Requests)
  BY LoginAssumption, FS_Subset
<1>2. IsFiniteSet(T) /\ Cardinality(T) <= Cardinality(S)
  BY <1>1, FS_Subset
<1> QED
  BY <1>1, <1>2, LoginAssumption, FS_CardinalityType

LEMMA PendingServed ==
  /\ ServingOK => \A ip : Pending(ip) \subseteq Requests
  /\ ServingOK' => \A ip : Pending(ip)' \subseteq Requests
BY DEF Pending, ServingOK

\* What the steps of a request do to the attempts that are pending.
LEMMA BeginPending ==
  ASSUME NEW r, NEW request, Begin(r, request), NEW ip,
         request.ip # ip \/ request.step \notin Undecided
  PROVE  Pending(ip)' \subseteq Pending(ip)
BY DEF Begin, Put, Pending

LEMMA AdvancePending ==
  ASSUME ServingOK, NEW r, NEW step, Advance(r, step), NEW ip,
         \/ step \notin Undecided
         \/ r \in DOMAIN serving => serving[r].ip # ip \/ serving[r].step \in Undecided
  PROVE  Pending(ip)' \subseteq Pending(ip)
BY DEF Advance, Pending, ServingOK, Serving

LEMMA AnswerPending == ASSUME NEW r, Answer(r), NEW ip PROVE Pending(ip)' = Pending(ip) \ {r}
BY DEF Answer, Without, Restrict, Pending

LEMMA SamePending == ASSUME UNCHANGED serving, NEW ip PROVE Pending(ip)' = Pending(ip)
BY DEF Pending

\* A step that lets nobody pass and counts no failure.
LessPending ==
  /\ \A ip \in DOMAIN failures' : ip \in DOMAIN failures /\ failures'[ip].count = failures[ip].count
  /\ \A ip \in Addresses : Pending(ip)' \subseteq Pending(ip)

LEMMA LessPendingStep ==
  ASSUME TypeOK, TypeOK', AllBounded, LessPending
  PROVE  AllBounded'
<1> SUFFICES ASSUME NEW ip \in Addresses, ip \in DOMAIN failures' PROVE Bounded(ip)'
  BY DEF AllBounded, Bounded
<1>1. Pending(ip) \in SUBSET Requests /\ Pending(ip)' \in SUBSET Pending(ip)
  BY PendingServed DEF TypeOK, ServingOK, LessPending
<1>2. /\ ip \in DOMAIN failures /\ failures'[ip].count = failures[ip].count
      /\ failures[ip].count \in Nat
  BY DEF TypeOK, LessPending
<1> HIDE DEF Pending
<1> QED
  BY <1>1, <1>2, LoginAssumption, Counts DEF AllBounded, Bounded

LEMMA AllowBounded ==
  ASSUME TypeOK, TypeOK', AllBounded, NEW ip \in Addresses, NEW other \in Addresses,
         failures' = EvictExpired(failures), other \in DOMAIN failures',
         BelowLimit(failures', ip) \/ Pending(ip)' \subseteq Pending(ip),
         other # ip => Pending(other)' \subseteq Pending(other)
  PROVE  Bounded(other)'
<1>1. /\ Pending(other) \in SUBSET Requests /\ Pending(other)' \in SUBSET Requests
      /\ Pending(other)' \in SUBSET Pending(other)'
  BY PendingServed DEF TypeOK, ServingOK
<1>2. /\ other \in DOMAIN failures /\ failures'[other].count = failures[other].count
      /\ failures[other].count \in Nat
  BY DEF TypeOK, EvictExpired, Restrict
<1>3. CASE Pending(other)' \subseteq Pending(other)
  BY <1>1, <1>2, <1>3, LoginAssumption, Counts DEF AllBounded, Bounded
<1>4. CASE other = ip /\ BelowLimit(failures', ip)
  <2>1. /\ Cardinality(Pending(other)') \in Nat /\ Cardinality(Requests) \in Nat
        /\ Cardinality(Pending(other)') <= Cardinality(Requests)
    BY <1>1, Counts
  <2> QED
    BY <1>2, <1>4, <2>1, LoginAssumption DEF Bounded, BelowLimit
<1> QED
  BY <1>3, <1>4

LEMMA BoundedStep == TypeOK /\ AllBounded /\ [Next]_vars => AllBounded'
<1> SUFFICES ASSUME TypeOK, AllBounded, [Next]_vars PROVE AllBounded'
  OBVIOUS
<1> USE DEF tables, memory, At
<1>1. ServingOK /\ TypeOK' /\ ServingOK'
  BY TypeStep DEF TypeOK, ServingOK
<1>2. ASSUME NEW r \in Requests, Login(r) PROVE AllBounded'
  <2>1. PICK ip \in Addresses, u \in Usernames, p \in Passwords :
          Allow(r, ip,
                Begin(r, [NoBody("login_find") EXCEPT !.ip = ip, !.user = u, !.password = p]),
                UNCHANGED serving)
    BY <1>2 DEF Login
  <2> DEFINE request == [NoBody("login_find") EXCEPT !.ip = ip, !.user = u, !.password = p]
  <2>2. request.ip = ip
    BY DEF NoBody
  <2>3. /\ failures' = EvictExpired(failures)
        /\ (BelowLimit(failures', ip) /\ Begin(r, request)) \/ UNCHANGED serving
    BY <2>1 DEF Allow
  <2> HIDE DEF request
  <2>4. ASSUME NEW other \in Addresses, other # ip PROVE Pending(other)' \subseteq Pending(other)
    BY <2>2, <2>3, <2>4, BeginPending, SamePending
  <2>5. BelowLimit(failures', ip) \/ Pending(ip)' \subseteq Pending(ip)
    BY <2>3, SamePending
  <2> SUFFICES ASSUME NEW other \in Addresses, other \in DOMAIN failures' PROVE Bounded(other)'
    BY DEF AllBounded, Bounded
  <2> QED
    BY <1>1, <2>3, <2>4, <2>5, AllowBounded
<1>3. ASSUME NEW r \in Requests, PasskeyAllow(r) PROVE AllBounded'
  <2>1. PICK ip \in Addresses : ip = serving[r].ip
    BY <1>1, <1>3 DEF PasskeyAllow, ServingOK, Serving
  <2>2. /\ failures' = EvictExpired(failures)
        /\ (BelowLimit(failures', ip) /\ Advance(r, "passkey_find")) \/ Answer(r)
    BY <1>3, <2>1 DEF PasskeyAllow, Allow
  <2>3. ASSUME NEW other \in Addresses, other # ip PROVE Pending(other)' \subseteq Pending(other)
    BY <1>1, <2>1, <2>2, <2>3, AdvancePending, AnswerPending
  <2>4. BelowLimit(failures', ip) \/ Pending(ip)' \subseteq Pending(ip)
    BY <2>2, AnswerPending
  <2> SUFFICES ASSUME NEW other \in Addresses, other \in DOMAIN failures' PROVE Bounded(other)'
    BY DEF AllBounded, Bounded
  <2> QED
    BY <1>1, <2>1, <2>2, <2>3, <2>4, AllowBounded
<1>4. ASSUME NEW r \in Requests, RecordFailure(r) PROVE AllBounded'
  <2> SUFFICES ASSUME NEW ip \in Addresses, ip \in DOMAIN failures' PROVE Bounded(ip)'
    BY DEF AllBounded, Bounded
  <2>1. Pending(ip) \in SUBSET Requests /\ Pending(ip)' = Pending(ip) \ {r}
    BY <1>1, <1>4, PendingServed, AnswerPending DEF RecordFailure
  <2>2. CASE ip = serving[r].ip
    <3>1. r \in Pending(ip)
      BY <1>4, <2>2 DEF RecordFailure, Pending, Undecided
    <3>2. /\ Cardinality(Pending(ip)') = Cardinality(Pending(ip)) - 1
          /\ Cardinality(Pending(ip)) \in Nat /\ Cardinality(Requests) \in Nat
          /\ Cardinality(Pending(ip)) <= Cardinality(Requests)
      BY <2>1, <3>1, Counts, FS_RemoveElement
    <3>3. \/ ip \in DOMAIN failures /\ failures'[ip].count = failures[ip].count + 1
          \/ failures'[ip].count = 1
      BY <1>4, <2>2 DEF RecordFailure, Put, TypeOK
    <3>4. ip \in DOMAIN failures => failures[ip].count \in Nat
      BY DEF TypeOK
    <3> QED
      BY <3>2, <3>3, <3>4, LoginAssumption DEF AllBounded, Bounded
  <2>3. CASE ip # serving[r].ip
    <3>1. Pending(ip)' = Pending(ip)
      BY <2>1, <2>3 DEF Pending
    <3>2. ip \in DOMAIN failures /\ failures'[ip] = failures[ip]
      BY <1>4, <2>3 DEF RecordFailure, Put, TypeOK
    <3> QED
      BY <3>1, <3>2 DEF AllBounded, Bounded
  <2> QED
    BY <2>2, <2>3
<1>5. ASSUME NEW r \in Requests,
             LoginFind(r) \/ LoginUpgrade(r) \/ PasskeyFind(r) \/ PasskeyUsage(r)
      PROVE  LessPending
  <2>1. \A ip \in Addresses : Pending(ip)' \subseteq Pending(ip)
    BY <1>1, <1>5, AdvancePending
       DEF LoginFind, LoginUpgrade, PasskeyFind, PasskeyUsage, Undecided
  <2> QED
    BY <1>5, <2>1 DEF LoginFind, LoginUpgrade, PasskeyFind, PasskeyUsage, LessPending
<1>6. ASSUME NEW r \in Requests, ClearFailures(r) PROVE LessPending
  <2>1. \A ip \in Addresses : Pending(ip)' \subseteq Pending(ip)
    BY <1>1, <1>6, AdvancePending DEF ClearFailures, Undecided
  <2> QED
    BY <1>6, <2>1 DEF ClearFailures, Without, Restrict, LessPending
<1>7. ASSUME NEW r \in Requests,
             FinishLogin(r) \/ RegisterBegin(r) \/ RegisterAdd(r) \/ DeletePasskey(r)
      PROVE  LessPending
  <2>1. \A ip \in Addresses : Pending(ip)' \subseteq Pending(ip)
    BY <1>7, AnswerPending DEF FinishLogin, RegisterBegin, RegisterAdd, DeletePasskey
  <2> QED
    BY <1>7, <2>1 DEF FinishLogin, RegisterBegin, RegisterAdd, DeletePasskey, LessPending
<1>8. ASSUME NEW r \in Requests, Authenticate(r) PROVE LessPending
  <2>1. ASSUME NEW t \in DOMAIN sessions, NEW ip \in Addresses,
               Begin(r, [NoBody("auth_find") EXCEPT !.user = sessions[t].user])
        PROVE  Pending(ip)' \subseteq Pending(ip)
    <3> DEFINE request == [NoBody("auth_find") EXCEPT !.user = sessions[t].user]
    <3>1. request.step \notin Undecided
      BY DEF NoBody, Undecided
    <3> HIDE DEF request
    <3> QED
      BY <2>1, <3>1, BeginPending DEF request
  <2>2. \A ip \in Addresses : Pending(ip)' \subseteq Pending(ip)
    BY <1>8, <2>1, SamePending DEF Authenticate
  <2> QED
    BY <1>8, <2>2 DEF Authenticate, LessPending
<1>9. ASSUME NEW r \in Requests, AuthFind(r) PROVE LessPending
  <2>1. \A ip \in Addresses : Pending(ip)' \subseteq Pending(ip)
    BY <1>1, <1>9, AdvancePending, AnswerPending DEF AuthFind, PasskeySteps, Undecided
  <2> QED
    BY <1>9, <2>1 DEF AuthFind, LessPending
<1>10. ASSUME NEW r \in Requests, RegisterTake(r) PROVE LessPending
  <2>1. \A ip \in Addresses : Pending(ip)' \subseteq Pending(ip)
    BY <1>1, <1>10
       DEF RegisterTake, Answer, Without, Restrict, Pending, Undecided, ServingOK, Serving
  <2> QED
    BY <1>10, <2>1 DEF RegisterTake, LessPending
<1>11. ASSUME NEW r \in Requests, PasskeyTake(r) PROVE LessPending
  <2>1. PICK c \in DOMAIN logins, k \in DOMAIN authenticators, from \in Addresses :
          \/ Begin(r, [NoBody("passkey_allow") EXCEPT
                         !.ip = from, !.user = authenticators[k].user,
                         !.ceremony = c, !.key = k, !.count = authenticators[k].count + 1])
          \/ UNCHANGED serving
    BY <1>11 DEF PasskeyTake
  <2> DEFINE request == [NoBody("passkey_allow") EXCEPT
                           !.ip = from, !.user = authenticators[k].user,
                           !.ceremony = c, !.key = k, !.count = authenticators[k].count + 1]
  <2>2. request.step \notin Undecided
    BY DEF NoBody, Undecided
  <2>3. Begin(r, request) \/ UNCHANGED serving
    BY <2>1
  <2> HIDE DEF request
  <2>4. \A ip \in Addresses : Pending(ip)' \subseteq Pending(ip)
    BY <2>2, <2>3, BeginPending, SamePending
  <2> QED
    BY <1>11, <2>4 DEF PasskeyTake, LessPending
<1>12. ASSUME NEW r \in Requests, PasskeyList(r) PROVE LessPending
  <2>1. \A ip \in Addresses : Pending(ip)' \subseteq Pending(ip)
    BY <1>1, <1>12 DEF PasskeyList, Advance, Pending, Undecided, ServingOK, Serving
  <2> QED
    BY <1>12, <2>1 DEF PasskeyList, LessPending
<1>13. CASE Tick
  <2>1. \A ip \in DOMAIN failures' : ip \in DOMAIN failures /\ failures'[ip].count = failures[ip].count
    BY <1>13 DEF Tick, TypeOK
  <2>2. LessPending
    BY <1>13, <2>1, SamePending DEF Tick, LessPending
  <2> QED
    BY <1>1, <2>2, LessPendingStep
<1>14. CASE Restart
  BY <1>14 DEF Restart, NoRows, AllBounded, Bounded
<1>15. CASE \/ PasskeyBegin \/ SessionExpires \/ CeremonyExpires \/ SetPassword \/ DeleteAccount
            \/ Logout \/ CliRevoke \/ UNCHANGED vars
  <2>1. UNCHANGED <<serving, failures>>
    BY <1>15
       DEF PasskeyBegin, SessionExpires, CeremonyExpires, SetPassword, DeleteAccount, Logout,
           CliRevoke, vars
  <2>2. LessPending
    BY <2>1, SamePending DEF LessPending
  <2> QED
    BY <1>1, <2>2, LessPendingStep
<1> QED
  BY <1>1, <1>2, <1>3, <1>4, <1>5, <1>6, <1>7, <1>8, <1>9, <1>10, <1>11, <1>12, <1>13, <1>14,
     <1>15, LessPendingStep DEF Next, RequestStep

\* However many attempts are made at once, an address never gets further
\* beyond its limit than by the attempts that overlapped.
THEOREM OvershootIsBounded == Spec => []OvershootBounded
<1>1. Init => TypeOK /\ AllBounded
  BY TypeInit DEF Init, AllBounded, Bounded, NoRows
<1>2. TypeOK /\ AllBounded /\ [Next]_vars => (TypeOK /\ AllBounded)'
  BY TypeStep, BoundedStep
<1>3. TypeOK /\ AllBounded => OvershootBounded
  <2> SUFFICES ASSUME TypeOK, AllBounded, NEW ip \in DOMAIN failures
               PROVE  failures[ip].count < LoginRateLimit + Cardinality(Requests)
    BY DEF OvershootBounded
  <2>1. /\ failures[ip].count \in Nat /\ Bounded(ip)
        /\ Pending(ip) \in SUBSET Requests /\ Pending(ip) \in SUBSET Pending(ip)
    BY PendingServed DEF TypeOK, ServingOK, AllBounded
  <2> QED
    BY <2>1, Counts, LoginAssumption DEF Bounded
<1> QED
  BY <1>1, <1>2, <1>3, PTL DEF Spec

-----------------------------------------------------------------------------
\* A ceremony is finished at most once: however its finishes, its expiry and
\* other begins overlap, take hands a challenge to one request only.
THEOREM CeremoniesAreSingleUse == Spec => []CeremonyHeldOnce
<1>1. TypeOK /\ HeldOnce => CeremonyHeldOnce
  BY DEF CeremonyHeldOnce, HeldOnce
<1> QED
  BY <1>1, Invariance, PTL

\* A passkey that was revoked while a login with it was under way is not stored
\* again: the UPDATE of its counter finds no row.
THEOREM RevocationsAreFinal == Spec => RevokedStaysRevoked
<1> DEFINE Minted == DOMAIN passkeys' \ DOMAIN passkeys
                       \subseteq DOMAIN authenticators' \ DOMAIN authenticators
<1>1. [Next]_vars => Minted
  <2> SUFFICES ASSUME [Next]_vars PROVE Minted
    OBVIOUS
  <2> USE DEF tables, memory
  <2>1. ASSUME NEW r \in Requests, RegisterAdd(r) PROVE Minted
    BY <2>1 DEF RegisterAdd, Put
  <2>2. ASSUME NEW r \in Requests, PasskeyUsage(r) PROVE Minted
    BY <2>2 DEF PasskeyUsage, WriteUsage
  <2>3. ASSUME NEW r \in Requests, DeletePasskey(r) PROVE Minted
    BY <2>3 DEF DeletePasskey, Revoked, Without, Restrict
  <2>4. CASE CliRevoke
    BY <2>4 DEF CliRevoke, Revoked, Without, Restrict
  <2>5. CASE UNCHANGED passkeys
    BY <2>5
  <2> QED
    BY <2>1, <2>2, <2>3, <2>4, <2>5
       DEF Next, RequestStep, Login, LoginFind, LoginUpgrade, RecordFailure, ClearFailures,
           FinishLogin, Authenticate, AuthFind, RegisterBegin, RegisterTake, PasskeyTake,
           PasskeyAllow, PasskeyFind, PasskeyList, PasskeyBegin, Logout, Tick, SessionExpires,
           CeremonyExpires, SetPassword, DeleteAccount, Restart, vars
<1> QED
  BY <1>1, PTL DEF Spec, RevokedStaysRevoked

\* An account deleted while its owner signs in stays deleted: the UPDATE that
\* upgrades a legacy hash finds no row.
THEOREM LoginsReviveNobody == Spec => LoginNeverRevives
<1> DEFINE NoneAppear == DOMAIN users' \subseteq DOMAIN users \/ SetPassword
<1>1. [Next]_vars => NoneAppear
  <2> SUFFICES ASSUME [Next]_vars PROVE NoneAppear
    OBVIOUS
  <2> USE DEF tables, memory
  <2>1. ASSUME NEW r \in Requests, LoginUpgrade(r) PROVE NoneAppear
    BY <2>1 DEF LoginUpgrade, Upgrade, Update
  <2>2. CASE DeleteAccount
    BY <2>2 DEF DeleteAccount, Without, Restrict
  <2>3. CASE UNCHANGED users \/ SetPassword
    BY <2>3
  <2> QED
    BY <2>1, <2>2, <2>3
       DEF Next, RequestStep, Login, LoginFind, RecordFailure, ClearFailures, FinishLogin,
           Authenticate, AuthFind, RegisterBegin, RegisterTake, RegisterAdd, DeletePasskey,
           PasskeyTake, PasskeyAllow, PasskeyFind, PasskeyList, PasskeyUsage, PasskeyBegin,
           Logout, Tick, SessionExpires, CeremonyExpires, CliRevoke, Restart, vars
<1> QED
  BY <1>1, PTL DEF Spec, LoginNeverRevives
=============================================================================
