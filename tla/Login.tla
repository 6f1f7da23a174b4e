--------------------------------- MODULE Login ---------------------------------
(***************************************************************************)
(* Signing in: passwords and the limiter of failed attempts                *)
(* (server/auth_handlers.go, ratelimit.go), passkeys                       *)
(* (server/webauthn.go, db/webauthn.go) and the sessions both lead to      *)
(* (server/sessions.go, middleware.go).                                    *)
(*                                                                         *)
(* The limiter, the session table and the two tables of ceremonies each    *)
(* have a mutex of their own, so one call of theirs is one step; between   *)
(* the calls a handler compares passwords or verifies signatures, which    *)
(* is slow, and other requests get in between.  Who has an account is      *)
(* module Accounts' concern; here accounts come, go and change password.   *)
(*                                                                         *)
(* The library go-webauthn is not part of the repository: a response it    *)
(* verifies is one made for the challenge, by a key the account has.       *)
(***************************************************************************)
EXTENDS Naturals, FiniteSets, Tables

CONSTANTS
  Requests,        \* goroutines serving requests: the concurrency allowed
  Addresses,       \* client IPs
  Usernames, Passwords,
  Keys,            \* credential ids that authenticators may ever mint
  LoginRateLimit,  \* loginRateLimit
  LoginRateWindow, \* loginRateWindow, in ticks of the clock
  MaxSessions,     \* bound on the sessions ever created
  MaxCeremonies,   \* bound on the challenges ever drawn
  MaxCount         \* bound on the signatures an authenticator makes

ASSUME LoginAssumption ==
  /\ IsFiniteSet(Requests)
  /\ Addresses # {} /\ Usernames # {} /\ Passwords # {} /\ Keys # {}
  /\ LoginRateLimit \in Nat \ {0} /\ LoginRateWindow \in Nat \ {0}
  /\ MaxSessions \in Nat /\ MaxCeremonies \in Nat /\ MaxCount \in Nat

VARIABLES
  users,          \* table users: username -> its password and kind of hash
  passkeys,       \* table webauthn_credentials: id -> owner and counter
  authenticators, \* what the users' devices hold: id -> user handle and counter
  sessions,       \* srv.sessions: token -> username and whether still valid
  nextSession,    \* stands for the random tokens: never drawn twice
  failures,       \* srv.loginLimiter: address -> failures and time left
  logins,         \* srv.loginCeremonies: challenge -> is it still valid?
  registrations,  \* srv.registerCeremonies: username -> challenge and validity
  nextCeremony,   \* stands for the random challenges: never drawn twice
  serving         \* the requests in flight: goroutine -> what it is doing

vars == <<users, passkeys, authenticators, sessions, nextSession, failures,
          logins, registrations, nextCeremony, serving>>
tables == <<users, passkeys, authenticators>>
memory == <<sessions, nextSession, failures, logins, registrations, nextCeremony>>

Challenges == 1..MaxCeremonies
Tokens == 1..MaxSessions

\* legacy: a SHA-256 digest of the time before bcrypt.
User == [password: Passwords, legacy: BOOLEAN]
Credential == [user: Usernames, count: 0..MaxCount]

\* ceremony is the challenge the request has taken, 0 if none; key and count
\* what its body was signed with.  A request without one of these carries
\* that of NoBody, arbitrary but fixed.
Serving == [step: {"login_find", "login_upgrade", "clear", "record_failure", "finish",
                   "passkey_allow", "passkey_find", "passkey_list", "passkey_usage",
                   "auth_find", "register_begin", "register_take", "register_add",
                   "delete_passkey"},
            ip: Addresses, user: Usernames, password: Passwords,
            ceremony: {0} \cup Challenges, key: Keys, count: 0..MaxCount]

Init ==
  /\ \E hash \in [Usernames -> User] : users = hash
  /\ passkeys = NoRows /\ authenticators = NoRows
  /\ sessions = NoRows /\ nextSession = 1
  /\ failures = NoRows
  /\ logins = NoRows /\ registrations = NoRows /\ nextCeremony = 1
  /\ serving = NoRows

-----------------------------------------------------------------------------
(* A request's progress through its handler.                               *)

Idle(r) == r \notin DOMAIN serving
At(r, step) == r \in DOMAIN serving /\ serving[r].step = step

NoBody(step) ==
  [step |-> step, ip |-> CHOOSE ip \in Addresses : TRUE,
   user |-> CHOOSE u \in Usernames : TRUE, password |-> CHOOSE p \in Passwords : TRUE,
   ceremony |-> 0, key |-> CHOOSE k \in Keys : TRUE, count |-> 0]

Begin(r, request) == Idle(r) /\ serving' = Put(serving, r, request)
Advance(r, step) == serving' = [serving EXCEPT ![r].step = step]
Answer(r) == serving' = Without(serving, {r})

-----------------------------------------------------------------------------
(* The limiter: failed attempts per address in a window that starts with   *)
(* the first of them.                                                      *)

\* allow drops every window that is over, whoever asks.
BugEvictExpired(table) ==
  [ip \in {ip \in DOMAIN table : table[ip].left > 0} |->
     IF table[ip].count >= LoginRateLimit THEN [table[ip] EXCEPT !.left = LoginRateWindow]
     ELSE table[ip]]
EvictExpired(table) == Restrict(table, {ip \in DOMAIN table : table[ip].left > 0})

BugBelowLimit(table, ip) == ip \in DOMAIN table => table[ip].count <= LoginRateLimit
BelowLimit(table, ip) == ip \in DOMAIN table => table[ip].count < LoginRateLimit

\* allow: yes goes on to the next step, no is 429.
Allow(r, ip, yes, no) ==
  /\ failures' = EvictExpired(failures)
  /\ IF BelowLimit(EvictExpired(failures), ip) THEN yes ELSE no

\* recordFailure, for a wrong password as for a passkey that does not verify.
RecordFailure(r) ==
  LET ip == serving[r].ip IN
  /\ At(r, "record_failure")
  /\ failures' = IF ip \in DOMAIN failures /\ failures[ip].left > 0
                 THEN [failures EXCEPT ![ip].count = @ + 1]
                 ELSE Put(failures, ip, [count |-> 1, left |-> LoginRateWindow])
  /\ Answer(r)
  /\ UNCHANGED <<tables, sessions, nextSession, logins, registrations, nextCeremony>>

\* clear, after which a passkey still has its counter to store.
ClearFailures(r) ==
  /\ At(r, "clear")
  /\ failures' = Without(failures, {serving[r].ip})
  /\ Advance(r, IF serving[r].ceremony # 0 THEN "passkey_usage" ELSE "finish")
  /\ UNCHANGED <<tables, sessions, nextSession, logins, registrations, nextCeremony>>

-----------------------------------------------------------------------------
(* POST /api/login.                                                        *)

Login(r) ==
  /\ Idle(r)
  /\ \E ip \in Addresses, u \in Usernames, p \in Passwords :
       Allow(r, ip,
             Begin(r, [NoBody("login_find") EXCEPT !.ip = ip, !.user = u, !.password = p]),
             UNCHANGED serving)
  /\ UNCHANGED <<tables, sessions, nextSession, logins, registrations, nextCeremony>>

\* FindUser, then VerifyPassword on the row it returned.
LoginFind(r) ==
  LET u == serving[r].user IN
  /\ At(r, "login_find")
  /\ Advance(r, IF u \notin DOMAIN users \/ users[u].password # serving[r].password
                THEN "record_failure"
                ELSE IF users[u].legacy THEN "login_upgrade" ELSE "clear")
  /\ UNCHANGED <<tables, memory>>

\* UpgradePasswordHash: UPDATE ... WHERE username = ?.
BugUpgrade(u, p) == Put(users, u, [password |-> p, legacy |-> FALSE])
Upgrade(u, p) == Update(users, u, [password |-> p, legacy |-> FALSE])

LoginUpgrade(r) ==
  /\ At(r, "login_upgrade")
  /\ users' = Upgrade(serving[r].user, serving[r].password)
  /\ Advance(r, "clear")
  /\ UNCHANGED <<passkeys, authenticators, memory>>

\* finishLogin: sessionStore.create.  last_login_at is left out.
FinishLogin(r) ==
  /\ At(r, "finish")
  /\ nextSession \in Tokens
  /\ sessions' = Put(sessions, nextSession, [user |-> serving[r].user, valid |-> TRUE])
  /\ nextSession' = nextSession + 1
  /\ Answer(r)
  /\ UNCHANGED <<tables, failures, logins, registrations, nextCeremony>>

\* POST /api/logout, with whatever token the cookie holds.
Logout ==
  /\ \E t \in DOMAIN sessions : sessions' = Without(sessions, {t})
  /\ UNCHANGED <<tables, nextSession, failures, logins, registrations, nextCeremony, serving>>

-----------------------------------------------------------------------------
(* The auth middleware: lookup, then FindUser.  What the handler goes on   *)
(* to do matters here if it concerns the caller's passkeys.                *)

PasskeySteps == {"register_begin", "register_take", "delete_passkey"}

Authenticate(r) ==
  /\ \E t \in DOMAIN sessions :
       IF sessions[t].valid
       THEN /\ Begin(r, [NoBody("auth_find") EXCEPT !.user = sessions[t].user])
            /\ UNCHANGED sessions
       ELSE /\ Idle(r)
            /\ sessions' = Without(sessions, {t})
            /\ UNCHANGED serving
  /\ UNCHANGED <<tables, nextSession, failures, logins, registrations, nextCeremony>>

AuthFind(r) ==
  /\ At(r, "auth_find")
  /\ IF serving[r].user \in DOMAIN users
     THEN \E step \in PasskeySteps : Advance(r, step)
     ELSE Answer(r)
  /\ UNCHANGED <<tables, memory>>

-----------------------------------------------------------------------------
(* POST /api/webauthn/register/begin and .../finish.                       *)

\* A second begin replaces the first one's challenge.
RegisterBegin(r) ==
  /\ At(r, "register_begin")
  /\ nextCeremony \in Challenges
  /\ registrations' = Put(registrations, serving[r].user,
                          [challenge |-> nextCeremony, valid |-> TRUE])
  /\ nextCeremony' = nextCeremony + 1
  /\ Answer(r)
  /\ UNCHANGED <<tables, sessions, nextSession, failures, logins>>

\* webauthnCeremonyStore.take: what is left in the table afterwards.
BugTaken(table, key) ==
  Without(table, {k \in DOMAIN table : k = key /\ ~table[k].valid})
Taken(table, key) == Without(table, {key})

RegisterTake(r) ==
  LET u == serving[r].user IN
  /\ At(r, "register_take")
  /\ IF u \in DOMAIN registrations /\ registrations[u].valid
     THEN serving' = [serving EXCEPT ![r].step = "register_add",
                                     ![r].ceremony = registrations[u].challenge]
     ELSE Answer(r)
  /\ registrations' = Taken(registrations, u)
  /\ UNCHANGED <<tables, sessions, nextSession, failures, logins, nextCeremony>>

\* FinishRegistration verifies the body, made with a key minted for this
\* challenge and account, and AddCredential inserts the row; or it does not.
RegisterAdd(r) ==
  LET u == serving[r].user IN
  /\ At(r, "register_add")
  /\ \/ \E k \in Keys \ DOMAIN authenticators :
          /\ authenticators' = Put(authenticators, k, [user |-> u, count |-> 0])
          /\ passkeys' = Put(passkeys, k, [user |-> u, count |-> 0])
     \/ UNCHANGED <<authenticators, passkeys>>
  /\ Answer(r)
  /\ UNCHANGED <<users, memory>>

\* DELETE /api/webauthn/credentials/{id}: WHERE id = ? AND username = ?.
Revoked(u, k) == Without(passkeys, {c \in DOMAIN passkeys : c = k /\ passkeys[c].user = u})

DeletePasskey(r) ==
  /\ At(r, "delete_passkey")
  /\ \E k \in Keys : passkeys' = Revoked(serving[r].user, k)
  /\ Answer(r)
  /\ UNCHANGED <<users, authenticators, memory>>

-----------------------------------------------------------------------------
(* POST /api/webauthn/login/begin and .../finish.                          *)

PasskeyBegin ==
  /\ nextCeremony \in Challenges
  /\ logins' = Put(logins, nextCeremony, [valid |-> TRUE])
  /\ nextCeremony' = nextCeremony + 1
  /\ UNCHANGED <<tables, sessions, nextSession, failures, registrations, serving>>

\* The authenticator signs the challenge, its counter going up; the request
\* arrives and takes its ceremony, before it asks the limiter.
PasskeyTake(r) ==
  /\ Idle(r)
  /\ \E c \in DOMAIN logins, k \in DOMAIN authenticators, ip \in Addresses :
       /\ authenticators[k].count < MaxCount
       /\ authenticators' = [authenticators EXCEPT ![k].count = @ + 1]
       /\ IF logins[c].valid
          THEN Begin(r, [NoBody("passkey_allow") EXCEPT
                           !.ip = ip, !.user = authenticators[k].user,
                           !.ceremony = c, !.key = k, !.count = authenticators[k].count + 1])
          ELSE UNCHANGED serving
       /\ logins' = Taken(logins, c)
  /\ UNCHANGED <<users, passkeys, sessions, nextSession, failures, registrations, nextCeremony>>

PasskeyAllow(r) ==
  /\ At(r, "passkey_allow")
  /\ Allow(r, serving[r].ip, Advance(r, "passkey_find"), Answer(r))
  /\ UNCHANGED <<tables, sessions, nextSession, logins, registrations, nextCeremony>>

\* webauthnDiscoverableUserHandler: FindUser and ListCredentials.
PasskeyFind(r) ==
  /\ At(r, "passkey_find")
  /\ Advance(r, IF serving[r].user \in DOMAIN users THEN "passkey_list" ELSE "record_failure")
  /\ UNCHANGED <<tables, memory>>

\* The library leaves the counter alone when the new one is not greater: a
\* warning of a cloned key, which the handler does not look at.
CountAfter(stored, signed) == IF signed > stored THEN signed ELSE stored

PasskeyList(r) ==
  LET k == serving[r].key IN
  /\ At(r, "passkey_list")
  /\ \/ /\ k \in DOMAIN passkeys /\ passkeys[k].user = serving[r].user
        /\ serving' = [serving EXCEPT ![r].step = "clear",
                                      ![r].count = CountAfter(passkeys[k].count, @)]
     \/ Advance(r, "record_failure")
  /\ UNCHANGED <<tables, memory>>

\* UpdateCredentialUsage: UPDATE ... WHERE id = ?.
BugWriteUsage(k, u, n) == Put(passkeys, k, [user |-> u, count |-> n])
WriteUsage(k, u, n) ==
  IF k \in DOMAIN passkeys THEN [passkeys EXCEPT ![k].count = n] ELSE passkeys

PasskeyUsage(r) ==
  /\ At(r, "passkey_usage")
  /\ passkeys' = WriteUsage(serving[r].key, serving[r].user, serving[r].count)
  /\ Advance(r, "finish")
  /\ UNCHANGED <<users, authenticators, memory>>

-----------------------------------------------------------------------------
(* Time passes, and others change the accounts.                            *)

Tick ==
  /\ \E ip \in DOMAIN failures : failures[ip].left > 0
  /\ failures' = [ip \in DOMAIN failures |->
                    [failures[ip] EXCEPT !.left = IF @ > 0 THEN @ - 1 ELSE 0]]
  /\ UNCHANGED <<tables, sessions, nextSession, logins, registrations, nextCeremony, serving>>

SessionExpires ==
  /\ \E t \in DOMAIN sessions :
       sessions[t].valid /\ sessions' = [sessions EXCEPT ![t].valid = FALSE]
  /\ UNCHANGED <<tables, nextSession, failures, logins, registrations, nextCeremony, serving>>

CeremonyExpires ==
  /\ \/ /\ \E c \in DOMAIN logins :
             logins[c].valid /\ logins' = [logins EXCEPT ![c].valid = FALSE]
        /\ UNCHANGED registrations
     \/ /\ \E u \in DOMAIN registrations :
             registrations[u].valid /\ registrations' = [registrations EXCEPT ![u].valid = FALSE]
        /\ UNCHANGED logins
  /\ UNCHANGED <<tables, sessions, nextSession, failures, nextCeremony, serving>>

\* An account is made (AddUser) or its password set (UpdateUser), or it is
\* deleted (DeleteUser), which leaves its passkeys and sessions where they are.
SetPassword ==
  /\ \E u \in Usernames, p \in Passwords :
       users' = Put(users, u, [password |-> p, legacy |-> FALSE])
  /\ UNCHANGED <<passkeys, authenticators, memory, serving>>

DeleteAccount ==
  /\ \E u \in DOMAIN users : users' = Without(users, {u})
  /\ UNCHANGED <<passkeys, authenticators, memory, serving>>

\* "idtrack user passkeys <user> revoke <id>".
CliRevoke ==
  /\ \E k \in DOMAIN passkeys : passkeys' = Revoked(passkeys[k].user, k)
  /\ UNCHANGED <<users, authenticators, memory, serving>>

\* The server dies and is started again.
Restart ==
  /\ sessions' = NoRows /\ failures' = NoRows
  /\ logins' = NoRows /\ registrations' = NoRows /\ serving' = NoRows
  /\ UNCHANGED <<tables, nextSession, nextCeremony>>

-----------------------------------------------------------------------------
RequestStep(r) ==
  \/ Login(r) \/ LoginFind(r) \/ LoginUpgrade(r)
  \/ RecordFailure(r) \/ ClearFailures(r) \/ FinishLogin(r)
  \/ Authenticate(r) \/ AuthFind(r)
  \/ RegisterBegin(r) \/ RegisterTake(r) \/ RegisterAdd(r) \/ DeletePasskey(r)
  \/ PasskeyTake(r) \/ PasskeyAllow(r) \/ PasskeyFind(r) \/ PasskeyList(r) \/ PasskeyUsage(r)

Next ==
  \/ \E r \in Requests : RequestStep(r)
  \/ PasskeyBegin \/ Logout
  \/ Tick \/ SessionExpires \/ CeremonyExpires
  \/ SetPassword \/ DeleteAccount \/ CliRevoke \/ Restart

Spec == Init /\ [][Next]_vars

\* The clock goes on.  Nothing is assumed of clients or of requests.
Fairness == WF_vars(Tick)
LiveSpec == Spec /\ Fairness

-----------------------------------------------------------------------------
(* Properties.                                                             *)

TypeOK ==
  /\ DOMAIN users \subseteq Usernames /\ users \in [DOMAIN users -> User]
  /\ DOMAIN passkeys \subseteq Keys /\ passkeys \in [DOMAIN passkeys -> Credential]
  /\ DOMAIN authenticators \subseteq Keys
  /\ authenticators \in [DOMAIN authenticators -> Credential]
  /\ DOMAIN sessions \subseteq Tokens
  /\ sessions \in [DOMAIN sessions -> [user: Usernames, valid: BOOLEAN]]
  /\ nextSession \in 1..(MaxSessions + 1)
  /\ DOMAIN failures \subseteq Addresses
  /\ failures \in [DOMAIN failures -> [count: Nat \ {0}, left: 0..LoginRateWindow]]
  /\ DOMAIN logins \subseteq Challenges /\ logins \in [DOMAIN logins -> [valid: BOOLEAN]]
  /\ DOMAIN registrations \subseteq Usernames
  /\ registrations \in [DOMAIN registrations -> [challenge: Challenges, valid: BOOLEAN]]
  /\ nextCeremony \in 1..(MaxCeremonies + 1)
  /\ DOMAIN serving \subseteq Requests /\ serving \in [DOMAIN serving -> Serving]

\* Attempts are checked before the password is compared and counted after it,
\* so the ten failures of a window may be exceeded; but only by the attempts
\* that were under way when the tenth was counted.
OvershootBounded ==
  \A ip \in DOMAIN failures :
    failures[ip].count < LoginRateLimit + Cardinality(Requests)

\* Whoever is locked out is let in again, however often he tries meanwhile:
\* the window ends a minute after its first failure ("Retry-After: 60").
LockedOut(ip) ==
  ip \in DOMAIN failures /\ failures[ip].left > 0 /\ ~BelowLimit(failures, ip)
LockoutEnds == \A ip \in Addresses : LockedOut(ip) ~> ~LockedOut(ip)

\* A ceremony is finished at most once ("Entries are single-use: take() both
\* returns and removes the entry"): a challenge is in one place, a table or
\* one request, however begins, finishes and expiries overlap.  (On top of the types.)
CeremonyHeldOnce ==
  LET Held(r) == r \in DOMAIN serving /\ serving[r].ceremony # 0 IN
  /\ TypeOK
  /\ \A r \in Requests : Held(r) =>
       /\ serving[r].ceremony \notin DOMAIN logins
       /\ \A u \in DOMAIN registrations : registrations[u].challenge # serving[r].ceremony
       /\ \A s \in Requests \ {r} : Held(s) => serving[s].ceremony # serving[r].ceremony
  /\ \A u \in DOMAIN registrations : registrations[u].challenge \notin DOMAIN logins

\* A passkey that was revoked stays revoked: a login with it that was under
\* way does not store it again.  Rows appear only for keys just minted.
RevokedStaysRevoked ==
  [][DOMAIN passkeys' \ DOMAIN passkeys \subseteq DOMAIN authenticators' \ DOMAIN authenticators]_vars

\* An account deleted while its owner signs in stays deleted: the upgrade of
\* a legacy hash does not bring it back.
LoginNeverRevives == [][DOMAIN users' \subseteq DOMAIN users \/ SetPassword]_vars
=============================================================================
