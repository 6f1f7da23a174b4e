------------------------------ MODULE Accounts ------------------------------
(***************************************************************************)
(* Who has an account and who is an admin: first-run onboarding            *)
(* (server/auth_handlers.go), the administration of users                  *)
(* (server/users.go, db/users.go), and the command line tool, another      *)
(* process that writes the same table.                                     *)
(*                                                                         *)
(* Every handler is a sequence of SQL statements and of sections under     *)
(* srv.mu; requests interleave between them.  The caller of an             *)
(* administrative request is looked up once, by the auth middleware, and   *)
(* that row decides for the rest of the request whether it is an admin.    *)
(* A request refused on what it has read so far has changed nothing.       *)
(*                                                                         *)
(* A row is reduced to whether its teams hold "admin".  Any account may    *)
(* have a session, so any account may be a caller.                         *)
(***************************************************************************)
EXTENDS Naturals, FiniteSets, Tables

CONSTANTS
  Requests,   \* goroutines serving requests: the concurrency allowed
  Usernames,
  Ops,        \* the operations clients perform in this instance
  CliRuns,    \* does anyone use "idtrack user ..." meanwhile?
  MaxTokens   \* bound on the onboarding tokens ever drawn

ASSUME AccountsAssumption ==
  /\ IsFiniteSet(Usernames)
  /\ CliRuns \in BOOLEAN
  /\ MaxTokens \in Nat

VARIABLES
  users,      \* table users: username -> is it an admin?
  token,      \* srv.onboardingToken: 0 is the empty string
  tokens,     \* how many UUIDs have been drawn: all of them are known to clients
  hasUsers,   \* srv.statusHasUsers and statusCachedAt: "unknown" when expired
  serving,    \* the requests in flight: goroutine -> what it is doing
  contended   \* history: two removals have overlapped, or the CLI has written

vars == <<users, token, tokens, hasUsers, serving, contended>>

Admins == {u \in DOMAIN users : users[u]}

\* step is what the handler does next, target the account it is about, admin
\* whether that account is to be an admin.
Serving == [step: {"mint", "onboard_find", "onboard_add", "onboard_clear", "onboard_refuse",
                   "create_find", "create_add",
                   "demote_find", "demote_count", "update_find", "update_write",
                   "delete_find", "delete_count", "delete_row"},
            target: Usernames, admin: BOOLEAN]

TypeOK ==
  /\ DOMAIN users \subseteq Usernames
  /\ users \in [DOMAIN users -> BOOLEAN]
  /\ tokens \in 0..MaxTokens
  /\ token \in 0..tokens
  /\ hasUsers \in {"unknown", "no", "yes"}
  /\ DOMAIN serving \subseteq Requests
  /\ serving \in [DOMAIN serving -> Serving]

Init ==
  /\ users = NoRows
  /\ token = 0 /\ tokens = 0
  /\ hasUsers = "unknown"
  /\ serving = NoRows
  /\ contended = FALSE

-----------------------------------------------------------------------------
(* A request's progress through its handler.                               *)

Idle(r) == r \notin DOMAIN serving
At(r, step) == r \in DOMAIN serving /\ serving[r].step = step

Begin(r, step, u, a) ==
  /\ Idle(r)
  /\ serving' = Put(serving, r, [step |-> step, target |-> u, admin |-> a])
Advance(r, step) == serving' = [serving EXCEPT ![r].step = step]
Answer(r) == serving' = Without(serving, {r})

Target(r) == serving[r].target

\* Names a body may give an account: the blank one is answered 400.
Blank == ""
BugNamesAccepted == Usernames \cup {Blank}
NamesAccepted == Usernames

-----------------------------------------------------------------------------
(* GET /api/status.  hasUsersCached holds srv.mu while it asks the         *)
(* database, so it is one step; when there is nobody, a token is minted.   *)

Answers == IF users = NoRows THEN "no" ELSE "yes"
HasUsersCached == IF hasUsers = "unknown" THEN Answers ELSE hasUsers

Status(r) ==
  /\ "status" \in Ops
  /\ hasUsers' = HasUsersCached
  /\ IF HasUsersCached = "no"
       THEN \E u \in Usernames : Begin(r, "mint", u, FALSE)
       ELSE Idle(r) /\ UNCHANGED serving
  /\ UNCHANGED <<users, token, tokens>>

StatusMint(r) ==
  /\ At(r, "mint")
  /\ IF token = 0
       THEN tokens < MaxTokens /\ tokens' = tokens + 1 /\ token' = tokens'
       ELSE UNCHANGED <<token, tokens>>
  /\ Answer(r)
  /\ UNCHANGED <<users, hasUsers>>

\* statusCacheTTL passes.
CacheExpires ==
  /\ hasUsers' = "unknown"
  /\ UNCHANGED <<users, token, tokens, serving>>

-----------------------------------------------------------------------------
(* POST /api/onboarding, presenting one of the tokens ever handed out.     *)

OnboardToken(r) ==
  /\ "onboard" \in Ops
  /\ \E t \in 1..tokens, u \in NamesAccepted :
       token = t /\ Begin(r, "onboard_find", u, TRUE)
  /\ UNCHANGED <<users, token, tokens, hasUsers>>

\* HasUsers, and the rest of the body is validated.
BugOnboardFind(r) ==
  /\ At(r, "onboard_find")
  /\ Advance(r, "onboard_add")
  /\ UNCHANGED <<users, token, tokens, hasUsers>>
OnboardFind(r) ==
  /\ At(r, "onboard_find")
  /\ Advance(r, IF users = NoRows THEN "onboard_add" ELSE "onboard_refuse")
  /\ UNCHANGED <<users, token, tokens, hasUsers>>

OnboardRefuse(r) ==
  /\ At(r, "onboard_refuse")
  /\ token' = 0
  /\ Answer(r)
  /\ UNCHANGED <<users, tokens, hasUsers>>

OnboardAdd(r) ==
  /\ At(r, "onboard_add")
  /\ users' = Put(users, Target(r), TRUE)
  /\ Advance(r, "onboard_clear")
  /\ UNCHANGED <<token, tokens, hasUsers>>

\* The token is used up and the cache invalidated; login and session follow.
BugOnboardClear(r) ==
  /\ At(r, "onboard_clear")
  /\ token' = 0
  /\ Answer(r)
  /\ UNCHANGED <<users, tokens, hasUsers>>
OnboardClear(r) ==
  /\ At(r, "onboard_clear")
  /\ token' = 0 /\ hasUsers' = "unknown"
  /\ Answer(r)
  /\ UNCHANGED <<users, tokens>>

-----------------------------------------------------------------------------
(* Requests only an admin may make.  auth reads the caller's row; the      *)
(* handler consults that copy of it.                                       *)

BugAdminCalls == users # NoRows
AdminCalls == Admins # {}

\* POST /api/users: FindUser, then the upsert AddUser.
CreateUser(r) ==
  /\ "create" \in Ops
  /\ AdminCalls
  /\ \E u \in NamesAccepted, a \in BOOLEAN : Begin(r, "create_find", u, a)
  /\ UNCHANGED <<users, token, tokens, hasUsers>>

\* Taken: 409.
Free(u) == u \notin DOMAIN users

CreateUserFind(r) ==
  /\ At(r, "create_find")
  /\ IF Free(Target(r)) THEN Advance(r, "create_add") ELSE Answer(r)
  /\ UNCHANGED <<users, token, tokens, hasUsers>>

CreateUserAdd(r) ==
  /\ At(r, "create_add")
  /\ users' = Put(users, Target(r), serving[r].admin)
  /\ Answer(r)
  /\ UNCHANGED <<token, tokens, hasUsers>>

\* The last-admin guard of the two requests below.
BugOthersRemain == Cardinality(Admins) >= 1
OthersRemain == Cardinality(Admins) > 1

\* PUT /api/users/{username}: only a body without "admin" is guarded.
UpdateUser(r) ==
  /\ "update" \in Ops
  /\ AdminCalls
  /\ \E u \in Usernames, a \in BOOLEAN :
       Begin(r, IF a THEN "update_find" ELSE "demote_find", u, a)
  /\ UNCHANGED <<users, token, tokens, hasUsers>>

DemoteFind(r) ==
  /\ At(r, "demote_find")
  /\ Advance(r, IF Target(r) \in Admins THEN "demote_count" ELSE "update_find")
  /\ UNCHANGED <<users, token, tokens, hasUsers>>

DemoteCount(r) ==
  /\ At(r, "demote_count")
  /\ IF OthersRemain THEN Advance(r, "update_find") ELSE Answer(r)
  /\ UNCHANGED <<users, token, tokens, hasUsers>>

\* db.UpdateUser: FindUser (404 when there is no such account) and UPDATE.
UpdateUserFind(r) ==
  /\ At(r, "update_find")
  /\ IF Target(r) \in DOMAIN users THEN Advance(r, "update_write") ELSE Answer(r)
  /\ UNCHANGED <<users, token, tokens, hasUsers>>

BugWriteUser(u, a) == Put(users, u, a)
WriteUser(u, a) == Update(users, u, a)

UpdateUserWrite(r) ==
  /\ At(r, "update_write")
  /\ users' = WriteUser(Target(r), serving[r].admin)
  /\ Answer(r)
  /\ UNCHANGED <<token, tokens, hasUsers>>

\* DELETE /api/users/{username}: never the caller's own account.
DeleteUser(r) ==
  /\ "delete" \in Ops
  /\ \E u \in Usernames :
       /\ Admins \ {u} # {}
       /\ Begin(r, "delete_find", u, FALSE)
  /\ UNCHANGED <<users, token, tokens, hasUsers>>

DeleteUserFind(r) ==
  /\ At(r, "delete_find")
  /\ IF Target(r) \notin DOMAIN users THEN Answer(r)
     ELSE Advance(r, IF users[Target(r)] THEN "delete_count" ELSE "delete_row")
  /\ UNCHANGED <<users, token, tokens, hasUsers>>

DeleteUserCount(r) ==
  /\ At(r, "delete_count")
  /\ IF OthersRemain THEN Advance(r, "delete_row") ELSE Answer(r)
  /\ UNCHANGED <<users, token, tokens, hasUsers>>

DeleteUserRow(r) ==
  /\ At(r, "delete_row")
  /\ users' = Without(users, {Target(r)})
  /\ Answer(r)
  /\ UNCHANGED <<token, tokens, hasUsers>>

-----------------------------------------------------------------------------
(* "idtrack user --add | --update | --delete": no guard, on purpose.       *)

CliAdd(u, a) == users' = Put(users, u, a)
CliUpdate(u, a) == users' = Update(users, u, a)
CliDelete(u) == users' = Without(users, {u})

CliStep ==
  /\ CliRuns
  /\ \E u \in Usernames : \/ \E a \in BOOLEAN : CliAdd(u, a) \/ CliUpdate(u, a)
                          \/ CliDelete(u)
  /\ UNCHANGED <<token, tokens, hasUsers, serving>>

\* The server dies and is started again: only the table remains.
Restart ==
  /\ serving' = NoRows /\ token' = 0 /\ hasUsers' = "unknown"
  /\ UNCHANGED <<users, tokens>>

-----------------------------------------------------------------------------
RequestStep(r) ==
  \/ Status(r) \/ StatusMint(r)
  \/ OnboardToken(r) \/ OnboardFind(r) \/ OnboardRefuse(r)
  \/ OnboardAdd(r) \/ OnboardClear(r)
  \/ CreateUser(r) \/ CreateUserFind(r) \/ CreateUserAdd(r)
  \/ UpdateUser(r) \/ DemoteFind(r) \/ DemoteCount(r)
  \/ UpdateUserFind(r) \/ UpdateUserWrite(r)
  \/ DeleteUser(r) \/ DeleteUserFind(r) \/ DeleteUserCount(r) \/ DeleteUserRow(r)

\* A request on its way to take "admin" from somebody: a demotion, a deletion,
\* or, because AddUser is an upsert, the creation of an ordinary account.
Removing(q) ==
  \/ q.step \in {"demote_find", "demote_count", "delete_find", "delete_count", "delete_row"}
  \/ q.step \in {"create_find", "create_add", "update_find", "update_write"} /\ ~q.admin
RemovalsApart ==
  \A r, s \in DOMAIN serving : Removing(serving[r]) /\ Removing(serving[s]) => r = s

Next ==
  \/ \E r \in Requests : RequestStep(r) /\ contended' = (contended \/ ~RemovalsApart')
  \/ CliStep /\ contended' = TRUE
  \/ (CacheExpires \/ Restart) /\ UNCHANGED contended

Spec == Init /\ [][Next]_vars

-----------------------------------------------------------------------------
(* Properties.                                                             *)

\* While there are accounts one of them is an admin, whatever is created,
\* promoted and onboarded while a demotion or a deletion is under way (the guard
\* of handleUpdateUser and handleDeleteUser: "db.CountAdmins() checked before
\* delete/demotion; blocks lockout", docs/IDTRACK.md).  That guard fails in one
\* way only: two requests that take "admin" away overlap, and each counts the
\* other's target.  The CLI has none.
SomeAdmin == users # NoRows => Admins # {}
AdminRemains == contended \/ SomeAdmin

\* Onboarding creates an account only while there is none: of two forms
\* submitted at once only the first wins (handleOnboarding's comment).  False:
\* both find the table empty.
OnboardingIsFirst == [][(\E r \in Requests : OnboardAdd(r)) => users = NoRows]_vars

\* An account that was deleted while it was being updated stays deleted:
\* only creating an account or onboarding brings one about.
UpdateNeverRevives ==
  [][DOMAIN users' \subseteq DOMAIN users
     \/ CliStep \/ \E r \in Requests : OnboardAdd(r) \/ CreateUserAdd(r)]_vars

\* Accounts but no admin among them, and no request in flight that an admin
\* was entitled to make, or that found the table empty.
LockedOut ==
  /\ users # NoRows /\ Admins = {}
  /\ \A r \in DOMAIN serving : serving[r].step \in {"mint", "onboard_find", "onboard_refuse"}

\* Why the last-admin guard matters: a lockout is final, neither a request
\* nor onboarding, whatever token is around, can end it; only the CLI can.
LockoutIsFinal == [][LockedOut => LockedOut' \/ CliStep]_vars

\* The cached "nobody has an account" is wrong only while the onboarding that
\* made the first one is about to drop it: whoever is told 201 will not be
\* offered onboarding again.  It takes the CLI, or removals that overlap until
\* nobody is left, to make it wrong for longer.
CacheFresh == hasUsers = "no" /\ users # NoRows => \E r \in Requests : At(r, "onboard_clear")
StaleNoIsDropped == contended \/ CacheFresh
=============================================================================
