# idtrack, specified in TLA+

idtrack is an issue tracker: one Go process that serves a JSON API and a web
page from a SQLite file, and a command line tool that opens the same file. This
directory models the parts of it in which something can go wrong that a unit
test would hardly reach, checks them with TLC on small instances, and proves
the most important facts with TLAPS for every value of the constants.

```
tlc -workers 2 -config login.cfg MCLogin     # a run
tlapm LoginProofs.tla                        # a proof
```

`PROJECT.json` lists the components, the runs, the lines each definition
translates, the hazards and the theorems.

## 1. Inventory

### What runs concurrently

* `net/http` serves every request on a goroutine of its own. A handler is a
  sequence of SQL statements, of sections under a mutex, and of slow work
  between them (reading a body, bcrypt, verifying a signature, converting an
  image).
* `db.Open` limits the pool to one connection, so a single statement is atomic.
  Hardly any handler opens a transaction (only `db.UpdateTeam` and the
  ingest command do), so **statements of different requests interleave**.
* Goroutines that outlive their request: `go s.notify(...)` after an issue is
  created, updated or commented on; `go s.ageBackups(...)` after a backup; the
  backup ticker.
* `idtrack user`, `team`, `project` and `ingest` are other processes that write
  the same file; `idtrack serve`, `stop` and `restart` find the server by its pid
  file.
* The browser page runs one callback at a time, but has several requests under
  way, whose answers overtake each other.
* In memory and lost on a restart: sessions, the login limiter, the onboarding
  token and the status cache, passkey ceremonies, the hub of notification
  streams. There is no graceful shutdown: requests die where they are.

### Components

| Component | State | Operations | What is hard | What makes it correct |
|---|---|---|---|---|
| Issues, comments, attachments (`server/issues.go`, `comments.go`, `attachments.go`, `db/`) | three tables | create, update, delete; comment; upload | check-then-act, deletes in three statements, stale validation | children have a parent; dependencies fit the status; a deleted issue stays deleted; what is opened again is not blocked |
| Accounts, onboarding (`server/users.go`, `auth_handlers.go`, `commands/users.go`) | table users; token and status cache under `srv.mu` | status, onboarding, create, update, delete; the CLI | check-then-act around bcrypt, a cache | an admin remains; one account per name; onboarding happens once |
| Login, sessions, limiter (`auth_handlers.go`, `sessions.go`, `ratelimit.go`) | sessions, failures per address, each under a mutex | login, logout, lookup, expiry | attempts checked before and counted after bcrypt; legacy hashes rewritten | the limit is exceeded by a bounded amount, and a lockout ends; nothing deleted comes back |
| Passkeys (`server/webauthn.go`, `db/webauthn.go`) | ceremonies in memory, table of credentials | begin and finish of registration and login, revocation | single use, expiry, read-check-write of the counter | a ceremony is finished once; a revoked passkey stays revoked |
| Push notifications (`notify.go`, `notifications.go`, `db/notifications.go`, `internal/apns`) | device tokens, badges, preferences | register, send, acknowledge, remove | goroutines that outlive requests; a token changes hands while a push is under way | nobody is told twice, or of what he did |
| Web notification stream (`webnotify.go`) | hub: user to channels, under a mutex | subscribe, publish, unsubscribe | bounded channels, close against publish | hub and open tabs agree; a tab that does not read holds nobody up |
| Teams (`server/teams.go`, `db/teams.go`) | table teams, lists of names in three other tables | create, rename, delete | counting uses and deleting in several statements; string replacement | reserved names remain; what is deleted is unused; a rename hides and reveals nothing |
| Projects (`server/projects.go`, `db/projects.go`) | projects, components | create, add and delete components, delete | the same, against the filing of issues | a component's project exists |
| Issue listing, change feed (`db.ListChanges`, `idtrack.js`) | the tab's window and cursor | load, page, poll, save | answers overtaking each other, one second of resolution | the window matches its filter; a poll shows what its cursor passes |
| Backup: copying (`server/backup.go`, `middleware.go`) | `backupMu`, the file, the copies | ticks, requests through `quiesce` | reader-writer lock against long-lived streams; writers outside the lock | a copy is a snapshot; backups and requests both make progress |
| Backup: retention (`server/backup.go`) | backup directory | thinning by size, pruning by count and age | boundaries of the buckets, several agers at once, partial copies | a good backup survives; thinning is by density |
| Lifecycle (`commands/serve.go`) | pid file | serve, stop, restart | check-then-act between processes | the server that is up is the one the pid file names, and there is no other |
| Ingest (`commands/ingest.go`, `ingest_parse.go`) | files, one transaction | import | parsing, guessing, failure half way | all or nothing; no line is lost; pairs exist |
| APNs client, images, PDF, rendering, minification, compression, defaults, schema, scripts | little or none | conversions | - | unit tests serve better (section 5) |

How they interact: every handler goes through `gzipHandler(secureHeaders(limitBody(quiesce(mux))))`;
`auth` looks the caller up once and the handler trusts that copy of the row;
issues and comments start notification goroutines; the backup shares with
everything else the file and, with requests only, `backupMu`.

## 2. What is modelled

| Module | Models | Its state |
|---|---|---|
| `Tables` | SQL statements on a table as operators on functions | - |
| `Issues` | issues, comments and attachments | the three tables, their key counters, `serving`: the requests in flight |
| `Accounts` | accounts, onboarding, the CLI | table users, token, cache, `serving` |
| `Login` | password and passkey logins, the limiter, ceremonies, sessions, the auth middleware | users and passkeys, what the authenticators hold, failures per address, sessions, both ceremony tables, `serving` |
| `Notify` | notification goroutines, device tokens, the hub and the tabs' channels | preferences, tokens, `hub`, `tabs`, `notifying` |
| `Directory` | teams, projects, components, and the lists and names on users and issues | five tables, `serving` |
| `Feed` | one browser tab's list of issues and the queries it asks | issues and their stamps; the page's window, cursor, filter, lock; `fetches` under way |
| `Snapshot` | abstract: what a backup is | version of the database, last backup |
| `Backup` | copying the file while serving; refines `Snapshot` | version of the file, requests, readers of `backupMu`, the backup goroutine, notification goroutines |
| `Retention` | the directory of backups and the agers at work on it | files, complete or partial; the copy under way; the agers and their listings |
| `Lifecycle` | `serve`, `stop`, `restart` and the servers they start | processes, pid file, the command at each terminal |
| `Ingest` | taking a file apart and storing a batch | lines of the first file, the plan, what is pending and stored |
| `MC...` | instances for TLC; `MCPeriphery` holds `Retention`, `Lifecycle`, `Ingest` and `Feed` | - |
| `Slices` | loops over a slice and sorting, in a form the provers can reason about | - |
| `DataTheorems` | lemmas about `Tables`, `Slices` and sequences, induction over the naturals | - |
| `...Proofs` | theorems and proofs about `Issues`, `Accounts`, `Backup`, `Login`, `Notify`, `Directory`; `PeripheryProofs` about `Lifecycle`, `Retention`, `Ingest` and `Feed` | - |

**Requests.** In `Issues`, `Accounts`, `Login` and `Directory` a request in flight
is a record in `serving`: the statement its handler performs next and the locals
that later statements use. An action is one SQL statement or one section under
a mutex, with the control that follows it up to the next one. What a handler
reads and then keeps (the status and blockers of an issue, the caller's row, a
passkey's counter) stays in the record, so staleness is in the model and not
assumed away. A request refused on what its first statement reads has changed
nothing and is not a step: the reasons for refusing it are conjuncts of the
action that begins it. A read after the last write that only fills in the
response is left out, except where something follows from it
(`CreateIssueRefetch`, `UpdateIssueRefetch`).

**Other processes and goroutines** are modelled alike, under names of their own:
`notifying` (a goroutine goes through its recipients and each one's devices),
`agers` (each works from the listing it made), `term` (a command between reading
and writing the pid file), `fetches` (a request of the page: sent, counted,
answered; what the page does with the answer is a step of its own).

**Failures.** `Abort`, `Restart`, `ServerDies`, `Interrupt`, `Rollback` end work
between any two steps; what was written stays, except in a transaction. This is
also what an error from SQLite amounts to, as no handler undoes anything. In
`Feed`, `Fail` loses a request or its answer; in `Notify` a push is delivered,
refused as unregistered, or lost.

**Time.** In `Login` the limiter's windows count down by `Tick`; sessions and
ceremonies expire at any moment. In `Feed` stamps are whole seconds and many
writes fall into one. In `Retention` an hour and a day are a few ticks; a copy or an
ager may outlast any number of them, so that several agers and the next copy are at
work at once.

**Data.** Text and times are left out; whether `resolved_at` is set is kept
because two pieces of code that must agree maintain it. Blank names are kept in
`Accounts` because the handlers refuse them. A team list is a sequence of names:
`Directory` models the `replace(',old,', ...)` of a rename by what it does to a
list in which the name occurs first, last or next to itself. A line of an
ingested file is what the parser's patterns make of it. A file copied is the
versions of its first and its last pages: it is torn when these differ. The filter
of the issue list and the counts of `DeleteTeam` are `LIKE` patterns into which a
team's name goes unescaped, and nothing keeps `_` or `%` out of a name: the constant
`Likes` gives what each name's pattern matches, `{<<name>>}` where it has no wildcard.
Names of projects and components are matched without regard to case in `Ingest`
(the constant `Folded`), and the default component is stored as it was typed. A
response go-webauthn verifies is one made for the challenge with a key of the
account. The `Max...` constants bound how much is ever written, drawn, started.

**RWMutex.** A `Lock` that waits keeps new readers out, and `Unlock` admits every
reader that was waiting; `Backup` models both, as the first is why a stream would
have stopped the server and the second is why requests are not starved.

**Mutations.** A definition whose name starts with `Bug` is the code with a
plausible mistake in it. No action uses it; it is there to show, when put in place
of the definition that follows it, that a property fails.

## 3. What is checked

All runs pass except those whose property is marked violated: what such a property
says is what a document or a comment says, and the run shows the code doing
otherwise (see *Where the code differs*).

| Run | Instance | Properties |
|---|---|---|
| `issues` | 2 requests, 2 issues, a comment, an attachment, one user, an admin; all operations | `TypeOK`, `RowsConsistent`, `DependenciesWereFiled`, `NoOrphans`, `DeletedStaysDeleted`, `NewIssuesStartBare` |
| `issues_reopen` | 2 requests, 3 issues | `ReopenedWhenResolved` **violated** |
| `backup` | 2 clients, a stream, a notification goroutine, the CLI; 3 writes | `TypeOK`, `CopyExcludesRequests`, `ActsAsSnapshot`, `TickLeadsToCopy`, `BlockedIsServed` |
| `accounts` | 3 requests, 3 names, all operations, the CLI | `TypeOK`, `AdminRemains`, `StaleNoIsDropped`, `UpdateNeverRevives`, `LockoutIsFinal` |
| `accounts_onboard` | 2 requests, 2 names | `OnboardingIsFirst` **violated** |
| `login` | 2 requests, one address, account and authenticator key, 2 passwords, 2 ceremonies; limit 2, window 2 ticks | `OvershootBounded`, `CeremonyHeldOnce`, `RevokedStaysRevoked`, `LoginNeverRevives`, `LockoutEnds` |
| `notify` | 2 users, a device, 2 tabs, 1 goroutine, 2 kinds of event, 3 events, channels of 2 | `HubIsOpenTabs`, `ToldOnce`, `NotifyEnds` |
| `notify_device` | 2 users, a device, a tab, 1 goroutine, 1 event | `AuthorIsSpared` **violated** |
| `directory` | 1 request, one user, 2 projects, a component, an issue, the teams `dev_ops` and `devxops` and a third name; or renames only, from every list of up to 3 names on a user, a project and an issue | `ReservedRemain`, `RulesAgree`, `ComponentsHaveProject`, `RenameKeepsSight` |
| `directory_delete` | 2 requests, a user, a project, 2 names | `DeletedTeamIsUnused` **violated** |
| `periphery` | `Retention`: 2 agers, 4 policies, hour = 2 ticks, day = 3 hours, 9 ticks; thinning by size from tick 14 with any directory of up to 4 earlier backups; `Lifecycle`: 2 terminals, 4 servers, 2 ports; `Ingest`: files of up to 4 lines, batches of 2, 3 projects, a default typed in another case; `Feed`: 2 fetches at once, 2 issues, 3 writes, pages of one, 3 seconds, 2 loads. A behaviour is of one of the five | `AlwaysABackup`, `ThinningKeepsDensity`, `Managed`, `RestartFindsPort`, `EveryLineIsFiled`, `StoredPairsExist`, `WindowMatchesFilter`, `PollShows` |
| `retention_newest` | the same | `LastDailyRemains` **violated** |

**What the runs show together.** Where the code protects itself *in* a statement
(an `UPDATE ... WHERE id`, `AUTOINCREMENT`, the `CASE` for `resolved_at`), by
*taking* what it checks (`take` of a ceremony removes it under the same mutex) or
with a lock held across the work (`backupMu`, the hub's mutex), the promise holds
under every interleaving. Where it looks first and acts in a later statement, two
overlapping requests break it, which the violated runs of issues, accounts, devices
and teams show. What is left to be promised of the login limiter, which also looks
first, is how far it is exceeded.

**The properties under a condition.** Some promises are kept unless one thing happens
that the code does not prevent. A history variable, which no guard reads, records
that it has happened; all else may overlap and die half way:

| Property | holds | Recorded in |
|---|---|---|
| `NoOrphans` | of the children of every issue whose deletion never met a request about to insert a child under it | `crossed`: those issues |
| `AdminRemains`, `StaleNoIsDropped` | until two requests that may take "admin" from somebody have overlapped, or the CLI has written | `contended` |
| `ActsAsSnapshot` | of every backup during which nobody wrote without `backupMu` (a notification goroutine, the CLI) | `intruded` |
| `AlwaysABackup` | while every copy and its ager are done before the next tick | `late` |
| `Managed`, `RestartFindsPort` | while commands are typed one at a time, end by themselves and `serve` does not meet a server still ending | `disturbed` |

`AlwaysABackup` needs its condition because a copy and an ager use the time and the
listing they began with: when they are slow the newest good backup may go.
`ThinningKeepsDensity` has none: it is about any number of agers, each as slow as it
likes. `RulesAgree` has one half without a condition (the SQL filter hides nothing the
rule in Go shows) and one for users whose teams are plain names. `ComponentsHaveProject`
is checked with one request at a time: it is about a deletion that dies between its
statements (with two, a component may be added to a project under deletion).
`ToldOnce` is about whom `notify` addresses, and how often each tab and device is told;
whom a device belongs to by the time the push is sent is the subject of
`AuthorIsSpared`. `StoredPairsExist` lets the default component stand in the case in
which it was typed. `PollShows` says nothing of the second at which the cursor stops,
nor of the issue that is open, which the page skips, nor of a poll that asked for what
is newer than a later cursor (see below).

**Are the bounds enough?** Every race here is between one request's read and
write and one other request, so two requests show it. Two issues give an issue
and a blocker, and one with a child beside one being deleted. Ids are never reused,
so two issues let one be deleted, with a comment or an attachment left behind, and
another come after it. Three requests in `accounts` are two onboardings and a status
poll that refills the cache between them, or a demotion with a creation and an
onboarding beside it. A limit of 2 with 2 requests lets both pass the
check with one failure counted, the window run out with an attempt under way, and
the address be locked out. Two ceremonies let a registration and a login, or two
begins of one user, be open at once; with one user, key and address, whatever may
be confused is. Three events on a channel of 2 overflow it; two tabs and two
users let a tab be the last of its user or not. One project with a
component beside another, one team with a wildcard in its name beside one it matches,
and a third name to rename to are what the rules on names need. Three names in a list
put the old one first, last, in the middle, alone, twice or three times in a row; all
these lists can be stored by requests. Two fetches
are one that is overtaken and one that overtakes; pages of one row make the second
issue a second page. Nine ticks from an empty directory bring every policy to remove
something. Fourteen ticks are a little more than two days, with two hourly buckets,
so that the last of them, from which the bridge to the first day is taken, is
not the only one; four backups are two in a bucket, or one in an hourly bucket and two
of different days, besides those made during the run.
Two agers make their listings at different times and remove from under each other.
Four lines are a title, a
label and text on either side of it, or a code block. Three writes let a version be
written before, during and after a copy. The theorems need no bound.

Four constraints leave out what repeats: `OneCrossing` (of two issues whose deletion
crossed an insertion the second is not followed, nor are PUTs that begin to check
their dependencies after one), `ThreeInPeace` (after contention two requests at once), `TwoNames`
(the third team name is for the renames), `InTime` (in `AlwaysABackup`'s part nothing
after an ager came late; in the tab's part no second in which nothing is written but
one).

**Deadlock** is checked for `Backup`, `Accounts`, `Login` and `Notify`. The
configurations of `Issues`, `Directory` and `MCPeriphery` say `CHECK_DEADLOCK FALSE`:
there the bounded ids run out, the watch ends or the command has finished, and
nothing in that code waits for another party for ever.

**Fairness.**
* `Backup!LiveSpec`: an ordinary request ends: handlers only loop over what they
  have read, and the read and write timeouts of `http.Server` end the waiting for
  its client (`server/server.go`, 469-474). The backup goroutine goes on whenever it
  can: the ticker ticks, a copy succeeds or fails, and `Lock` is granted once the
  readers are gone, as Go's `RWMutex` guarantees. Nothing is assumed of streams, of
  clients, of notification goroutines or of the command line. That a stream may
  last for ever is the point of `TickLeadsToCopy`; weak fairness suffices because a
  waiting `Lock` keeps new readers out, so the lock, once free for it, stays free.
* `Login!LiveSpec`: the clock goes on, and nothing else. That someone who keeps
  trying while locked out is let in again is a fact of the limiter, not of the
  requests.
* `Notify!LiveSpec`: each goroutine goes on: its statements end, and `http.Client`
  gives Apple ten seconds. Nothing is assumed of the tabs, which may stop reading;
  that is the point of `NotifyEnds`.

A restart may happen at any time and counts as an answer to the liveness
properties of `Backup` and `Notify`.

### Where the code differs from what it says

Shown by a run:

* *Two first admins* (`accounts_onboard`). `HasUsers` is asked before bcrypt and the
  account is written after it (`server/auth_handlers.go:218`), so two onboardings with
  the same token both find the table empty, although line 216 says that only the
  first one creates a user.
* *Reopening* (`issues_reopen`). `server/issues.go:565` judges by the blockers read at
  the start, looked up one by one; one of them may be reopened, or another added,
  before the row is written. docs/API.md:840 says that every one must be resolved.
* *Pushed to its author* (`notify_device`). The tokens of a recipient are loaded once
  (`server/notify.go:145`); a device that the author registers before the push gets
  his own comment, against docs/NOTIFICATIONS.md:37.
* *A deleted team in use* (`directory_delete`). `db/teams.go:179` counts in three
  statements and deletes in a fourth; somebody may be given the team in between
  (docs/API.md:517).
* *The last daily backup* (`retention_newest`). The last phase of thinning by size
  (`server/backup.go:291`) goes down to the newest day and removes its backup too, though
  docs/BACKUPS.md:103 says that it stops when only the most recent daily backup remains.
  The rest of what docs/BACKUPS.md and the comment at `server/backup.go:164` say of
  thinning is `ThinningKeepsDensity`, which passes.

In the models as in the code, where a condition named above excludes it, or no
property speaks of it:

* *Orphaned comments*: `server/comments.go:82` inserts after a check in another
  statement; what is inserted while the issue is being deleted stays without it
  (against docs/API.md:857; this is what `crossed` records).
* *Lost blockers*: `server/issues.go:541` lets a non-admin only add blockers, by the
  list read at the start; one added meanwhile is removed when the row is written
  (docs/API.md:839). And anybody who may edit an issue may resolve it, which drops
  its blockers unchecked, and open it again (`server/issues.go:591`).
* *Lockout*: two admins who delete or demote each other at once both pass the
  last-admin guard (`server/users.go:249`); so does the creation of an ordinary account
  under an admin's name, which is an upsert (`contended`).
* *Replaced accounts*: of two requests that create the same name the second replaces
  the account of the first (`server/users.go:69`; docs/API.md:431 promises a 409).
* *Torn backups*: with push configured, notification goroutines write the file while
  it is copied (`server/notify.go:163`, against docs/BACKUPS.md:50; `intruded`).
* *Wildcards in team names*: a team `dev_ops`, which `db.CreateTeam` accepts, sees the
  issues of `devxops` in the list (`db/issues.go:213`, against the comment above it),
  but may not open them.
* *Names that are gone*: `DeleteProject`, `DeleteComponent` and `AddComponent` count in
  one statement and write in another, as `DeleteTeam` does.
* *Spelling of the default component*: it is matched without regard to case and stored as
  typed (`commands/ingest.go:242`), so that an issue may name a component that has no row.
* *Two servers*: of two overlapping `serve`s both may find no pid file
  (`commands/serve.go:367`, against README.md:82); an interruption between the spawn
  and the writing of the file (near line 419) leaves a server no command finds. `stop` does
  not wait, so a `serve` right after it may be refused its port; `restart` waits ten
  seconds and then does the same.
* *The last good backup*: agers that are slow, or two of them, count partial or newly
  begun copies as backups; a copy that takes longer than the maximal age is deleted
  as soon as it is complete. A copy that fails leaves a partial file under a valid
  name.
* *A second of silence*: a change in the second at which the cursor stops, after the
  poll that put it there, is never shown by polling (`>` on stamps in seconds).
* *A poll that outlives a reload*: a reload empties the cursor, the answer to a save
  of before the reload sets it to that edit's stamp (`idtrack.js:1868`), and a poll
  that had asked from a later cursor carries it past the changes in between, which
  nobody has shown. Three requests under way and four writes produce it; the proof
  of `PollShows` asked for the condition `since <= cursor`, which excludes it.

Read in the code while modelling it, and modelled as it is:

* *Issues*: a status that is none of the four is stored as it comes
  (`server/issues.go:481` has no default); `db.CreateIssue` answers nil without an
  error when the issue is deleted before it is read back, which `handleCreateIssue`
  does not expect (line 279); neither create nor update asks whether the component
  exists.
* *Login*: the upgrade of a legacy hash (`auth_handlers.go:399`) may undo a password
  change made since the comparison. `docs/API.md:315` promises 401 for a cloned
  authenticator; the handler does not look at the library's clone warning. Two
  logins with one passkey may store their counters in the wrong order
  (`webauthn.go:424`). A finish takes its ceremony before it asks the limiter, so a
  429 uses it up. Deleting an account leaves its sessions and passkeys, which a new
  account of that name takes over; expired sessions that nobody presents again are
  never removed (`sessions.go:113`).
* *Teams*: a rename to a list that already has the name, or of adjacent duplicates,
  leaves every second one; renaming a name that is not registered merges into any
  other, "admin" included; `teamsEqual` (`server/issues.go:687`) is not symmetric on
  lists with duplicates.
* *The page*: its cursor is set to "now" after a load, past changes between the query
  and the answer; its own save and the pages it loads push the cursor past changes
  not seen; deletions never surface; a load that fails leaves no cursor, and polling
  stops; a stale poll may restore an older row; `doSaveIssue` uses `_currentId` after
  the await; paging by offset repeats or skips rows when issues come or go.
* *Ingest*: text before the first section is dropped when a section is labelled
  "description", against the comment at `ingest_parse.go:97`.

## 4. What is proved

TLAPS checks every theorem to the last leaf. The assumptions on the constants
are the ones the modules declare, each module one, and those named here. Only
`SerialComponentsHaveProject` speaks of requests one at a time, and says so in an
`ASSUME` on the set of requests.

**Data** (`DataTheorems`). What a loop over a slice builds cannot be had from the
library's induction, which takes an operator as its parameter. `LeastNumber` (a set of
naturals has a least one, from the library's well-foundedness of `<`) gives
`Induction` for a *set* of naturals instead; `Recursion` gives a function for each
recursive rule, and with it `FilterMembers`, `FilterLength` and `FlattenMembers` say
what the loops keep. `AscendingMembers`: a sorted list of a finite set of numbers
has each once, in order; `ConcatAscending` and `FlattenAscending` say when ascending
lists put together are ascending, and `AscendingLength` counts their members.

**Issues** (`IssuesProofs`), for any set of requests and users and any bounds.
`TypeCorrect`, `RowsStayConsistent`, `DependenciesFiled`, `DeletedIssuesStayDeleted`
and `IssuesAreBornBare` follow from the inductive invariant `IInv`, the
conjunction of
* `TypeOK`, `RowsConsistent` and `DependenciesWereFiled`;
* `IdsIssued`: every id that any row or request mentions is below its counter,
  which is what makes a fresh id fresh;
* `RequestsOK`: a PUT that has passed its checks carries a body that suits its
  status, and the dependencies it has looked up were filed. It is needed because
  `RowsConsistent` says nothing of a request that is about to write.

`OnlyCrossingsOrphan` has an invariant of its own, `ChildrenAccountedFor`: outside
`crossed`, whoever is about to insert a child still has its parent, and a deletion
that has passed a statement has left nothing of what that statement removes, whatever
other requests, crossed or dying, do meanwhile. This is the argument for the order
of the statements in `db.DeleteIssue`.

**Login** (`LoginProofs`), for any requests, addresses, accounts, keys, any limit and
window.
* `OvershootIsBounded`: the failures recorded of an address stay below the limit plus
  the number of requests served at once. By itself this is not inductive; `Bounded`
  is: failures recorded *and attempts the limiter has let pass that are still
  undecided* stay below that sum. An attempt passes only below the limit, and a
  failure that is recorded is one attempt less that is pending.
* `CeremoniesAreSingleUse`: with `HeldOnce`, that every challenge in a table or with a
  request has been drawn before and is in no other place. Most steps only drop
  ceremonies (`NoneTaken`); the begins draw a new one, the finishes move one from its
  table to the request.
* `RevocationsAreFinal` and `LoginsReviveNobody` hold of every step by itself.

**Notify** (`NotifyProofs`), for any users, devices, tabs, goroutines and any channel
size. `HubHoldsOpenTabs` and `NobodyIsToldTwice` share an invariant: besides the first
itself, goroutines are about events of their own and never go to the author
(`GoroutinesOK`), and what lies in a channel is of an event whose goroutine has this
user behind it (`OnlyTheReachedAreTold`). The last is what keeps a second copy out.

**Directory** (`DirectoryProofs`), for any names, projects, issues and lists of any
length. `ReservedTeamsRemain` needs that no request that is about to remove a team is
about a reserved one (`FieldsOK`). `OneRuleOfSight` needs that no list of an account is ever empty,
through edits, merges of the admin alias and renames that find a name anywhere in a
list. `RenamesKeepSight` follows `replace(',old,', ...)` through a list of any length.
`SerialComponentsHaveProject` assumes one request at a time; its invariant says what a
deletion has found out by the statement it is at.

**Feed** (`PeripheryProofs`), for any number of requests under way, issues, writes,
seconds and loads. `ScreenKeepsItsFilter` and `PollsShowChanges` share `FeedInv`, which
says of every request under way (`Pending`): its rows are of issues that exist and of
no later second than now; if it is of the present load it asked for the present
filter, and a page has only what its filter lists (`AskedFor`); the answer to a poll
has every issue whose stamp lies between the cursor it was asked with and its latest
row, as the issue still is, and has it once (`Complete`). The last is inductive
because a write is stamped with the present second, which no row lies beyond
(`StillPending`).

**Retention** (`PeripheryProofs`), for any policies and agers. `AlwaysABackup` is not
inductive. `RInv` adds that while nothing is late the copy under way is the newest
file (`CopyIsNewest`), and that an ager is at work only when the newest file is a
complete backup, which none of its three plans names (`AgersSpareNewest`).
`ThinningIsByDensity` adds `PlansAreByDensity`: what a thinning goroutine has still to
remove comes in the order of the density rule (`ByDensity`), and nothing that is on
the disk and should have gone before is left out of it (`Overlooks`). The second part
is needed because the property speaks of the files left, not of the plan.
`CandidatesByDensity` has this of a new plan, phase by phase, and `PlanStillByDensity`
keeps it while others remove files and new backups are begun.

**Ingest** (`PeripheryProofs`), for any file, batch and projects. `IngestedPairsExist`:
the pair of the plan, of whatever is pending and of the default is one of `Storable`
(`PairsAreSound`); `GuessExists` goes through the scores. `IngestFilesEveryLine` has two
halves. `EveryLineIsPlanned` is about the parser: a section reaches from its label to
the next one (`SectionsMembers`), so the sections and the text before them cut the
file into disjoint pieces (`TextIsCut`, `SectionsApart`), of which the description
takes one (`DescriptionPlace`) and the comments the others in order
(`CommentedMembers`), and a label is never between the two fences of a code block
(`LabelsOutsideCode`). `LinesAreFiled` is about the transaction: the first pending issue
has the planned description and the first of the planned comments, all of them once a
second issue is begun or the transaction commits.

**Lifecycle** (`PeripheryProofs`), for any terminals, servers and ports. `ServerIsManaged`
and `RestartsFindTheirPort` hold of `LifecycleSpec` as long as nothing is disturbed; the
invariant says what the one command under way may rely on at each of its steps:
that no process is up once it has forgotten the pid file, and that what it waits
for is the server the file names.

**Backup** (`BackupProofs`), with any number of clients, streams and notifiers and
whoever else writes. For `TypeCorrect` and `CopyExcludes` the invariant adds to the types
that the readers are exactly the ordinary requests being served (`LockIsHeld`), that
there are none while the lock is held for writing (`WriterIsAlone`) and that requests are
blocked only then or while it is wanted (`OnlyWritersBlock`). `QuiescedCopyIsAtomic`
says that the server implements `Snapshot`: a write maps to `Write`, the end of a copy
to `Take`, or to `Spoil` when somebody has intruded, everything else to a stutter. Its
invariant adds that during a copy nobody has intruded in, the pages copied so far are
of the present version.

**Accounts** (`AccountsProofs`), for every interleaving of any number of requests with
the CLI. `UpdatesReviveNobody` and `LockoutsAreFinal`: the guards of the administrative
requests need an admin and that of onboarding an empty table, and a lockout has
neither. `OnlyTwoRemovalsLockOut` and `StaleNoIsAlwaysDropped` hold up to the first
contention; what their invariant says of every request in flight is what its last check
still guarantees although others have gone on in between: a removal has seen another
admin, whom nobody but a second removal could have taken away.

**Only model-checked.** The liveness properties `TickLeadsToCopy`, `BlockedIsServed`,
`LockoutEnds` and `NotifyEnds`: liveness under fairness is out of the prover's reach.
Every other property of a passing run is a theorem.

## 5. Not modelled, and the plan

Not modelled, with the reason:
* *Schema and migrations*: straight-line DDL, run once at start-up.
* *Defaults and command line*: parsing and validating flags and one JSON file by one
  process; a table of conditions with no order to explore. (A relying party id cleared
  while passkeys are enabled is accepted, and `os.WriteFile` may leave half a file when
  interrupted, which reads as no defaults.)
* *Images, PDF, rendering*: conversions by decoders and tools outside the repository.
  `SetAttachmentPages`, which fills in a page count afterwards, is left out of
  `Issues`: nothing else reads it.
* *Static assets, minification, compression*: functions on embedded files and
  response bodies. The minifier is a lexer, of which a model would be a
  transliteration.
* *APNs client*: its three outcomes are in `Notify`; the cached provider token is one
  mutex around one value, the rest is formatting.
* *The page's presentation*, and the build and installation scripts.
* A session names an account by its name only. That a new account of the name takes
  over old sessions is in `Login` as in the code, but as there is nothing else to
  compare a session with, no property says anything of it.

The plan: every safety property of the passing runs has its theorem. What is left to
state, check and prove are promises of whole components, as `Snapshot` is for `Backup`:
an abstract table of issues that `Issues` implements with one request at a time, and an
abstract list that the page in `Feed` implements.
