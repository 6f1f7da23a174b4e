------------------------------- MODULE Backup -------------------------------
(***************************************************************************)
(* Taking a backup of the database file while the server runs:             *)
(* server/backup.go.  The file is copied with io.Copy, piece by piece, so  *)
(* every request holds backupMu for reading (middleware quiesce) and the   *)
(* backup goroutine takes it for writing (doBackup).  Two things write the *)
(* file without that lock: notification goroutines, when push is           *)
(* configured, and the command line tool, which is another process.  A     *)
(* notification stream does not take it either, but writes nothing.        *)
(*                                                                         *)
(* backupMu is a sync.RWMutex: a Lock that waits keeps new readers out,    *)
(* and an Unlock admits every reader that was waiting for it.              *)
(***************************************************************************)
EXTENDS Naturals, FiniteSets

CONSTANTS
  Clients,    \* goroutines serving ordinary requests
  Tabs,       \* goroutines serving notification streams
  Notifiers,  \* goroutines started by "go s.notify(...)"
  PushOn,     \* is s.apns configured?
  CliRuns,    \* does another process (ingest, user, ...) write the file?
  MaxWrites   \* bound on the writes of the instance

ASSUME BackupAssumption ==
  /\ Clients \cap Tabs = {}
  /\ PushOn \in BOOLEAN /\ CliRuns \in BOOLEAN
  /\ MaxWrites \in Nat

Requests == Clients \cup Tabs

VARIABLES
  version,   \* how often the database file has been changed
  request,   \* where each request is: not there, blocked in RLock, served
  readers,   \* the requests that hold backupMu for reading
  loop,      \* where the backup goroutine is
  head,      \* version of the pages copied so far
  intruded,  \* history: somebody wrote without the lock since the copy began
  backup,    \* the last backup whose copy was completed
  notifier   \* where each notification goroutine is

vars == <<version, request, readers, loop, head, intruded, backup, notifier>>

Versions == 0..MaxWrites

NoBackup == [taken |-> FALSE]

\* The versions of the first and of the last pages of a completed copy, and
\* whether anybody wrote meanwhile without the lock.
Completed == [taken: {TRUE}, head: Versions, tail: Versions, intruded: BOOLEAN]
Completion == [taken |-> TRUE, head |-> head, tail |-> version, intruded |-> intruded]

TypeOK ==
  /\ version \in Versions
  /\ request \in [Requests -> {"away", "blocked", "served"}]
  /\ readers \in SUBSET Clients
  /\ loop \in {"startup", "startup_copy", "off", "ticking", "locking", "locked", "copying"}
  /\ head \in Versions /\ intruded \in BOOLEAN
  /\ backup \in {NoBackup} \cup Completed
  /\ notifier \in [Notifiers -> {"free", "started", "sending"}]

Init ==
  /\ version = 0
  /\ request = [r \in Requests |-> "away"]
  /\ readers = {}
  /\ loop = "startup" /\ head = 0 /\ intruded = FALSE /\ backup = NoBackup
  /\ notifier = [n \in Notifiers |-> "free"]

\* One statement that changes the file, of somebody with the lock and without it.
Change == version < MaxWrites /\ version' = version + 1
Intrude == Change /\ intruded' = TRUE
IntrudeOrNot == Intrude \/ UNCHANGED <<version, intruded>>

-----------------------------------------------------------------------------
(* Requests, through quiesce.  A notification stream is let past the lock. *)

BugBypasses(r) == FALSE
Bypasses(r) == r \in Tabs

\* RWMutex.RLock waits while a Lock is held, or wanted.
BugNeverWait == FALSE
MustWait == loop \in {"locking", "locked", "copying"}

Serving == loop \notin {"startup", "startup_copy"}

Arrive(r) ==
  /\ Serving
  /\ request[r] = "away"
  /\ IF Bypasses(r)
       THEN request' = [request EXCEPT ![r] = "served"] /\ UNCHANGED readers
       ELSE IF MustWait
         THEN request' = [request EXCEPT ![r] = "blocked"] /\ UNCHANGED readers
         ELSE /\ request' = [request EXCEPT ![r] = "served"]
              /\ readers' = readers \cup {r}
  /\ UNCHANGED <<version, loop, head, intruded, backup, notifier>>

\* A handler of an ordinary request runs a statement.
RequestWrites(r) ==
  /\ r \in Clients /\ request[r] = "served"
  /\ Change
  /\ UNCHANGED <<request, readers, loop, head, intruded, backup, notifier>>

\* Creating an issue, commenting on one or changing its status ends in
\* "go s.notify(...)".
SpawnNotify(r, n) ==
  /\ r \in Clients /\ request[r] = "served"
  /\ notifier[n] = "free"
  /\ notifier' = [notifier EXCEPT ![n] = "started"]
  /\ UNCHANGED <<version, request, readers, loop, head, intruded, backup>>

\* The handler returns: the deferred RUnlock.
Finish(r) ==
  /\ request[r] = "served"
  /\ request' = [request EXCEPT ![r] = "away"]
  /\ readers' = readers \ {r}
  /\ UNCHANGED <<version, loop, head, intruded, backup, notifier>>

-----------------------------------------------------------------------------
(* Notification goroutines (notify, notifyOne, sendToToken).               *)

\* Nothing more to do for anybody: no preference, no token, no push.
NotifyEnds(n) ==
  /\ notifier[n] = "started"
  /\ notifier' = [notifier EXCEPT ![n] = "free"]
  /\ UNCHANGED <<version, request, readers, loop, head, intruded, backup>>

\* IncrementBadge before the push is sent: no row, no change.
NotifyBadge(n) ==
  /\ PushOn
  /\ notifier[n] = "started"
  /\ IntrudeOrNot
  /\ notifier' = [notifier EXCEPT ![n] = "sending"]
  /\ UNCHANGED <<request, readers, loop, head, backup>>

\* TouchToken or DeleteToken after it, or nothing when the send failed.
NotifySent(n) ==
  /\ notifier[n] = "sending"
  /\ IntrudeOrNot
  /\ notifier' = [notifier EXCEPT ![n] = "started"]
  /\ UNCHANGED <<request, readers, loop, head, backup>>

CliWrites ==
  /\ CliRuns
  /\ Intrude
  /\ UNCHANGED <<request, readers, loop, head, backup, notifier>>

-----------------------------------------------------------------------------
(* The backup goroutine.  startBackups copies once before the server       *)
(* serves, without the lock; then each tick runs doBackup.                 *)

StartupBackup ==
  /\ loop = "startup"
  /\ loop' = "startup_copy"
  /\ head' = version /\ intruded' = FALSE
  /\ UNCHANGED <<version, request, readers, backup, notifier>>

\* The backup directory cannot be made: the server runs without backups.
StartupNoDirectory ==
  /\ loop = "startup"
  /\ loop' = "off"
  /\ UNCHANGED <<version, request, readers, head, intruded, backup, notifier>>

StartupDone ==
  /\ loop = "startup_copy"
  /\ \/ backup' = Completion
     \/ UNCHANGED backup    \* the copy failed: a partial file at most
  /\ loop' = "ticking"
  /\ UNCHANGED <<version, request, readers, head, intruded, notifier>>

Tick ==
  /\ loop = "ticking"
  /\ loop' = "locking"
  /\ UNCHANGED <<version, request, readers, head, intruded, backup, notifier>>

BugReadersGone == TRUE
ReadersGone == readers = {}

LockAcquired ==
  /\ loop = "locking"
  /\ ReadersGone
  /\ loop' = "locked"
  /\ UNCHANGED <<version, request, readers, head, intruded, backup, notifier>>

\* copyFile reads the first pages ...
CopyBegins ==
  /\ loop = "locked"
  /\ head' = version /\ intruded' = FALSE
  /\ loop' = "copying"
  /\ UNCHANGED <<version, request, readers, backup, notifier>>

\* Unlock, deferred: every request blocked in RLock now holds the lock.
Blocked == {r \in Requests : request[r] = "blocked"}
Unlock ==
  /\ loop' = "ticking"
  /\ request' = [r \in Requests |-> IF r \in Blocked THEN "served" ELSE request[r]]
  /\ readers' = readers \cup Blocked

\* ... and the last ones: the copy is complete and synced.
CopyEnds ==
  /\ loop = "copying"
  /\ backup' = Completion
  /\ Unlock
  /\ UNCHANGED <<version, head, intruded, notifier>>

\* Any error of copyFile: doBackup returns it and its caller logs it.
BugCopyFails ==
  /\ loop \in {"locked", "copying"}
  /\ loop' = "ticking"
  /\ UNCHANGED <<version, request, readers, head, intruded, backup, notifier>>
CopyFails ==
  /\ loop \in {"locked", "copying"}
  /\ Unlock
  /\ UNCHANGED <<version, head, intruded, backup, notifier>>

\* The process dies and is started again: the file and the backups remain.
Restart ==
  /\ loop' = "startup"
  /\ request' = [r \in Requests |-> "away"]
  /\ readers' = {}
  /\ notifier' = [n \in Notifiers |-> "free"]
  /\ UNCHANGED <<version, head, intruded, backup>>

-----------------------------------------------------------------------------
Next ==
  \/ \E r \in Requests : Arrive(r) \/ RequestWrites(r) \/ Finish(r)
  \/ \E r \in Requests, n \in Notifiers : SpawnNotify(r, n)
  \/ \E n \in Notifiers : NotifyEnds(n) \/ NotifyBadge(n) \/ NotifySent(n)
  \/ CliWrites
  \/ StartupBackup \/ StartupNoDirectory \/ StartupDone
  \/ Tick \/ LockAcquired \/ CopyBegins \/ CopyEnds \/ CopyFails
  \/ Restart

Spec == Init /\ [][Next]_vars

\* http.Server's read and write timeouts end an ordinary request, and the
\* backup goroutine always goes on; a stream lasts as long as its tab, and
\* no client is obliged to send anything.
Fairness ==
  /\ \A r \in Clients : WF_vars(Finish(r))
  /\ WF_vars(StartupBackup \/ StartupNoDirectory) /\ WF_vars(StartupDone) /\ WF_vars(Tick)
  /\ WF_vars(LockAcquired) /\ WF_vars(CopyBegins) /\ WF_vars(CopyEnds \/ CopyFails)

LiveSpec == Spec /\ Fairness

-----------------------------------------------------------------------------
(* Properties.                                                             *)

\* While the file is copied nobody is served who might write it: every
\* request is away, waits for the lock, or is a stream.
CopyExcludesRequests ==
  loop = "copying" => \A r \in Clients : request[r] # "served"

\* A backup whose time has come is made, even while tabs hold notification
\* streams open for good: the reason quiesce lets them bypass the lock.
TickLeadsToCopy == loop = "locking" ~> loop # "locking"

\* A request that arrives during a backup waits, but not for ever: also when
\* the copy fails.
BlockedIsServed == \A r \in Clients : request[r] = "blocked" ~> request[r] # "blocked"

\* Copying piece by piece under the lock is as good as taking a snapshot
\* (docs/BACKUPS.md: "the database file is stable for the duration of the copy"),
\* unless somebody wrote meanwhile who does not take the lock.  A torn copy that
\* is nobody's fault stands for a version the file never had.
Abstract == INSTANCE Snapshot WITH
  version <- version,
  backup <- IF ~backup.taken THEN NoBackup
            ELSE IF backup.intruded THEN [spoiled |-> TRUE]
            ELSE IF backup.head = backup.tail THEN [taken |-> TRUE, of |-> backup.tail]
            ELSE [torn |-> TRUE]
ActsAsSnapshot == Abstract!Spec
=============================================================================
