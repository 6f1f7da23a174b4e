---------------------------- MODULE BackupProofs ----------------------------
(***************************************************************************)
(* What holds of Backup for any number of requests, streams and            *)
(* notification goroutines, and any number of writes.                      *)
(***************************************************************************)
EXTENDS Backup, TLAPS

USE DEF Requests, Versions, Bypasses, MustWait, ReadersGone, Serving

\* A client is served exactly while it holds the lock for reading.
LockIsHeld == \A r \in Clients : request[r] = "served" <=> r \in readers

\* The writer has the lock to itself, and nobody is served before startup.
WriterIsAlone ==
  loop \in {"startup", "startup_copy", "locked", "copying"} => readers = {}

\* Nobody waits for a lock that nobody wants, nor does a stream ever.
OnlyWritersBlock ==
  \A r \in Requests : request[r] = "blocked" =>
    r \in Clients /\ loop \in {"locking", "locked", "copying"}

IInv == TypeOK /\ LockIsHeld /\ WriterIsAlone /\ OnlyWritersBlock

LEMMA InitIInv == Init => IInv
<1> SUFFICES ASSUME Init PROVE IInv
  OBVIOUS
<1>1. intruded \in BOOLEAN
  BY DEF Init
<1> QED
  BY <1>1, BackupAssumption
     DEF Init, IInv, TypeOK, LockIsHeld, WriterIsAlone, OnlyWritersBlock, NoBackup

\* Whoever writes without the lock is recorded.
LEMMA IntrusionType ==
  ASSUME TypeOK, IntrudeOrNot
  PROVE  version' \in Versions /\ intruded' \in BOOLEAN
<1>1. version' \in Versions
  BY BackupAssumption DEF TypeOK, IntrudeOrNot, Intrude, Change
<1>2. intruded' \in BOOLEAN
  BY DEF TypeOK, IntrudeOrNot, Intrude
<1> QED  BY <1>1, <1>2

LEMMA StepIInv == IInv /\ [Next]_vars => IInv'
<1> USE BackupAssumption
        DEF IInv, TypeOK, LockIsHeld, WriterIsAlone, OnlyWritersBlock
<1> SUFFICES ASSUME IInv, [Next]_vars PROVE IInv'
  OBVIOUS
<1>1. ASSUME NEW r \in Requests, Arrive(r) PROVE IInv'
  BY <1>1 DEF Arrive
<1>2. ASSUME NEW r \in Requests, RequestWrites(r) PROVE IInv'
  BY <1>2 DEF RequestWrites, Change
<1>3. ASSUME NEW r \in Requests, Finish(r) PROVE IInv'
  BY <1>3 DEF Finish
<1>4. ASSUME NEW r \in Requests, NEW n \in Notifiers, SpawnNotify(r, n) PROVE IInv'
  BY <1>4 DEF SpawnNotify
<1>5. ASSUME NEW n \in Notifiers, NotifyEnds(n) PROVE IInv'
  BY <1>5 DEF NotifyEnds
<1>6. ASSUME NEW n \in Notifiers, NotifyBadge(n) PROVE IInv'
  BY <1>6, IntrusionType DEF NotifyBadge
<1>7. ASSUME NEW n \in Notifiers, NotifySent(n) PROVE IInv'
  BY <1>7, IntrusionType DEF NotifySent
<1>8. CASE CliWrites
  BY <1>8, IntrusionType DEF CliWrites, IntrudeOrNot
<1>9. CASE StartupBackup \/ StartupNoDirectory
  BY <1>9 DEF StartupBackup, StartupNoDirectory
<1>10. CASE StartupDone
  <2>1. Completion \in Completed
    BY DEF Completion, Completed
  <2> QED
    BY <1>10, <2>1 DEF StartupDone
<1>11. CASE Tick
  BY <1>11 DEF Tick
<1>12. CASE LockAcquired
  BY <1>12 DEF LockAcquired
<1>13. CASE CopyBegins
  BY <1>13 DEF CopyBegins
<1>14. CASE CopyEnds
  <2>1. Completion \in Completed
    BY DEF Completion, Completed
  <2> QED
    BY <1>14, <2>1 DEF CopyEnds, Unlock, Blocked
<1>15. CASE CopyFails
  BY <1>15 DEF CopyFails, Unlock, Blocked
<1>16. CASE Restart
  BY <1>16 DEF Restart
<1>17. CASE UNCHANGED vars
  BY <1>17 DEF vars
<1> QED
  BY <1>1, <1>2, <1>3, <1>4, <1>5, <1>6, <1>7, <1>8, <1>9, <1>10, <1>11, <1>12,
     <1>13, <1>14, <1>15, <1>16, <1>17 DEF Next

LEMMA IInvHolds == Spec => []IInv
BY InitIInv, StepIInv, PTL DEF Spec

\* Every variable of the backup machinery keeps its type, and only ordinary
\* requests ever hold backupMu.
THEOREM TypeCorrect == Spec => []TypeOK
BY IInvHolds, PTL DEF IInv

\* quiesce excludes: no ordinary request is being served while doBackup
\* copies the file, however many arrive and whenever they do.
THEOREM CopyExcludes == Spec => []CopyExcludesRequests
<1>1. IInv => CopyExcludesRequests
  BY DEF IInv, LockIsHeld, WriterIsAlone, CopyExcludesRequests
<1> QED
  BY <1>1, IInvHolds, PTL

-----------------------------------------------------------------------------
(* Who writes the file while it is copied does not hold the lock, and has  *)
(* been recorded as an intruder; so quiesce is enough against requests.    *)

\* What has been copied so far is still what is in the file, and so it was when
\* the last backup was completed, intruders apart.
SnapshotInv ==
  /\ IInv
  /\ loop \in {"startup_copy", "copying"} /\ ~intruded => head = version
  /\ backup.taken /\ ~backup.intruded => backup.head = backup.tail

LEMMA InitSnapshotInv == Init => SnapshotInv
BY InitIInv DEF Init, SnapshotInv, NoBackup

LEMMA StepSnapshotInv == SnapshotInv /\ [Next]_vars => SnapshotInv'
<1> SUFFICES ASSUME SnapshotInv, [Next]_vars PROVE SnapshotInv'
  OBVIOUS
<1>0. IInv'
  BY StepIInv DEF SnapshotInv
<1> USE DEF SnapshotInv
<1>1. ASSUME NEW r \in Requests, Arrive(r) \/ Finish(r) PROVE SnapshotInv'
  BY <1>0, <1>1 DEF Arrive, Finish
<1>2. ASSUME NEW r \in Requests, RequestWrites(r) PROVE SnapshotInv'
  <2>1. loop \notin {"startup_copy", "copying"}
    BY <1>2 DEF RequestWrites, IInv, LockIsHeld, WriterIsAlone
  <2> QED
    BY <1>0, <1>2, <2>1 DEF RequestWrites
<1>3. ASSUME NEW r \in Requests, NEW n \in Notifiers, SpawnNotify(r, n) PROVE SnapshotInv'
  BY <1>0, <1>3 DEF SpawnNotify
<1>4. ASSUME NEW n \in Notifiers, NotifyEnds(n) \/ NotifyBadge(n) \/ NotifySent(n)
      PROVE  SnapshotInv'
  BY <1>0, <1>4 DEF NotifyEnds, NotifyBadge, NotifySent, IntrudeOrNot, Intrude
<1>5. CASE CliWrites
  BY <1>0, <1>5 DEF CliWrites, Intrude
<1>6. CASE StartupBackup \/ StartupNoDirectory \/ Tick \/ LockAcquired \/ CopyBegins
  BY <1>0, <1>6 DEF StartupBackup, StartupNoDirectory, Tick, LockAcquired, CopyBegins
<1>7. CASE StartupDone
  BY <1>0, <1>7 DEF StartupDone, Completion
<1>8. CASE CopyEnds
  BY <1>0, <1>8 DEF CopyEnds, Unlock, Completion
<1>9. CASE CopyFails
  BY <1>0, <1>9 DEF CopyFails, Unlock
<1>10. CASE Restart
  BY <1>0, <1>10 DEF Restart
<1>11. CASE UNCHANGED vars
  BY <1>0, <1>11 DEF vars
<1> QED
  BY <1>1, <1>2, <1>3, <1>4, <1>5, <1>6, <1>7, <1>8, <1>9, <1>10, <1>11 DEF Next

LEMMA SnapshotInvHolds == Spec => []SnapshotInv
BY InitSnapshotInv, StepSnapshotInv, PTL DEF Spec

\* The whole machinery implements Snapshot: a copy under which nobody wrote
\* without the lock is an atomic snapshot, one under which somebody did is
\* spoiled, and every other step of the backup goroutine, the requests and the
\* notifications is invisible.
THEOREM QuiescedCopyIsAtomic == Spec => ActsAsSnapshot
<1> USE DEF Abstract!vars
<1>1. Init => Abstract!Init
  BY DEF Init, Abstract!Init, NoBackup, Abstract!NoBackup
<1>2. SnapshotInv /\ [Next]_vars => [Abstract!Next]_Abstract!vars
  <2> SUFFICES ASSUME SnapshotInv, [Next]_vars PROVE [Abstract!Next]_Abstract!vars
    OBVIOUS
  <2> USE DEF Abstract!Next
  <2>1. ASSUME Change, UNCHANGED backup PROVE Abstract!Write
    BY <2>1 DEF Change, Abstract!Write
  <2>2. ASSUME StartupDone \/ CopyEnds, backup' # backup PROVE Abstract!Take \/ Abstract!Spoil
    <3>1. backup' = Completion /\ version' = version
      BY <2>2 DEF StartupDone, CopyEnds
    <3>2. ~intruded => head = version
      BY <2>2 DEF StartupDone, CopyEnds, SnapshotInv
    <3>3. CASE intruded
      BY <3>1, <3>3 DEF Completion, Abstract!Spoil, Abstract!Spoiled
    <3>4. CASE ~intruded
      BY <3>1, <3>2, <3>4 DEF Completion, Abstract!Take, Abstract!Taken
    <3> QED
      BY <3>3, <3>4
  <2>3. ASSUME UNCHANGED <<version, backup>> PROVE UNCHANGED Abstract!vars
    BY <2>3
  <2>4. \/ Change /\ UNCHANGED backup
        \/ (StartupDone \/ CopyEnds) /\ backup' # backup
        \/ UNCHANGED <<version, backup>>
    BY DEF Next, vars, Arrive, Finish, RequestWrites, SpawnNotify, NotifyEnds, NotifyBadge,
           NotifySent, CliWrites, Intrude, IntrudeOrNot, StartupBackup, StartupNoDirectory,
           StartupDone, Tick, LockAcquired, CopyBegins, CopyEnds, CopyFails, Unlock, Restart
  <2> QED
    BY <2>1, <2>2, <2>3, <2>4
<1> QED
  BY <1>1, <1>2, SnapshotInvHolds, PTL DEF Spec, ActsAsSnapshot, Abstract!Spec
=============================================================================
