----------------------------- MODULE Retention -----------------------------
(***************************************************************************)
(* What becomes of the backups once they are made (server/backup.go): the  *)
(* names they get, the goroutine that ages them after each one, and its    *)
(* three policies, by size, by count and by age.  Backup models how the    *)
(* copy itself is kept apart from the requests.                            *)
(*                                                                         *)
(* A backup is named after the second it was begun: here by that instant,  *)
(* counted in ticks.  Each goroutine works from the listing it made when   *)
(* it began, while the next backup and its own goroutine may follow.       *)
(***************************************************************************)
EXTENDS Naturals, Sequences, SequencesExt, FiniteSets, FiniteSetsExt, Tables, Slices

CONSTANTS
  Agers,         \* goroutines running ageBackups that may be at work at once
  Policies,      \* backupSize, backupCount and backupAge, 0 for none
  TicksPerHour,
  HoursPerDay,   \* 24 in the code
  LastTick       \* bound: how long the server is watched

ASSUME RetentionAssumption ==
  /\ TicksPerHour \in Nat \ {0} /\ HoursPerDay \in Nat \ {0, 1} /\ LastTick \in Nat
  /\ \A p \in Policies : p.size \in Nat /\ p.count \in Nat /\ p.age \in Nat

VARIABLES
  now,      \* the time
  disk,     \* the backup directory: time in the name -> whether all of it is there
  policy,   \* one of Policies
  copying,  \* the backup being written, or NotCopying
  agers,    \* the goroutines
  kept,     \* history: some backup has been completed
  late      \* history: a copy or an ager took longer than a tick or met the next copy

rvars == <<now, disk, policy, copying, agers, kept, late>>

NotCopying == 0

\* seen and at are the listing, with sizes, and the time sizeBackups works from; todo is
\* what is still to be removed, and total the size as far as the ager knows.
Idle == [pc |-> "idle", todo |-> <<>>, total |-> 0, seen |-> NoRows, at |-> 0]

RetentionInit ==
  /\ now = 1 /\ disk = NoRows /\ policy \in Policies
  /\ copying = NotCopying
  /\ agers = [a \in Agers |-> Idle]
  /\ kept = FALSE /\ late = FALSE

\* A database of two pages: of a copy cut short there is only the first.
SizeOf(f) == IF disk[f] THEN 2 ELSE 1
Total(files) == MapThenSumSet(SizeOf, files)

Busy == \E a \in Agers : agers[a].pc # "idle"

-----------------------------------------------------------------------------
(* The thinning by size: which files go, and in which order.               *)

\* listBackups sorts the names, which is by time.
OldestFirst(files) == Ascending(files)
Newest(files) == Max(files)
Extras(files) == files \ {Newest(files)}

HoursOld(f, t) == (t - f) \div TicksPerHour
Hourly(files, t, h) == {f \in files : HoursOld(f, t) = h}
Daily(files, t, d) == {f \in files : HoursOld(f, t) \div HoursPerDay = d}
Days(files, t) == {HoursOld(f, t) \div HoursPerDay : f \in files} \ {0}

LastHour == HoursPerDay - 1

HourlyExtras(files, t) ==
  FlattenSeq([h \in 1..LastHour |->
    LET bucket == Hourly(files, t, h)
    IN  IF bucket = {} THEN <<>> ELSE OldestFirst(Extras(bucket))])

DailyExtras(files, t) ==
  LET days == OldestFirst(Days(files, t))
  IN  FlattenSeq([i \in DOMAIN days |-> OldestFirst(Extras(Daily(files, t, days[i])))])

\* The last hour's keeper is about to become a second file of the first day.
Bridge(files, t) ==
  IF Hourly(files, t, LastHour) # {} /\ 1 \in Days(files, t)
  THEN <<Newest(Hourly(files, t, LastHour))>> ELSE <<>>

BugDailyKeepers(files, t) ==
  Reverse(OldestFirst({Newest(Daily(files, t, d)) : d \in Days(files, t)}))
DailyKeepers(files, t) ==
  OldestFirst({Newest(Daily(files, t, d)) : d \in Days(files, t)})

Candidates(files, t) ==
  HourlyExtras(files, t) \o DailyExtras(files, t) \o Bridge(files, t) \o DailyKeepers(files, t)

-----------------------------------------------------------------------------
(* The backups.                                                            *)

Passes ==
  /\ now < LastTick
  /\ now' = now + 1
  /\ late' = (late \/ Busy \/ copying # NotCopying)
  /\ UNCHANGED <<disk, policy, copying, agers, kept>>

\* newBackupPath and os.Create: at start-up and at every tick of the loop.
\* No two backups begin within one second.
CopyBegins ==
  /\ copying = NotCopying /\ now \notin DOMAIN disk
  /\ copying' = now
  /\ disk' = Put(disk, now, FALSE)
  /\ late' = (late \/ Busy)
  /\ UNCHANGED <<now, policy, agers, kept>>

\* The rest of doBackup: only a complete copy is followed by an ager.
BugCopyEnds ==
  /\ copying # NotCopying
  /\ copying' = NotCopying
  /\ \E whole \in BOOLEAN, a \in Agers :
       /\ disk' = Update(disk, copying, whole)
       /\ agers[a].pc = "idle"
       /\ agers' = [agers EXCEPT ![a] = [Idle EXCEPT !.pc = "size"]]
       /\ kept' = (kept \/ whole)
  /\ UNCHANGED <<now, policy, late>>
CopyEnds ==
  /\ copying # NotCopying
  /\ copying' = NotCopying
  /\ disk' = Update(disk, copying, TRUE)
  /\ \E a \in Agers :
       /\ agers[a].pc = "idle"
       /\ agers' = [agers EXCEPT ![a] = [Idle EXCEPT !.pc = "size"]]
  /\ kept' = TRUE
  /\ UNCHANGED <<now, policy, late>>

\* An error leaves what was written, under a name like any other.
CopyFails ==
  /\ copying # NotCopying
  /\ copying' = NotCopying
  /\ UNCHANGED <<now, disk, policy, agers, kept, late>>

\* The server dies and is started again.
ServerDies ==
  /\ copying' = NotCopying
  /\ agers' = [a \in Agers |-> Idle]
  /\ UNCHANGED <<now, disk, policy, kept, late>>

-----------------------------------------------------------------------------
(* ageBackups.                                                             *)

\* sizeBackups lists and measures the files, and plans what to remove.
SizeLists(a) ==
  /\ agers[a].pc = "size"
  /\ LET seen == [f \in DOMAIN disk |-> SizeOf(f)]
         over == policy.size > 0 /\ Total(DOMAIN disk) > policy.size
     IN  agers' = [agers EXCEPT ![a] =
           [pc |-> "thin", todo |-> IF over THEN Candidates(DOMAIN seen, now) ELSE <<>>,
            total |-> Total(DOMAIN disk), seen |-> seen, at |-> now]]
  /\ UNCHANGED <<now, disk, policy, copying, kept, late>>

\* What another ager removed first cannot be removed, nor is it subtracted.
Thin(a) ==
  LET ager == agers[a] IN
  /\ ager.pc = "thin" /\ ager.todo # <<>> /\ ager.total > policy.size
  /\ LET f == Head(ager.todo) IN
       /\ disk' = Without(disk, {f})
       /\ agers' = [agers EXCEPT ![a].todo = Tail(@),
                                 ![a].total = IF f \in DOMAIN disk THEN @ - ager.seen[f] ELSE @]
  /\ UNCHANGED <<now, policy, copying, kept, late>>

\* Then it lists them again, and plans to keep the newest backupCount.
CountLists(a) ==
  /\ agers[a].pc = "thin"
  /\ agers[a].todo = <<>> \/ agers[a].total <= policy.size
  /\ LET names == OldestFirst(DOMAIN disk)
         excess == IF policy.count > 0 /\ Len(names) > policy.count
                   THEN Len(names) - policy.count ELSE 0
     IN  agers' = [agers EXCEPT ![a] =
           [Idle EXCEPT !.pc = "prune", !.todo = SubSeq(names, 1, excess)]]
  /\ UNCHANGED <<now, disk, policy, copying, kept, late>>

\* ... and once more, to plan the removal of those that are too old.
AgeLists(a) ==
  /\ agers[a].pc = "prune" /\ agers[a].todo = <<>>
  /\ LET old == {f \in DOMAIN disk : policy.age > 0 /\ f + policy.age < now}
     IN  agers' = [agers EXCEPT ![a].pc = "expire", ![a].todo = OldestFirst(old)]
  /\ UNCHANGED <<now, disk, policy, copying, kept, late>>

\* Both remove whatever they planned.
Prune(a) ==
  /\ agers[a].pc \in {"prune", "expire"} /\ agers[a].todo # <<>>
  /\ disk' = Without(disk, {Head(agers[a].todo)})
  /\ agers' = [agers EXCEPT ![a].todo = Tail(@)]
  /\ UNCHANGED <<now, policy, copying, kept, late>>

AgerEnds(a) ==
  /\ agers[a].pc = "expire" /\ agers[a].todo = <<>>
  /\ agers' = [agers EXCEPT ![a] = Idle]
  /\ UNCHANGED <<now, disk, policy, copying, kept, late>>

RetentionNext ==
  \/ Passes \/ CopyBegins \/ CopyEnds \/ CopyFails \/ ServerDies
  \/ \E a \in Agers : \/ SizeLists(a) \/ Thin(a) \/ CountLists(a)
                      \/ AgeLists(a) \/ Prune(a) \/ AgerEnds(a)

RetentionSpec == RetentionInit /\ [][RetentionNext]_rvars

-----------------------------------------------------------------------------
(* Properties.                                                             *)

\* Once a backup has been completed there is a complete one in the directory,
\* whatever the policies, failed copies and crashes: as long as each copy and
\* its ager are done within the half hour, before the next copy.  (A slow ager
\* may take a copy under way, or a failed one, for the backup worth keeping;
\* a slow copy may be too old to be kept when it is complete.)
AlwaysABackup == kept /\ ~late => \E f \in DOMAIN disk : disk[f]

\* Thinning by size is by density (server/backup.go:164-175): it leaves the last
\* hour alone, takes the one file of an hour only from the last bucket and
\* only when a day-old one exists, takes the one file of a day only when every
\* bucket has been thinned, and then the oldest day's first; though other agers,
\* begun later or earlier, remove files meanwhile, and copies go on.
ThinsByDensity(a) ==
  LET t == agers[a].at
      seen == DOMAIN agers[a].seen
      f == Head(agers[a].todo)
      hour == HoursOld(f, t)
      inBucket(g) == IF HoursOld(g, t) < HoursPerDay THEN Hourly(seen, t, HoursOld(g, t))
                     ELSE Daily(seen, t, HoursOld(g, t) \div HoursPerDay)
      newest(g) == g = Newest(inBucket(g))
  IN  /\ hour >= 1
      /\ newest(f) /\ hour < HoursPerDay => hour = LastHour /\ 1 \in Days(seen, t)
      /\ newest(f) /\ hour >= HoursPerDay =>
           \A g \in seen \cap DOMAIN disk :
             HoursOld(g, t) >= 1 => newest(g) /\ (HoursOld(g, t) >= HoursPerDay => g >= f)
ThinningKeepsDensity ==
  [][\A a \in Agers : agers[a].pc = "thin" /\ disk' # disk /\ agers'[a].todo # agers[a].todo
       => ThinsByDensity(a)]_rvars

\* Thinning by size stops at the last backup that is a day old or more
\* (docs/BACKUPS.md:103).  The loop of server/backup.go:291 removes that one too.
LastDailyRemains ==
  [][\A a \in Agers : LET ager == agers[a] IN
       /\ Thin(a) /\ Head(ager.todo) \in DOMAIN disk
       /\ HoursOld(Head(ager.todo), ager.at) >= HoursPerDay
       => \E f \in DOMAIN disk' : HoursOld(f, ager.at) >= HoursPerDay]_rvars
=============================================================================
