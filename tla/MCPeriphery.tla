---------------------------- MODULE MCPeriphery ----------------------------
(***************************************************************************)
(* Instances for TLC of the parts that run beside the request handlers:    *)
(* Retention, Lifecycle, Ingest and Feed.  They share no state, so one run *)
(* explores the behaviours of each, while the others stay as they began.   *)
(***************************************************************************)
EXTENDS Retention, Lifecycle, Ingest, Feed, TLC

VARIABLE part  \* the one this behaviour is about

Policy(size, count, age) == [size |-> size, count |-> count, age |-> age]
SizeOnly == Policy(4, 0, 0)
SomePolicies == {SizeOnly, Policy(0, 2, 0), Policy(0, 0, 3), Policy(6, 3, 6)}

Project(name, components) == [name |-> name, components |-> components]
SomeProjects ==
  <<Project("api", <<"db", "web">>), Project("doc", <<>>), Project("app", <<"web">>)>>

Found(name, title, body) == [name |-> name, title |-> title, body |-> body]
SomeFinds == {Found(TRUE, FALSE, 0), Found(FALSE, TRUE, 4), Found(FALSE, FALSE, 2)}

SomeSpellings == {"DB"}
LowerCase(n) == IF n = "DB" THEN "db" ELSE n

AllActions == {"page", "filter", "open", "save"}

-----------------------------------------------------------------------------
(* A server that finds some backups of the last days, as a server may that *)
(* was started without a size before.                                      *)

FirstTick == 14
MaxFiles == 4

ThinningInit ==
  /\ now = FirstTick /\ policy = SizeOnly
  /\ \E files \in SUBSET (1..(FirstTick - 1)) :
       /\ Cardinality(files) <= MaxFiles
       /\ disk = [f \in files |-> TRUE]
  /\ copying = NotCopying
  /\ agers = [a \in Agers |-> Idle]
  /\ kept = FALSE /\ late = FALSE

-----------------------------------------------------------------------------
(* One part moves, the others are in an initial state.                     *)

RetentionRests == RetentionInit /\ policy = SizeOnly
IngestRests ==
  /\ file = <<>> /\ found = [n \in {Folded(m) : m \in Names} |-> Nowhere]
  /\ default = <<"api", "db">>
  /\ step = "edit" /\ plan = NoPlan /\ pending = <<>> /\ stored = <<>>

PeripheryInit ==
  /\ LifecycleInit
  /\ Init  \* of Feed
  /\ \/ part = "retention" /\ RetentionInit /\ IngestRests
     \/ part = "thinning" /\ ThinningInit /\ IngestRests
     \/ part \in {"lifecycle", "feed"} /\ RetentionRests /\ IngestRests
     \/ part = "ingest" /\ RetentionRests /\ IngestInit

PeripheryNext ==
  /\ UNCHANGED part
  /\ \/ part \in {"retention", "thinning"} /\ RetentionNext /\ UNCHANGED <<lvars, ivars, vars>>
     \/ part = "lifecycle" /\ LifecycleNext /\ UNCHANGED <<rvars, ivars, vars>>
     \/ part = "ingest" /\ IngestNext /\ UNCHANGED <<rvars, lvars, vars>>
     \/ part = "feed" /\ Next /\ UNCHANGED <<rvars, lvars, ivars>>

PeripherySpec == PeripheryInit /\ [][PeripheryNext]_<<part, rvars, lvars, ivars, vars>>

\* AlwaysABackup speaks of the time before a copy or an ager comes late, and what
\* has once come late stays so: TLC need not go beyond it, and nine ticks from an
\* empty directory are enough for each policy to remove backups.  In a tab's list
\* the clock is of interest by what is written in between.
InTime ==
  /\ part = "retention" => ~late /\ now <= 9
  /\ part = "feed" => clock <= writes + 1

PeripherySymmetry == Permutations(Agers) \cup Permutations(Fetches)
=============================================================================
