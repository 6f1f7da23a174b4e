------------------------------ MODULE Snapshot ------------------------------
(***************************************************************************)
(* What a backup promises, whatever the file is made of: the database goes *)
(* from version to version, and a backup is one of them, taken whole at    *)
(* some instant, or is spoiled by a writer outside the server's control.   *)
(***************************************************************************)
EXTENDS Naturals

VARIABLES version, backup

NoBackup == [taken |-> FALSE]
Taken(v) == [taken |-> TRUE, of |-> v]
Spoiled == [spoiled |-> TRUE]

Init == version = 0 /\ backup = NoBackup

Write == version' = version + 1 /\ UNCHANGED backup
Take == backup' = Taken(version) /\ UNCHANGED version
Spoil == backup' = Spoiled /\ UNCHANGED version

Next == Write \/ Take \/ Spoil

vars == <<version, backup>>

Spec == Init /\ [][Next]_vars
=============================================================================
