------------------------------ MODULE MCBackup ------------------------------
(***************************************************************************)
(* Instances of Backup for TLC.                                            *)
(***************************************************************************)
EXTENDS Backup, TLC

BackupSymmetry == Permutations(Clients) \cup Permutations(Tabs) \cup Permutations(Notifiers)
=============================================================================
