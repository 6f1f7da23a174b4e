------------------------------- MODULE MCNotify -------------------------------
(***************************************************************************)
(* Instances of Notify for TLC.                                            *)
(***************************************************************************)
EXTENDS Notify
=============================================================================
