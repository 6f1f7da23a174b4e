----------------------------- MODULE MCAccounts -----------------------------
(***************************************************************************)
(* Instances of Accounts for TLC.                                          *)
(***************************************************************************)
EXTENDS Accounts, TLC

AllOps == {"status", "onboard", "create", "update", "delete"}

\* Three requests at once until something has been contended, then two.
ThreeInPeace == contended => Cardinality(DOMAIN serving) <= 2

AccountsSymmetry == Permutations(Requests) \cup Permutations(Usernames)
=============================================================================
