------------------------------ MODULE MCIssues ------------------------------
(***************************************************************************)
(* Instances of Issues for TLC: which operations clients perform, and how  *)
(* many requests overlap, differs from one .cfg to the next.               *)
(***************************************************************************)
EXTENDS Issues, TLC

AllOps == {"create", "update", "delete", "comment", "delete_comment", "attach", "delete_attachment"}
UpdateOps == {"create", "update"}

KnownOnly == {"Open", "Resolved", "Blocked", "Duplicate"}
NoDuplicates == KnownOnly \ {"Duplicate"}

\* One crossing is enough for its orphans to turn up somewhere, and PUTs do after
\* it what they did before.
OneCrossing ==
  \/ crossed = {}
  \/ /\ Cardinality(crossed) = 1
     /\ \A r \in DOMAIN serving : serving[r].step # "update_checks"

RequestSymmetry == Permutations(Requests)
=============================================================================
