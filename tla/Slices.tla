------------------------------- MODULE Slices -------------------------------
(***************************************************************************)
(* What Go does with a slice, where a proof is about what it builds (the   *)
(* library's SelectSeq and SortSeq are opaque to the provers).             *)
(***************************************************************************)
EXTENDS Naturals, Sequences, FiniteSets

\* for _, x := range s { if keep(x) { kept = append(kept, x) } }
Filter(s, keep) ==
  LET kept[n \in 0..Len(s)] ==
        IF n = 0 THEN <<>>
        ELSE IF s[n] \in keep THEN Append(kept[n - 1], s[n]) ELSE kept[n - 1]
  IN  kept[Len(s)]

\* sort.Strings, and ORDER BY in a query: the numbers of a set, ascending.
Ascending(S) ==
  [i \in 1..Cardinality(S) |->
     CHOOSE x \in S : Cardinality({y \in S : y < x}) = i - 1]
=============================================================================
