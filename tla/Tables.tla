------------------------------- MODULE Tables -------------------------------
(***************************************************************************)
(* A database table as a function from the primary keys present to their   *)
(* rows.  SQLite runs every statement atomically (db.Open opens a single   *)
(* connection), so a statement is one of these operators inside one step.  *)
(***************************************************************************)
EXTENDS Functions

\* INSERT of a row under a new key, or INSERT OR REPLACE under an old one.
Put(table, key, row) ==
  [k \in DOMAIN table \cup {key} |-> IF k = key THEN row ELSE table[k]]

\* DELETE ... WHERE the key is in keys.
Without(table, keys) == Restrict(table, DOMAIN table \ keys)

\* UPDATE ... WHERE key = ?: nothing happens when no row matches.
Update(table, key, row) ==
  IF key \in DOMAIN table THEN [table EXCEPT ![key] = row] ELSE table

NoRows == [k \in {} |-> k]
=============================================================================
