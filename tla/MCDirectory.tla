----------------------------- MODULE MCDirectory -----------------------------
(***************************************************************************)
(* Instances of Directory for TLC.  A behaviour either begins as the       *)
(* server does and may do everything, or begins with lists that requests   *)
(* can have stored and only renames teams.                                 *)
(***************************************************************************)
EXTENDS Directory, TLC

VARIABLE part

\* Of two teams one has a wildcard for the character the other has there.
LookAlikes == [t \in AllNames |->
  IF t = "dev_ops" THEN {<<"dev_ops">>, <<"devxops">>} ELSE {<<t>>}]
LookAlikeLists == {<<"dev_ops">>, <<"devxops">>}

\* What a rename meets: a user, a project and an issue with any lists of up to
\* three names, so that the old one is first, last, in the middle, the only one,
\* or there two or three times in a row.
RenamedLists == BoundedSeq(Names \ {"new"}, 3) \ {<<>>}
RenameInit ==
  /\ teams \in {Reserved, Reserved \cup (Names \ {"new"})}
  /\ users \in [Users -> RenamedLists]
  /\ projects \in [{"p"} -> RenamedLists] /\ components = {}
  /\ issues \in [1..MaxIssues -> [project: {NoName}, component: {NoName}, teams: RenamedLists]]
  /\ nextIssue = MaxIssues + 1
  /\ serving = NoRows

DirectoryInit == (part = "all" /\ Init) \/ (part = "rename" /\ RenameInit)
DirectoryNext ==
  /\ UNCHANGED part
  /\ \/ part = "all" /\ Next
     \/ part = "rename" /\ \E old, new \in AllNames : RenameTeam(old, new)
DirectorySpec == DirectoryInit /\ [][DirectoryNext]_<<part, vars>>

\* The third name is there for the renames.
TwoNames == part = "all" => "new" \notin teams /\ ~UsedIn("new", AllLists)
=============================================================================
