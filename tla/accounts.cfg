SPECIFICATION Spec
CONSTANTS
  Requests = {r1, r2, r3}
  Usernames = {ann, bob, cid}
  Ops <- AllOps
  CliRuns = TRUE
  MaxTokens = 3
CHECK_DEADLOCK TRUE
SYMMETRY AccountsSymmetry
CONSTRAINT ThreeInPeace
INVARIANT TypeOK
INVARIANT AdminRemains
INVARIANT StaleNoIsDropped
PROPERTY UpdateNeverRevives
PROPERTY LockoutIsFinal
