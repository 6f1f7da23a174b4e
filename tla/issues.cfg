SPECIFICATION Spec
CONSTANTS
  Requests = {r1, r2}
  Users = {alice}
  Admins = {alice}
  Nobody = nobody
  Assignees = {nobody}
  ClientStatuses <- KnownOnly
  Ops <- AllOps
  MaxIssues = 2
  MaxComments = 1
  MaxAttachments = 1
CHECK_DEADLOCK FALSE
SYMMETRY RequestSymmetry
CONSTRAINT OneCrossing
INVARIANT TypeOK
INVARIANT RowsConsistent
INVARIANT DependenciesWereFiled
INVARIANT NoOrphans
PROPERTY DeletedStaysDeleted
PROPERTY NewIssuesStartBare
