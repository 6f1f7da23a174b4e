SPECIFICATION Spec
CONSTANTS
  Requests = {r1, r2}
  Users = {bob}
  Admins = {}
  Nobody = nobody
  Assignees = {nobody}
  ClientStatuses <- NoDuplicates
  Ops <- UpdateOps
  MaxIssues = 3
  MaxComments = 0
  MaxAttachments = 0
CHECK_DEADLOCK FALSE
SYMMETRY RequestSymmetry
PROPERTY ReopenedWhenResolved
