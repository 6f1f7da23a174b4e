SPECIFICATION LiveSpec
CONSTANTS
  Clients = {c1, c2}
  Tabs = {t1}
  Notifiers = {n1}
  PushOn = TRUE
  CliRuns = TRUE
  MaxWrites = 3
CHECK_DEADLOCK TRUE
INVARIANT TypeOK
INVARIANT CopyExcludesRequests
PROPERTY ActsAsSnapshot
PROPERTY TickLeadsToCopy
PROPERTY BlockedIsServed
