SPECIFICATION PeripherySpec
CONSTANTS
  Agers = {a1, a2}
  Policies <- SomePolicies
  TicksPerHour = 2
  HoursPerDay = 3
  LastTick = 15
  Terminals = {x, y}
  MaxServers = 4
  Ports = {1, 2}
  MaxLines = 4
  Batch = 2
  Projects <- SomeProjects
  Finds <- SomeFinds
  Spellings <- SomeSpellings
  Folded <- LowerCase
  Fetches = {k1, k2}
  Actions <- AllActions
  PageSize = 1
  MaxIssues = 2
  MaxWrites = 3
  MaxClock = 3
  MaxLoads = 2
CHECK_DEADLOCK FALSE
SYMMETRY PeripherySymmetry
CONSTRAINT InTime
INVARIANT AlwaysABackup
INVARIANT Managed
INVARIANT RestartFindsPort
INVARIANT EveryLineIsFiled
INVARIANT StoredPairsExist
INVARIANT WindowMatchesFilter
PROPERTY ThinningKeepsDensity
PROPERTY PollShows
