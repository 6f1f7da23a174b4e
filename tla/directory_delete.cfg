SPECIFICATION DirectorySpec
CONSTANTS
  Requests = {r1, r2}
  Users = {ann}
  Projects = {"p"}
  Components = {}
  NoName = "none"
  Names = {"dev_ops", "devxops"}
  Likes <- LookAlikes
  Lists <- LookAlikeLists
  MaxIssues = 0
CONSTRAINT TwoNames
CHECK_DEADLOCK FALSE
PROPERTY DeletedTeamIsUnused
