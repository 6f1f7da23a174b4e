SPECIFICATION DirectorySpec
CONSTANTS
  Requests = {r1}
  Users = {ann}
  Projects = {"p", "q"}
  Components = {"c"}
  NoName = "none"
  Names = {"dev_ops", "devxops", "new"}
  Likes <- LookAlikes
  Lists <- LookAlikeLists
  MaxIssues = 1
CONSTRAINT TwoNames
CHECK_DEADLOCK FALSE
INVARIANT ReservedRemain
INVARIANT RulesAgree
INVARIANT ComponentsHaveProject
PROPERTY RenameKeepsSight
