SPECIFICATION Spec
CONSTANTS
  Requests = {r1, r2}
  Usernames = {ann, bob}
  Ops <- AllOps
  CliRuns = FALSE
  MaxTokens = 1
CHECK_DEADLOCK TRUE
SYMMETRY AccountsSymmetry
PROPERTY OnboardingIsFirst
