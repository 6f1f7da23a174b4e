SPECIFICATION LiveSpec
CONSTANTS
  Requests = {r1, r2}
  Addresses = {home}
  Usernames = {ann}
  Passwords = {right, wrong}
  Keys = {k1}
  LoginRateLimit = 2
  LoginRateWindow = 2
  MaxSessions = 1
  MaxCeremonies = 2
  MaxCount = 1
CHECK_DEADLOCK TRUE
INVARIANT OvershootBounded
INVARIANT CeremonyHeldOnce
PROPERTY RevokedStaysRevoked
PROPERTY LoginNeverRevives
PROPERTY LockoutEnds
