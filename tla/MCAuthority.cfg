SPECIFICATION FairAuthority
CONSTANTS
  Users = {u1, u2}
  SessionIds = {s1, s2}
  Requests = {r1, r2}
  SessionTTL = 1
  AccessTTL = 1
  CodeTTL = 0
  RefreshTTL = 0
  MaxClock = 1
  Faults = TRUE
  None = None
INVARIANT AuthorityTypeOK
PROPERTIES
  DeadSessionQuiet
  AuthorityNeedsLogin
  DisabledGainsNothing
  LogoutTakesEffect
