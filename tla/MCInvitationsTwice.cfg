\* Invitations and clock readings run out: the instance may stop.
CHECK_DEADLOCK FALSE
SPECIFICATION InvitationsSpec
CONSTANTS
  Subjects = {u1, u2}
  Clients = {}
  RoleNames = {n1}
  Scopes <- MCScopes
  ScopeLists <- MCScopeLists
  ScopeParameters <- MCParameters
  Requests = {}
  SeedClient = None
  SeedRole = None
  SeedScopes = {}
  Driver = "postgres"
  Faults = FALSE
  None = None
  InviteCodes = {i1}
  Acceptances = {q1, q2}
  InviteTTL = 0
  MaxClock = 1
  Operators = TRUE
PROPERTY UsedInvitationBindsNobody
