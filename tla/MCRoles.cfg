SPECIFICATION RolesSpec
CONSTANTS
  Subjects = {c1, u1}
  Clients = {c1}
  RoleNames = {n1, n2}
  Scopes <- MCScopes
  ScopeLists <- MCScopeLists
  ScopeParameters <- MCParameters
  Requests = {r1, r2}
  SeedClient = c1
  SeedRole = n1
  SeedScopes <- MCSeedScopes
  Driver = "postgres"
  Faults = TRUE
  None = None
SYMMETRY MCRolesSymmetry
INVARIANT RoleIsRecentUpserts
PROPERTY TokensWithinRoles

