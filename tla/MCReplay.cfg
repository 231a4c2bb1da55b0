SPECIFICATION Spec
CONSTANTS
  Users = {u1}
  Clients = {"c1"}
  Resources = {res1}
  Scopes <- MCScopes
  RegisteredScopes <- MCOneScopes
  Reregistrations = {}
  ScopeParameters <- MCOfflineParameters
  Bindings = {b1}
  Codes = {x1}
  Tokens = {t1, t2, t3}
  GrantIds = {g1}
  Requests = {r1, r2}
  CodeTTL = 1
  RefreshTTL = 2
  MaxClock = 2
  Driver = "postgres"
  Faults = FALSE
  Operators = FALSE
  None = None
SYMMETRY MCSymmetry
INVARIANT RevocationReachesSuccessor
