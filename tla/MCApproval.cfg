SPECIFICATION Spec
CONSTANTS
  Users = {u1}
  Clients = {"c1", "c2"}
  Resources = {res1}
  Scopes <- MCScopes
  RegisteredScopes <- MCTwoScopes
  Reregistrations <- MCReregistrations
  ScopeParameters <- MCParameters
  Bindings = {b1}
  Codes = {x1}
  Tokens = {t1, t2, t3}
  GrantIds = {g1, g2}
  Requests = {r1, r2}
  CodeTTL = 0
  RefreshTTL = 0
  MaxClock = 0
  Driver = "sqlite"
  Faults = TRUE
  Operators = TRUE
  None = None
SYMMETRY MCSymmetry
INVARIANTS
  CredentialsHaveTheirGrant
  ScopesStayRegistered
  RevocationTakesLineage
PROPERTIES
  BlockedStaysQuiet
  WithdrawnScopeStaysOut
