SPECIFICATION FairStartup
CONSTANTS
  Instances = {i1, i2}
  Tables <- MCTables
  ClientColumns = {redirect_uris, trust_level}
  SessionColumns = {csrf_token_hash}
  AccountIds = {a1, a2}
  MaxCrashes = 2
  None = None
INVARIANTS
  StartupTypeOK
  ServingIsReady
  AdminUnlessOpened
PROPERTIES
  AdminNeverRewritten
  RestartsConverge
