SPECIFICATION RegistrySpec
CONSTANTS
  LoopbackEnabled = TRUE
  LoopbackPaths <- MCLoopbackPaths
  CustomSchemes <- MCCustom
  HostedHTTPS <- MCHosted
  Texts <- MCTexts
  ChosenIds = {}
  FreshIds = {f1, f2}
  SeedClient = seed
  SeedScopes <- MCSeedScopes
  Asks <- MCRegistryAsks
  Uris <- MCUris
  Scopes <- MCScopes
  ScopeParameters <- MCParameters
  SupportedScopes <- MCSupported
  Mode = "guarded"
  IATRequired = FALSE
  Requests = {r1, r2}
  MaxRegistrations = 2
  Faults = TRUE
  None = None
SYMMETRY MCRegistrySymmetry
INVARIANTS
  RegistryTypeOK
  AnsweredIsStored
  RedirectsAreNormal
  CodeFitsOneRegistration
