\* The instance runs out of rows and clock readings: it may stop.
CHECK_DEADLOCK FALSE
SPECIFICATION Spec
CONSTANTS
  Emails = {e1, e2}
  Rows = {v1, v2, v3}
  Codes = {c1, c2}
  Requests = {r1, r2}
  MaxPending = 1
  CodeTTL = 1
  MaxClock = 2
  Faults = TRUE
  None = None
SYMMETRY MCRegistrationSymmetry
INVARIANTS
  TypeOK
  PendingBounded
  SpentCodeHasAccount
PROPERTIES
  ImplementsAccountBook
  RegisteredStaysQuiet
