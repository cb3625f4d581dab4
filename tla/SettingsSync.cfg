SPECIFICATION FairSpec
CONSTANTS
  zero = zero
  a = a
  b = b
  c = c
  None = None
  N = 2
  Value = {zero, a, b, c}
  Default = zero
  Legal <- OverlappingLegal
  NeverEqual = {c}
  MaxLocal = 1
  MaxEdits = 1
  MaxModuleRestarts = 1
  MaxMasterRestarts = 1
  MaxRestarts <- Restarts
INVARIANTS TypeOK OnlyGivenValues FirstChangeHeld
PROPERTIES FirstImplementsStore EventuallyInSync
