SPECIFICATION Spec
CONSTANTS
  zero = zero
  a = a
  b = b
  c = c
  None = None
  N = 2
  Value = {zero, a, b, c}
  Default = zero
  Legal <- SharedLegal
  NeverEqual = {}
  MaxLocal = 2
  MaxEdits = 1
  MaxModuleRestarts = 0
  MaxMasterRestarts = 0
  MaxRestarts <- Restarts
INVARIANT NoChangeLost
