SPECIFICATION FairSpec
CONSTANTS
  m1 = m1
  m2 = m2
  m3 = m3
  Modules = {m1, m2}
  Lists = {{m1}, {m1, m2}}
  MaxLists = 1
  MaxOff = 1
  MaxSilent = 1
  MaxPrograms = 1
  MaxReconnects = 1
INVARIANTS TypeOK ContractsInTime
PROPERTIES EventuallyListed EventuallyConfigured
CHECK_DEADLOCK FALSE
