SPECIFICATION FairSpec
CONSTANTS
  Half = 4
  Inactive = 2
  Threshold = 2
  MaxFailures = 2
  Idle = 1
  Forget = 7
  MaxBlocked = 1
  MaxLost = 1
INVARIANTS TypeOK ActiveMeansHeard HeardMeansActive
PROPERTY EventuallyFound
