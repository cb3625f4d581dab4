SPECIFICATION TSFairSpec
CONSTANTS
  M = 2
  Local = {1}
  Second = 3
  Half = 2
  Every = 3
  Ask = 0
  First = 9
  Slack = 2
  MaxTime = 6
  MaxRestarts = 1
INVARIANTS TSTypeOK ModuleWithinASecond
PROPERTY EventuallyTimed
