SPECIFICATION FairSpec
CONSTANTS
  K = 2
  Interval <- Intervals
  Parts = 2
  MaxAge = 4
  MaxRestarts = 2
INVARIANTS TypeOK SampledInTime
PROPERTIES SamplesApart RowsOfThisTransfer EventuallySampled
