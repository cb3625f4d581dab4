SPECIFICATION FirstVersionSpec
CONSTANTS
  p = p
  q = q
  r = r
  s = s
  t = t
  Blank = Blank
  Program <- Versions
  Wanted <- Setting
  WaitsForValues = FALSE
  MaxUnasked = 1
  MaxReprogram = 1
  MaxRestarts = 1
INVARIANTS TypeOK VariableByName ValuesReachTheirNames UpdatedSetsAreComplete
PROPERTIES CurrentContractKept EventuallyExchanged
