SPECIFICATION Spec
CONSTANTS
  p = p
  q = q
  r = r
  s = s
  t = t
  Blank = Blank
  Program <- Renamed
  Wanted <- Setting
  WaitsForValues = FALSE
  MaxUnasked = 1
  MaxReprogram = 1
  MaxRestarts = 1
INVARIANT ValuesReachTheirNames
