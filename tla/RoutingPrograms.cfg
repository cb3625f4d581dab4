SPECIFICATION Spec
CONSTANTS
  a = a
  b = b
  c = c
  Blank = Blank
  M = 2
  Program <- Revised
  Events = TRUE
  MaxReprogram = 1
  MaxAway = 1
  MaxLate = 1
INVARIANTS TypeOK SourcesAreCurrent InputsFromTheirSources
