SPECIFICATION FairSpec
CONSTANTS
  a = a
  b = b
  c = c
  Blank = Blank
  M = 2
  Program <- Swapped
  Events = FALSE
  MaxReprogram = 0
  MaxAway = 1
  MaxLate = 0
PROPERTY EventuallyDelivered
