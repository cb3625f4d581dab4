SPECIFICATION MCSpec
CONSTANTS
  a = a
  b = b
  zero = zero
  None = None
  Value = {a, b}
  Default = zero
  MaxLocal = 1
  MaxEdits = 1
  MaxPublished = 1
  MaxReconnects = 1
  MaxInbox = 2
  Timely = TRUE
INVARIANTS TypeOK BrokerTold
PROPERTIES EchoHarmless EventuallyAgree
