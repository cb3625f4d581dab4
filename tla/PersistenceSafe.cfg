SPECIFICATION Spec
CONSTANTS
  Contract = {c1, c2}
  Size <- TwoAndOne
  Value = {x, y}
  Zero = zero
  Erased = erased
  Torn = torn
  Magic = magic
  MaxGiven = 3
  MaxSaves = 3
INVARIANTS TypeOK CompleteSaveIsReadBack NothingOlderIsRead FilledInBeforeStoring
