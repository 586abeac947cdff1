SPECIFICATION Spec
CONSTANTS
  i1 = i1
  i2 = i2
  big = big
  Item = {i1, i2, big}
  Large = {big}
  None = None
  MaxUnits = 8
  IOMayFail = TRUE
  MayLosePower = TRUE
SYMMETRY Symmetry
INVARIANTS
  TypeOK
  ReaderAccepts
  ClaimsAreWritten
PROPERTIES
  JournalSpec
