SPECIFICATION Spec
CONSTANTS
  a = a
  b = b
  f = f
  g = g
  x = x
  y = y
  s1 = s1
  s2 = s2
  Request <- Conflicting
  Store = {s1, s2}
  None = None
  Torn = Torn
  IOMayFail = TRUE
  SyncMayFail = TRUE
  MayCrash = TRUE
  MayLosePower = TRUE
SYMMETRY Symmetry
INVARIANTS
  TypeOK
  AckedSurvives
  RecordsDistinct
  PutStartsClean
  KnownIsCommitted
PROPERTIES
  StoreSpec
