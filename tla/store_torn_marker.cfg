SPECIFICATION Spec
CONSTANTS
  a = a
  b = b
  f = f
  g = g
  x = x
  y = y
  s1 = s1
  s2 = s2
  Request <- OneArtifact
  Store = {s1}
  None = None
  Torn = Torn
  IOMayFail = FALSE
  SyncMayFail = FALSE
  MayCrash = TRUE
  MayLosePower = FALSE
INVARIANT
  Reopens
