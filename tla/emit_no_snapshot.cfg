SPECIFICATION Spec
CONSTANTS
  f1 = f1
  f2 = f2
  e1 = e1
  e2 = e2
  Fact = {f1}
  Emitter = {e1}
  None = None
  MaxEvents = 1
  IOMayFail = FALSE
  MayLosePower = FALSE
INVARIANT
  DeathNeverPreventsOutput
