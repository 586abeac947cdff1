SPECIFICATION Spec
CONSTANTS
  f1 = f1
  f2 = f2
  e1 = e1
  e2 = e2
  Fact = {f1, f2}
  Emitter = {e1, e2}
  None = None
  MaxEvents = 2
  IOMayFail = TRUE
  MayLosePower = TRUE
SYMMETRY Symmetry
INVARIANTS
  TypeOK
  TraceCoversSnapshot
  ReceiptIsComplete
  OutputIsFinal
  NeverCorrupt
