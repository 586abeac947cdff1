SPECIFICATION LiveSpec
CONSTANTS
  e1 = e1
  e2 = e2
  t1 = t1
  t2 = t2
  u1 = u1
  u2 = u2
  Exec = {e1, e2}
  Task = {t1, t2}
  Url = {u1, u2}
  Pid = {p1, p2}
  Assignment <- Disjoint
  None = None
  MaxBeats = 2
  PipeCap = 3
  ClockMayFail = FALSE
  Unkillable = TRUE
INVARIANTS
  RecordOfSlot
  ExitedVerdictSound
  NoRejectionWhileAlive
PROPERTIES
  FinalHeartbeatKept
  CallsReturn
