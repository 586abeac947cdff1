SPECIFICATION Spec
CONSTANTS
  e1 = e1
  e2 = e2
  t1 = t1
  t2 = t2
  u1 = u1
  u2 = u2
  Exec = {e1}
  Task = {t1}
  Url = {u1}
  Pid = {p1}
  Assignment <- AllAssignments
  None = None
  MaxBeats = 1
  PipeCap = 3
  ClockMayFail = FALSE
  Unkillable = FALSE
INVARIANT
  ConformantNeverRejected
