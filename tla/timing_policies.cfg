SPECIFICATION LiveSpec
CONSTANTS
  Seconds = {1, 2, 3, 6}
  Slack = 1
  BootTime = 3
  PollEvery = 3
  AgeCap = 13
  None = None
INVARIANTS
  TypeOK
  NoFalseExpiry
  AliveIsRecent
  SilenceIsSeenInTime
PROPERTIES
  FreezeIsSeen
