SPECIFICATION FairSpec
CONSTANTS
  Senders = {s1, s2, s3}
  TwinSenders = {s3}
  Caller = caller
  None = none
  Pager = pager
  MAX_MSGS = 2
  NSend = 1
  MaxTalks = 0
  Ofo = TRUE
  Modes = {"busy"}
  Faults = {"down", "late"}
  MayLogout = TRUE
INVARIANTS NoUnderrun
PROPERTIES AckedIsShownWhenAlone
CHECK_DEADLOCK FALSE
