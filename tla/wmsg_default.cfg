SPECIFICATION FairSpec
CONSTANTS
  Senders = {s1, s2, s3}
  TwinSenders = {s3}
  Caller = caller
  None = none
  Pager = pager
  MAX_MSGS = 2
  NSend = 1
  MaxTalks = 1
  Ofo = FALSE
  Modes = {"busy", "menu"}
  Faults = {}
  MayLogout = FALSE
INVARIANTS NoOverrun RestsClean
PROPERTIES AckedIsShownWhenAlone
CHECK_DEADLOCK FALSE
