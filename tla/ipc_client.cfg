SPECIFICATION FairSpec
CONSTANTS
  BackoffInit = 1
  BackoffMax = 5
  Spread = 0
  MaxCalls = 3
  MaxFaults = 3
  MaxData = 2
INVARIANTS AnswerIsOwn NothingLost ServiceAgrees
PROPERTIES BacksOff Recovers
CHECK_DEADLOCK FALSE
