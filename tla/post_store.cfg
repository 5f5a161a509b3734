SPECIFICATION Spec
CONSTANTS
  Procs = {p1, p2}
  Users = {a, b}
  None = none
  MaxReqs = 2
  MaxTime = 2
  MaxCrashes = 1
INVARIANTS CountersExact StoresAgree
PROPERTIES TextsKept EditSawLatest
CHECK_DEADLOCK FALSE
