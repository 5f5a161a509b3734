SPECIFICATION Spec
CONSTANTS
  Procs = {p1, p2}
  NumNames = 3
  MaxBoard = 3
  Tries = 2
  MaxOps = 2
  MaxTime = 2
  MaxDeaths = 1
INVARIANTS CacheExact LocksOwned
PROPERTIES Settles
CHECK_DEADLOCK FALSE
