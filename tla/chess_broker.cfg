SPECIFICATION BrokerFairSpec
CONSTANTS
  Callers = {a1, a2}
  Callees = {b1, b2}
  Keys = {k1}
  MayLeave = {a1}
  MaySend = {a1}
  Reading = {a1, a2, b1}
  None = none
INVARIANTS TablesAgree
PROPERTIES NobodyLeftWaiting PlaysByTheRules
CHECK_DEADLOCK FALSE
