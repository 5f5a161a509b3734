SPECIFICATION Spec
CONSTANTS
  p1 = p1  p2 = p2  p3 = p3  p4 = p4
  Procs = {p1, p2, p3}
  NoPid = nopid
  UserOf <- OneUser
  Home <- SameHome
  MAX_USERS = 1
  USHM_SIZE = 3
  APPLY_MAX = 6
  MayCrash = {}
INVARIANTS Listed
CHECK_DEADLOCK FALSE
