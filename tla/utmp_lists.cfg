SPECIFICATION FairSpec
CONSTANTS
  p1 = p1  p2 = p2  p3 = p3  p4 = p4
  Procs = {p1, p2, p3}
  NoPid = nopid
  UserOf <- TwoUsers
  Home <- SameHome
  MAX_USERS = 2
  USHM_SIZE = 3
  APPLY_MAX = 6
  MayCrash = {p3}
INVARIANTS InBounds Listed
PROPERTIES Settles KeepsTable
CHECK_DEADLOCK FALSE
