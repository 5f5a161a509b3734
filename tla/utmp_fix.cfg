SPECIFICATION SvcSpec
CONSTANTS
  p1 = p1  p2 = p2  p3 = p3
  Procs = {p1, p2, p3}
  NoPid = nopid
  UserOf <- TwoUsers
  Home <- SameHome
  MAX_USERS = 2
  USHM_SIZE = 3
  APPLY_MAX = 6
  MayCrash = {p1}
  Requests = {"fix", "kick", "rebuild", "update"}
  MaxRequests = 1
  MayReap = TRUE
  Apart = TRUE
PROPERTIES ServiceRepairs
CHECK_DEADLOCK FALSE
