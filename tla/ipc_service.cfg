SPECIFICATION FairSpec
CONSTANTS
  c1 = c1  c2 = c2
  Clients = {c1, c2}
  NoClient = noclient
  NoUser = nouser
  Users = {u1}
  Pids = {1}
  Topics = {t1}
  Ops <- Roles
  Leaving = {c1}
  QueueSize = 1
  WriteBatch = 2
  NReq <- Bounds
INVARIANTS IndexesAgree NoGhost Delivery
PROPERTIES NeverStuck StopsCleanly
CHECK_DEADLOCK FALSE
