SPECIFICATION FairSpec
CONSTANTS
  Addrs = {a1, a2}
  Null = null
  MaxConns = 3
  MaxTunnels = 2
  MaxTotal = 4
  Ips = {"ip1", "ip2"}
  Userids <- MCUserids
  Account <- MCAccount
  LastHost <- MCLastHost
  Home <- MCHome
  LOGINATTEMPTS = 2
  LOGIND_ACKQUEUE_BOUND = 0
  ACTIVITY_TARPIT_SLOTS = 2
  ACTIVITY_TARPIT_PER_IP = 1
  ACTIVITY_TARPIT_MAX = 2
INVARIANTS BooksAgree LoginIsEarned
PROPERTIES LateAnswersHarmless Ends
CHECK_DEADLOCK FALSE
