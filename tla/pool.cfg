CONSTANTS
  enter = enter
  login = login
  other = other
  u1 = u1
  None = None
  NumIds = 2
  MaxRequests = 4
  Users <- OneUser
  Cmds <- AllCmds
  EarlyLock <- EnterLocks
  LateLock <- LoginLocks
SPECIFICATION FairSpec
INVARIANTS TypeOK IdsPartitioned LocksMatch StaleAnswersAreOld
PROPERTIES LockSafety LockLiveness
CHECK_DEADLOCK FALSE
