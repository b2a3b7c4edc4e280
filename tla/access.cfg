CONSTANTS
  a1 = a1
  a2 = a2
  u1 = u1
  u2 = u2
  u3 = u3
  t1 = t1
  t2 = t2
  t3 = t3
  c = c
  w = w
  None = None
  Servers <- BothServers
  WsServers <- Ws
  Tokens <- ThreeTokens
  ServerOf <- TwoAndOne
  Accounts <- TwoAccounts
  Users <- ThreeUsers
  AccountOf <- TwoOfOne
  MaxPending = 2
  MaxRequests = 5
SPECIFICATION FairSpec
INVARIANTS NothingDangles NobodyIsCutOff
PROPERTY GhostsAreNoticed
CHECK_DEADLOCK FALSE
