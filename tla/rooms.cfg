CONSTANTS
  u1 = u1
  u2 = u2
  g1 = g1
  None = None
  Gone = Gone
  Users <- TwoUsers
  Tids <- ThreeIds
  Unknown <- TheMiddle
  Games <- OneGame
  Kinds <- OwnAndOthers
  RedisFails <- SetsAndDels
  ReusesAtOnce = FALSE
  MaxRequests = 2
  MaxFaults = 2
SPECIFICATION Spec
INVARIANTS TypeOK IdsPartitioned BoundIsTaken OwnerKnowsTable
SYMMETRY Symmetric
CHECK_DEADLOCK FALSE
