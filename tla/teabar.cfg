CONSTANTS
  u1 = u1
  u2 = u2
  None = None
  Users <- TwoUsers
  MaxTbid = 1
  MaxUserBars = 2
  MaxUsers = 2
  MaxApply = 1
  StartChips = 1
  Concurrent = 2
  MaxRequests = 6
  MaxFaults = 1
SPECIFICATION Spec
INVARIANTS TypeOK MembersAgree MasterHoldsTheChips ChipsConserved SurvivesRestart
SYMMETRY Symmetric
CHECK_DEADLOCK FALSE
