CONSTANTS
  u1 = u1
  u2 = u2
  u3 = u3
  None = None
  Users <- ThreeUsers
  Scores <- TheScores
  Purses <- ThePurses
  MaxRounds = 1
  MaxLeaves = 0
SPECIFICATION Spec
PROPERTY BalanceAsTold
CHECK_DEADLOCK FALSE
