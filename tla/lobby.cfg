CONSTANTS
  p1 = p1
  p2 = p2
  p3 = p3
  r1 = r1
  None = None
  Players <- TwoPlayers
  Robots <- OneRobot
  GmTables <- AllTables
  SeatNum = 2
  NumTables = 2
  MaxRequests = 6
  MaxTimeouts = 1
SPECIFICATION Spec
SYMMETRY PlayerSymmetry
INVARIANTS TypeOK OncePerTable MapNamesASeat TwoTablesNeedAReset OnlyReservationsHide
CHECK_DEADLOCK FALSE
