SPECIFICATION Spec
CONSTANTS
    HandSize = 1
    BottomSize = 1
    BatchSize = 1
    MaxRound = 1
    RobotKinds <- PlayersAndRobots
    Dealers <- FirstSeat
    Trustees <- Nobody
    GmDissolves = 0
    LogoutStates <- Nobody
INVARIANT RobotActsOnItsBuffer
