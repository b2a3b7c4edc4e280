SPECIFICATION Spec
CONSTANTS
    HandSize = 1
    BottomSize = 1
    BatchSize = 2
    MaxRound = 1
    RobotKinds <- Players
    Dealers <- FirstSeat
    Trustees <- FirstSeat
    GmDissolves = 1
    LogoutStates <- OnceStarted
INVARIANTS TypeOK SingleTurn PlayHasOpenFlow OneBaton
PROPERTY PlaysTheGame
