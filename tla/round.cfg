SPECIFICATION FairSpec
CONSTANTS
    HandSize = 2
    BottomSize = 1
    BatchSize = 2
    MaxRound = 2
    RobotKinds <- Players
    Dealers <- FirstSeat
    Trustees <- AnySeat
    GmDissolves = 0
    LogoutStates <- Nobody
INVARIANTS RoundMoves TrickEndsAfterTwoPasses
PROPERTIES PlayEnds PlaysTheGame
CHECK_DEADLOCK FALSE
