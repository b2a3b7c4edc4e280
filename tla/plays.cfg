SPECIFICATION FairSpec
CONSTANTS
    RobotHands <- DealtHands
    TrusteeHands <- LeftHands
    Plays <- SeenPlays
INVARIANTS SplitsHand RefusalsKnown
PROPERTY AnalysisEnds
CHECK_DEADLOCK FALSE
