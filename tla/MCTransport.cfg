SPECIFICATION TransportSpec
CONSTANTS
    LocalSize = 2
    MaxPathId = 4
    Limit = 2
    RetireCapacity = 2
    NumPaths = 2
    MaxPackets = 2
    RotateAt = 2
    RotateBelow = 1
    PartialNew = TRUE
    PartialRetire = TRUE
    MaxNum = 10
CHECK_DEADLOCK FALSE
INVARIANTS
    TypeOK
    NoFalseAccusation
    PathCidsAreLive
    NoCidLeak
    RetirementNotForgotten
    NewCidNotForgotten
    RangesStandForSets
