SPECIFICATION Spec
CONSTANTS
    LocalSize = 3
    MaxPathId = 6
    Limit = 3
    RetireCapacity = 6
    NumPaths = 2
    MaxPackets = 2
    RotateAt = 6
    RotateBelow = 0
    PartialNew = FALSE
    PartialRetire = TRUE
CHECK_DEADLOCK FALSE
INVARIANTS
    RetirementNotForgotten
