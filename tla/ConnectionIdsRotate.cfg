SPECIFICATION Spec
CONSTANTS
    LocalSize = 3
    MaxPathId = 6
    Limit = 3
    RetireCapacity = 6
    NumPaths = 3
    MaxPackets = 2
    RotateAt = 3
    RotateBelow = 2
    PartialNew = FALSE
    PartialRetire = FALSE
CHECK_DEADLOCK FALSE
INVARIANTS
    DefaultPathFindsCid
