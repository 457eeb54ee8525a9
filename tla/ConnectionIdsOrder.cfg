SPECIFICATION Spec
CONSTANTS
    LocalSize = 3
    MaxPathId = 5
    Limit = 3
    RetireCapacity = 6
    NumPaths = 2
    MaxPackets = 1
    RotateAt = 3
    RotateBelow = 1
    PartialNew = TRUE
    PartialRetire = FALSE
CHECK_DEADLOCK FALSE
INVARIANTS
    NewCidsAreFifo
    DefaultPathFindsCid
