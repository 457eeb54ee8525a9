\* Safety and refinement: four bytes, two packets, and state limits small
\* enough that both ends run into them.
CONSTANTS
    MaxData = 4
    Slots = {p1, p2}
    MaxSendRanges = 4
    RangeCost = 1
    MaxRecvRanges = 2
SPECIFICATION Spec
INVARIANTS
    TypeOK
    NothingForgotten
    AckedNotPending
    EmitHasData
    IntactDelivery
PROPERTY ImplementsReliableStream
CHECK_DEADLOCK FALSE
