\* Liveness: two bytes, two packets, state limits of the code (never reached).
CONSTANTS
    MaxData = 2
    Slots = {p1, p2}
    MaxSendRanges = 256
    RangeCost = 128
    MaxRecvRanges = 256
SPECIFICATION FairSpec
PROPERTY EventuallyComplete
CHECK_DEADLOCK FALSE
