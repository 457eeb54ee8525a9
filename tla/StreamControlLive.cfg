\* Three bytes through a window of one, two limits in flight at the same time.
CONSTANTS
    MaxData = 3
    Window = 1
    SenderSlots = {a1}
    ReceiverSlots = {b1, b2}
    Endings = {}
SPECIFICATION FairSpec
INVARIANT MaxInflightCounted
PROPERTY FlowControlProgress
CHECK_DEADLOCK FALSE
