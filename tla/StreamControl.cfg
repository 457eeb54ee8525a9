\* Three bytes through a window of two, every way to end the stream.
CONSTANTS
    MaxData = 3
    Window = 2
    SenderSlots = {a1}
    ReceiverSlots = {b1}
    Endings = {"shutdown", "reset", "stop"}
SPECIFICATION Spec
INVARIANTS
    TypeOK
    NoFalseAccusation
    LimitsAgree
    PendingIsListed
CHECK_DEADLOCK FALSE
