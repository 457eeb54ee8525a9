\* A lost RESET_STREAM frame.
CONSTANTS
    MaxData = 3
    Window = 2
    SenderSlots = {a1}
    ReceiverSlots = {b1}
    Endings = {"shutdown", "reset", "stop"}
SPECIFICATION Spec
INVARIANT PendingControlIsListed
CHECK_DEADLOCK FALSE
