\* Headers at the global level and in two paths of a host.
SPECIFICATION Spec
CONSTANTS
    Parts = {"configuration"}
    Beyond = TRUE
INVARIANT HeadersFollowTheTree
CHECK_DEADLOCK FALSE
