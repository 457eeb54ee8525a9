\* Every component of the platform in the environments it is made for.
SPECIFICATION Spec
CONSTANTS
    Parts = {"loop", "wheel", "memory", "cache", "threads", "redis", "keys", "process", "status", "accept", "tickets", "configuration", "listeners"}
    Beyond = FALSE
INVARIANTS
    
    NoLostWakeup
    TimersFire
    
    CountsAreExact
    KeysAreShared
    
    ConfigurationFollowsTheTree
CHECK_DEADLOCK FALSE
