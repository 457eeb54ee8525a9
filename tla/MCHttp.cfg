\* Every component of the HTTP side in the environments it is made for.
SPECIFICATION Spec
CONSTANTS
    Parts = {"http1", "http2", "scheduler", "http3", "control", "quic", "hpack", "qpack", "request", "file", "fastcgi", "connect", "mruby", "proxy", "pool", "client2", "client3"}
    Beyond = FALSE
INVARIANTS
    
    ConnectionsAreDriven
    
    
    
    MessagesAreIntact
    
    NothingDangles
    
    OnlyWhatIsAllowed
CHECK_DEADLOCK FALSE
