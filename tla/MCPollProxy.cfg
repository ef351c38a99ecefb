SPECIFICATION Spec
CONSTANTS
    NumUsers = 2
    Scripts <- SomeScripts
    ReqHead = 1
    RespHead = 1
    BufMax = 2
    MaxPushy = 1
    MaxDials = 2
    MaxCashSize = 6
    LengthMod = 16
INVARIANTS
    BufferLifetime
    UsersCounted
    CacheConsistent
PROPERTIES
    Delivered
CHECK_DEADLOCK FALSE
