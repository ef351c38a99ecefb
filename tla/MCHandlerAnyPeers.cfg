SPECIFICATION Spec
CONSTANTS
    Requests <- SomeRequests
    Responses <- SomeResponses
    ReqHead = 2
    RespHead = 1
    BufMax = 4
    Extra = 2
    EarlyReply = TRUE
    SlowPeers = TRUE
INVARIANTS
    ObjectsSound
    ElementFollowsServer
CHECK_DEADLOCK FALSE
