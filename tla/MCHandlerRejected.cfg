SPECIFICATION FairSpec
CONSTANTS
    Requests <- SomeRequests
    Responses <- SomeResponses
    ReqHead = 2
    RespHead = 1
    BufMax = 2
    Extra = 0
    EarlyReply = FALSE
    SlowPeers = FALSE
PROPERTIES
    RejectedUserIsAnswered
CHECK_DEADLOCK FALSE
