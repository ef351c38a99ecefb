SPECIFICATION FairSpec
CONSTANTS
    c1 = c1
    c2 = c2
    get = get
    full = full
    cut = cut
    Clients = {c1, c2}
    MaxTid = 2
    Requests = {get}
    Malformed = Malformed
    Responses = {full, cut, Empty}
    Empty = Empty
    None = None
INVARIANTS
    ContextOutlivesThread
    Registered
    HitsAgree
PROPERTIES
    EndedIsCollected
    QuitEnds
CHECK_DEADLOCK FALSE
