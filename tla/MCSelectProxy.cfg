SPECIFICATION FairSpec
CONSTANTS
    Users = {u1, u2}
    Slots = 2
    CacheSize = 1
    BufferSize = 1
    Pages <- MCPages
    Chunks <- MCChunks
    MaxChunks = 3
    MaxAnswer = 2
    MaxFd = 3
PROPERTIES
    PageDelivered
INVARIANTS
    SlotForNewClient
    OwnSocket
    OwnPages
