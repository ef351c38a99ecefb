SPECIFICATION FairSpec
CONSTANTS
    Readers = {r1, r2}
    Body = 1
    MaxLength = 3
    BufMax = 2
INVARIANTS
    SubscribersAlive
    NoTruncation
    FinalCopyFits
    SleeperMissedNothing
    EndMeansComplete
PROPERTIES
    DisconnectReleases
    ImplementsFeed
CHECK_DEADLOCK FALSE
