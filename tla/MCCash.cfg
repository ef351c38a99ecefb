SPECIFICATION FairSpec
CONSTANTS
    t1 = t1
    t2 = t2
    t3 = t3
    k1 = k1
    k2 = k2
    Threads = {t1, t2}
    Keys = {k1, k2}
    NoKey = NoKey
    Lengths = {1, 4}
    HeadingSize = 1
    MaxCashSize = 7
    MaxElement = 4
    Bases <- SomeBases
    Overrun = 0
    MaxElements = 5
INVARIANTS
    WithinBudget
    NullOnlyAfterEviction
    Exhausted
PROPERTIES
    WalkEnds
CHECK_DEADLOCK FALSE
