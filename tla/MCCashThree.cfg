SPECIFICATION Spec
CONSTANTS
    t1 = t1
    t2 = t2
    t3 = t3
    k1 = k1
    k2 = k2
    Threads = {t1, t2, t3}
    Keys = {k1, k2}
    NoKey = NoKey
    Lengths = {1, 2}
    HeadingSize = 1
    MaxCashSize = 6
    MaxElement = 4
    Bases = {0}
    Overrun = 0
    MaxElements = 3
INVARIANTS
    DuplicatesRaced
    UsersKeepElement
SYMMETRY Symmetry
CHECK_DEADLOCK FALSE
