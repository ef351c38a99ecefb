SPECIFICATION PrintersFairSpec
CONSTANTS
    N = 10
INVARIANTS
    NoMutexError
    OnePermit
PROPERTIES
    Alternates
    AllPrinted
CHECK_DEADLOCK FALSE
