SPECIFICATION FairSpec
CONSTANTS
    MaxWorkers = 4
    MaxLength = 4
    NUM_OF_STEPS = 10
INVARIANTS
    NobodyCutOff
    RightOutput
PROPERTIES
    EveryoneEnds
CHECK_DEADLOCK FALSE
