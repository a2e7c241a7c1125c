SPECIFICATION LineSpec
CONSTANTS
    N = 3
    Threads = {0, 1, 2}
    Total = 3
    MaxRounds = 2
    MaxSamples = 1
INVARIANTS
    InStep
    NoEarlyRelease
    NeighboursExclusive
    NoCircularWait
PROPERTY EveryStageEats
CHECK_DEADLOCK FALSE
