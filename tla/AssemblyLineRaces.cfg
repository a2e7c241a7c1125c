SPECIFICATION LineSpec
CONSTANTS
    N = 2
    Threads = {0, 1}
    Total = 2
    MaxRounds = 1
    MaxSamples = 1
INVARIANT NoLostUpdate
PROPERTY ResultProcessed
CHECK_DEADLOCK FALSE
