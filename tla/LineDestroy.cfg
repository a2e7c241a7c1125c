SPECIFICATION DestroySpec
CONSTANTS
    N = 3
    Threads = {0, 1, 2}
    Total = 3
    MaxRounds = 2
    MaxSamples = 0
PROPERTY DestroyReturns
CHECK_DEADLOCK FALSE
