SPECIFICATION SpuriousSpec
CONSTANTS
    Threads = {t1, t2, t3}
    Total = 3
    MaxRounds = 4
CHECK_DEADLOCK FALSE
INVARIANT NoEarlyRelease
