SPECIFICATION FairSpec
CONSTANTS
    Threads = {t1, t2, t3}
    MaxWaitingReaders = 2
    MaxWaitingWriters = 2
INVARIANT ReadersNotStranded
