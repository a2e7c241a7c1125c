SPECIFICATION Spec
CONSTANTS
    Threads = {t1, t2}
    None = None
    NumMutexes = 2
INVARIANT OwnershipTracked
