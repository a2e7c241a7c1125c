SPECIFICATION Spec
CONSTANTS
    Threads = {t1, t2}
    None = None
    SetLevels = {0, 1, 2, 3}
INVARIANT NoSelfDeadlock
