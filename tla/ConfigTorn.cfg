SPECIFICATION ConfigSpec
CONSTANTS
    Threads = {t1, t2}
    MaxWaitingReaders = 2
    MaxWaitingWriters = 2
    Settings = {x, y}
    Invalid = Invalid
    IgnoredFailures = TRUE
INVARIANT GetsWhole
