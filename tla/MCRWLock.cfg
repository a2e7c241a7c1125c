SPECIFICATION MCSpec
CONSTANTS
    Threads = {t1, t2, t3, t4}
    MaxWaitingReaders = 2
    MaxWaitingWriters = 2
    Settings = {x, y}
    Invalid = Invalid
    IgnoredFailures = FALSE
INVARIANTS
    CountersAgree
    Exclusion
    WritersNotStranded
    ConfigWhole
PROPERTY LocksAnswered
