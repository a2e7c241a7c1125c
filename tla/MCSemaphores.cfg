SPECIFICATION MCSpec
CONSTANTS
    Threads = {t1, t2, t3, t4}
    Value = 2
    Processes = {p1, p2, p3}
    Samples = {1, 2}
    MaxIds = 2
INVARIANTS
    PermitsConserved
    NoLostWakeup
    EventsWake
    ReadsWhole
    SemaphoreHome
PROPERTY WaitsAnswered
