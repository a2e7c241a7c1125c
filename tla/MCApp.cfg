SPECIFICATION MCSpec
CONSTANTS
    Workers = {w1, w2, w3}
    MaxTasks = 5
    MaxReadings = 4
    Size = 2
INVARIANTS
    PermitHome
    UsesLive
    TasksAccounted
    NoLostWakeup
PROPERTIES
    ReadingsHandled
    LoopStops
    ShutdownReachesAll
CHECK_DEADLOCK FALSE
