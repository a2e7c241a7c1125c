SPECIFICATION MCSpec
CONSTANTS
    Ratios = {1, 8}
    Durations = {100}
    Tries = 2
    Addrs = {a1, a2}
    Values = {x, y}
    FailedWritesLand = FALSE
    Capacity = 2
    MaxReadings = 3
    MaxRetries = 1
    QueueSize = 2
    SendRetries = 3
INVARIANTS
    ConfigOnChip
    InOrder
    QuietAfterRemove
    SentOnce
PROPERTIES
    JobsReturn
    RegisterFileSpec
    QueuedTried
