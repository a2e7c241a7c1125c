SPECIFICATION CleanupSpec
CONSTANTS
    QueueSize = 2
    SendRetries = 3
PROPERTY CleanupReturns
CHECK_DEADLOCK FALSE
