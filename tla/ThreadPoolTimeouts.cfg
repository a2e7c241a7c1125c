SPECIFICATION TimedSpec
CONSTANTS
    Workers = {w1, w2}
    MaxTasks = 2
INVARIANT
TakenOnce
CHECK_DEADLOCK FALSE
