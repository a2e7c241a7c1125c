SPECIFICATION FairSpec
CONSTANTS
    Writers = {w1, w2}
    Readers = {r1}
    None = None
    Values = {a, b}
    NoValue = NoValue
    Size = 2
INVARIANTS
    NoLostWakeup
    DetectorAgrees
PROPERTIES
    QueueSpec
    Answered
