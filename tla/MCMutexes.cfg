SPECIFICATION MCSpec
CONSTANTS
    Threads = {t1, t2, t3}
    None = None
    MaxDepth = 3
    SetLevels = {2, 3}
    Topics = {a, b}
    Names = {1, 2}
    Workers = {w1, w2}
INVARIANTS
    Exclusion
    CountIsDepth
    OwnerIsHolder
    LinesWhole
    DeliveredOnce
PROPERTY CallsReturn
