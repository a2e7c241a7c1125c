SPECIFICATION FairSpec
CONSTANTS
    Threads = {t1, t2, t3}
    Value = 1
PROPERTY NoOvertaking
