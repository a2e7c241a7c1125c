SPECIFICATION Spec
CONSTANTS
    Ratios = {1, 8}
    Durations = {150, 300}
    Tries = 3
INVARIANTS
    ConfigOnChip
    TempOversamplingOnChip
    RatioHonoured
    FreshReading
