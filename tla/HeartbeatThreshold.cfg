SPECIFICATION HSpec
CONSTANTS
    CrashTypes = {panic}
    UNKNOWN = UNKNOWN
    Runner = Runner
    Monitors = {m1}
    Threshold = 2
INVARIANT
    ThresholdHonoured
