SPECIFICATION FairSpec
CONSTANTS
    CrashTypes = {panic}
    UNKNOWN = UNKNOWN
    Runner = Runner
    Monitors = {m1}
    Threshold = 1
PROPERTIES
    CallsReturn
    MonitorsStop
