SPECIFICATION Spec
CONSTANTS
    CrashTypes = {panic}
    UNKNOWN = UNKNOWN
    Runner = Runner
    Monitors = {m1}
    Threshold = 2
PROPERTY
    NoAnswerStolen
