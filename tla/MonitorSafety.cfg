SPECIFICATION Spec
CONSTANTS
    CrashTypes = {panic, segfault}
    UNKNOWN = UNKNOWN
    Runner = Runner
    Monitors = {m1}
    Threshold = 2
INVARIANTS
    TypeOK
    FlagMeansCommand
    FailuresBounded
    VerdictNeedsThreads
    NoCrashDropped
PROPERTY
    HealthRefined
