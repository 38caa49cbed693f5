SPECIFICATION FairSpec
CONSTANTS
    Products = {p1, p2}
    Rebootable = {p1}
    Items = 1
    Loops = 2
    MaxRetries = 1
    DumpLimit <- MCDumpLimit
    Heartbeat = TRUE
INVARIANTS
    TypeOK
    DumpsFromLiveTarget
    NoFaultyRunPasses
    NoBodyAfterFailedRecovery
    DumpsKept
PROPERTIES
    ShutdownQuiet
    SessionEnds
CHECK_DEADLOCK FALSE
