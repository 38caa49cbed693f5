SPECIFICATION Spec
CONSTANTS
    Products = {p1}
    Rebootable = {p1}
    Items = 1
    Loops = 1
    MaxRetries = 1
    DumpLimit <- MCDumpLimit
    Heartbeat = FALSE
PROPERTY
    CrashDumped
CHECK_DEADLOCK FALSE
