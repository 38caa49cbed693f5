SPECIFICATION Spec
CONSTANTS
    Products = {p1}
    Rebootable = {p1}
    Items = 2
    Loops = 1
    MaxRetries = 1
    DumpLimit <- MCDumpLimit
    Heartbeat = FALSE
PROPERTY
    RemainingSkipped
CHECK_DEADLOCK FALSE
