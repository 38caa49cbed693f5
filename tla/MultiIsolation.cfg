SPECIFICATION Spec
CONSTANTS
    N = 2
    L = 1
INVARIANT
    SessionsIsolated
CHECK_DEADLOCK FALSE
