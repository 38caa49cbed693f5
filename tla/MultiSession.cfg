SPECIFICATION FairSpec
CONSTANTS
    N = 3
    L = 2
INVARIANTS
    TypeOK
    ResourceExclusive
    CrossUseOnlyIfDisjoint
    FailFastStopsSharers
    OkMeansAllPassed
    NoCircularWait
PROPERTY
    RunEnds
CHECK_DEADLOCK FALSE
