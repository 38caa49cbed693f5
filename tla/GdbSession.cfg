SPECIFICATION Spec
CONSTANTS
    Gdbs = 2
    Boots = 2
    Requests = 2
    Specs = {s1, s2}
    Leaky = {1}
    Notifier = notifier
INVARIANTS
    TypeOK
    HandedOnce
    AnswerIsOwn
    StartVerified
    OneDumpPerCrash
PROPERTY
    HarvestPrefersPresent
SYMMETRY SpecSymmetry
CHECK_DEADLOCK FALSE
