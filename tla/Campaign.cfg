SPECIFICATION FairSpec
CONSTANTS
    NONE = NONE
    net = net
    telnet = telnet
    kernel = kernel
    small = small
    full = full
    d1 = d1
    d2 = d2
    pre = pre
    b1 = b1
    gcc = gcc
    clang = clang
    Dirs = {d1, d2, pre}
    Boards = {b1}
    Symbols <- MCSymbols
    Defconfigs = {small, full}
    Default <- MCDefault
    Requires <- MCRequires
    Kernel = kernel
    Envs = {gcc, clang}
    Prebuilt <- MCPrebuilt
    Tests = {1, 2}
    Module <- MCModule
    DepConfig <- MCDepConfig
    CmdCheck <- MCCmdCheck
    Commands <- MCCommands
    Histories <- MCHistories
    MaxRuns = 3
INVARIANTS
    TypeOK
    RebuiltMatchesConfig
    TestsHaveTheirOptions
    ImageFitsSession
    VerdictAgreesWithCounts
PROPERTIES
    RetentionLeast
    InvocationEnds
CHECK_DEADLOCK FALSE
