SPECIFICATION FairSpec
CONSTANTS
    Transports = {"host", "socket", "serial"}
    ChunkMax = 1
    MaxWire = 2
    MaxInput = 1
    Signatures = 1
    Suites <- MCSuites
INVARIANTS
    TypeOK
    AnswerIsOwn
    ListingIsTrue
    RebootIsReal
PROPERTIES
    CallsReturn
