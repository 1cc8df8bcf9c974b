CONSTANTS
    t1 = t1
    t2 = t2
    Threads = {t1, t2}
    NoThread = NoThread
    NoBuf = NoBuf
    StreamMask = 31
    StreamsMax = 126
    EventDepth = 0
    BufUnits = 2
    Cooperative = TRUE
    MayFail = TRUE
    MayAbort = TRUE
    MaxWrite = 1
    MaxItems = 2
    MaxSessions = 2
    MaxStreamId = 1
CHECK_DEADLOCK FALSE
SYMMETRY ThreadSymmetry
SPECIFICATION Spec
INVARIANTS
    TypeOK
    PouchWellFormed
    InOrderOnce
    StreamFraming
    BuffersOwnedOnce
    NothingLeftOver
    DrainedAtEnd
PROPERTIES
    ImplementsService
