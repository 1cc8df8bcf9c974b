CONSTANTS
    t1 = t1
    t2 = t2
    Threads = {t1, t2}
    NoThread = NoThread
    NoBuf = NoBuf
    StreamMask = 31
    StreamsMax = 126
    EventDepth = 0
    BufUnits = 2
    Cooperative = FALSE
    MayFail = FALSE
    MayAbort = FALSE
    MaxWrite = 1
    MaxItems = 2
    MaxSessions = 2
    MaxStreamId = 0
CHECK_DEADLOCK FALSE
SYMMETRY ThreadSymmetry
SPECIFICATION Spec
INVARIANTS
    InOrderOnce
    BuffersOwnedOnce
    NothingInFlight
PROPERTIES
    ImplementsService
