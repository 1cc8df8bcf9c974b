CONSTANTS
    t1 = t1
    t2 = t2
    Threads = {t1, t2}
    NoThread = NoThread
    NoBuf = NoBuf
    StreamMask = 31
    StreamsMax = 126
    EventDepth = 1
    BufUnits = 2
    Cooperative = FALSE
    MayFail = FALSE
    MayAbort = FALSE
    MaxWrite = 1
    MaxItems = 2
    MaxSessions = 1
    MaxStreamId = 0
CHECK_DEADLOCK FALSE
SPECIFICATION FairSpec
PROPERTIES
    CloseEndsSession
    NoLostWakeup
