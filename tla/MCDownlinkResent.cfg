CONSTANTS
    NoBuf = NoBuf
    NoKey = NoKey
    Pouches <- Resent
    HeaderUnits = 2
    Capacity = 3
    MaxPush = 4
    MayFail = TRUE
    MayAbort = TRUE
    UplinkEnds = TRUE
CHECK_DEADLOCK FALSE
SPECIFICATION FairSpec
INVARIANTS
    TypeOK
    BytesInOrder
    NoGaps
    SpaceLeft
    NullNeverDecrypted
    OneBufferPerPouch
PROPERTIES
    BlocksReachHandlers
