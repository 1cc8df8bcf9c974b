CONSTANTS
    NoBuf = NoBuf
    NoKey = NoKey
    Pouches <- Plain
    HeaderUnits = 2
    Capacity = 3
    MaxPush = 4
    MayFail = FALSE
    MayAbort = FALSE
    UplinkEnds = FALSE
CHECK_DEADLOCK FALSE
SPECIFICATION Spec
INVARIANTS
    AllDelivered
