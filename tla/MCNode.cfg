CONSTANTS
    EventDepth = 2
    BlockEntries = 2
    MaxSessions = 2
    MaxReadings = 2
    MaxCuts = 1
SPECIFICATION Spec
INVARIANTS
    TypeOK
    EventsMatchSession
    CloseInOwnSession
    NoStaleClose
    ReadingsInOrder
PROPERTIES
    SessionsEnd
    SyncRequestedAgain
