CONSTANTS
    ServerCerts = {"a", "b", "unparsable", "untrusted", "longserial", "rsa"}
    Kind <- Mixed
    NoCert = NoCert
    NoValue = NoValue
    Pouches = {"p"}
    SerialUnits = 2
    CertUnits = 3
    DeviceUnits = 2
    PouchUnits = 2
    MaxPayload = 2
    MaxFaults = 2
    MaxRotations = 1
SPECIFICATION Spec
INVARIANTS
    TypeOK
    NoTornValue
    WritesArePrefixes
    KeyMatchesSerial
PROPERTIES
    Provisioned
