CONSTANTS
    Nil = Nil
    ImageUnits = 3
    Versions = 2
    SettingsSent <- TwoVersions
    Handlers <- LedHandler
    ReuseIds = FALSE
    Fragments = FALSE
    Interleaved = TRUE
    MaxFaults = 1
SPECIFICATION Spec
INVARIANTS
    WholeImage
