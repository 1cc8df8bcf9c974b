CONSTANTS
    Nil = Nil
    ImageUnits = 2
    Versions = 2
    SettingsSent <- TwoVersions
    Handlers <- LedHandler
    ReuseIds = TRUE
    Fragments = FALSE
    Interleaved = FALSE
    MaxFaults = 1
SPECIFICATION Spec
INVARIANTS
    RoutedByPath
