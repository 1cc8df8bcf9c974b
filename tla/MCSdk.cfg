CONSTANTS
    Nil = Nil
    ImageUnits = 2
    Versions = 2
    SettingsSent <- TwoVersions
    Handlers <- LedHandler
    ReuseIds = FALSE
    Fragments = FALSE
    Interleaved = FALSE
    MaxFaults = 2
SPECIFICATION Spec
INVARIANTS
    TypeOK
    WholeImage
    RoutedByPath
    SettingsApplied
PROPERTIES
    CaughtUp
