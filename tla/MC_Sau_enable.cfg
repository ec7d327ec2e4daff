CONSTANTS
    Word = 32
    Granule = 4
    RegionNr = 4
    Config <- MCConfig
    UseTz = TRUE
    VeneerBase = 28
    VeneerLimit = 32
    BootStates <- MCBootStates
    MaxFaults = 1
SPECIFICATION Spec
INVARIANT SauVerified
CHECK_DEADLOCK FALSE
