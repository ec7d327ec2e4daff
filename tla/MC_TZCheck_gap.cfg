CONSTANTS
    Word = 16
    Granule = 4
    Layouts <- MCGapLayouts
    Sizes = {0, 1, 3, 4, 6, 16}
    Accesses <- MCAccesses
    FihHigh = TRUE
SPECIFICATION Spec

INVARIANT CheckSound
CHECK_DEADLOCK FALSE
