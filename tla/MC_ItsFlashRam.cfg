CONSTANTS
    NumBlocks = 2
    BlockSize = 2
    Vals = {0, 1}
    EraseVal = 3
    MaxIo = 2
    DevSizes = {3, 4, 5}
    Word = 16
    Args <- MCRanges
SPECIFICATION Spec
PROPERTY RamIsFlash
CHECK_DEADLOCK FALSE
