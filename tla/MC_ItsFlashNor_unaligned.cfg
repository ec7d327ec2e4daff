\* The flash area starts at address 1, inside a two-byte sector:
\* its_flash_nor_init checks only block_size % sector_size, so erasing a
\* block reaches outside it.
CONSTANTS
    NumBlocks = 2
    BlockSize = 4
    Vals = {0}
    EraseVal = 1
    MaxIo = 3
    Word = 16
    AreaAddr = 1
    FlashSize = 9
    DataWidth = 2
    SectorSize = 2
    ProgramUnit = 2
    DriverFails = FALSE
    Args <- MCArgs
SPECIFICATION Spec
PROPERTY NorIsFlash
