\* One block of four bytes at address 2 of a 6-byte device, with
\* sectors and data items of two bytes: reads at odd offsets take the
\* unaligned head and tail paths of flash_read_unaligned.
CONSTANTS
    NumBlocks = 1
    BlockSize = 4
    Vals = {0}
    EraseVal = 1
    MaxIo = 3
    Word = 16
    AreaAddr = 2
    FlashSize = 6
    DataWidth = 2
    SectorSize = 2
    ProgramUnit = 2
    DriverFails = FALSE
    Args <- MCArgs
SPECIFICATION Spec
PROPERTY NorIsFlash
INVARIANT ReadDataAligned
