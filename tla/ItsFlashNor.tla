---------------------------- MODULE ItsFlashNor ----------------------------
(***************************************************************************)
(* The ITS flash driver for NOR flash behind a CMSIS ARM_DRIVER_FLASH      *)
(* (flash/its_flash_nor.c).  Block b, byte o lives at flash address        *)
(* flash_area_addr + b * block_size + o.  The CMSIS driver is modelled by  *)
(* its contract: ReadData and ProgramData move whole data items of         *)
(* data_width bytes, EraseSector sets the sector holding an address to     *)
(* the erased value, and any driver call may fail when DriverFails.  NOR   *)
(* programming is taken to store the bytes (the file system programs only  *)
(* erased bytes).  Each call of the ITS partition is one step.             *)
(***************************************************************************)
EXTENDS Integers, Sequences

CONSTANTS
    NumBlocks, BlockSize, Vals, EraseVal, MaxIo,   \* as in ItsFlash
    Word,         \* 2^32: uint32_t wraps modulo Word
    AreaAddr,     \* cfg->flash_area_addr
    FlashSize,    \* the bytes of the flash device
    DataWidth,    \* data_width_byte[GetCapabilities().data_width]
    SectorSize,   \* flash_info->sector_size
    ProgramUnit,  \* cfg->program_unit, equal to flash_info->program_unit
    DriverFails,  \* whether a CMSIS driver call may return an error
    Args          \* the [block, offset, size] the caller passes

ASSUME ItsFlashNorAssumption ==
    /\ NumBlocks \in Nat \ {0} /\ BlockSize \in Nat \ {0} /\ MaxIo \in Nat \ {0}
    /\ AreaAddr \in Nat /\ FlashSize \in Nat \ {0} /\ FlashSize <= Word
    /\ DataWidth \in {1, 2, 4} /\ SectorSize \in Nat /\ ProgramUnit \in Nat \ {0}
    /\ DriverFails \in BOOLEAN
    /\ Word \in Nat \ {0}
    /\ Args \subseteq [block : 0 .. Word - 1, offset : 0 .. Word - 1, size : 0 .. Word - 1]

Bytes == Vals \cup {EraseVal}

FlashAddr == 0 .. FlashSize - 1

VARIABLES
    mem,      \* the flash device
    init_rc,  \* what its_flash_nor_init returned; "none" before
    out,      \* the bytes the last read copied out
    rc,       \* the status the last call returned
    reads,    \* the addresses the last read passed to ReadData
    call      \* the last call the file system made, with its arguments

vars == <<mem, init_rc, out, rc, reads, call>>

Status == {"PSA_SUCCESS", "PSA_ERROR_STORAGE_FAILURE"}

TypeOK ==
    /\ mem \in [FlashAddr -> Bytes]
    /\ init_rc \in Status \cup {"none"}
    /\ out \in Seq(Bytes)
    /\ rc \in Status
    /\ reads \subseteq Nat

\* get_phys_address, in uint32_t.
PhysAddress(b, o) == (AreaAddr + b * BlockSize + o) % Word

\* The flash bytes a from a + n - 1; a byte past the device reads as erased.
FlashBytes(a, n) == [i \in 1 .. n |-> IF a + i - 1 \in FlashAddr THEN mem[a + i - 1] ELSE EraseVal]

\* The statuses a driver call may return.
DriverRc == IF DriverFails THEN Status ELSE {"PSA_SUCCESS"}

Init ==
    /\ mem \in [FlashAddr -> Bytes]
    /\ init_rc = "none"
    /\ out = << >>
    /\ rc = "PSA_SUCCESS"
    /\ reads = {}
    /\ call = [op |-> "none", block |-> 0, offset |-> 0, size |-> 0]

\* its_flash_nor_init: Initialize and GetInfo, then the program unit and
\* the block size against the sector size.
NorInit ==
    /\ init_rc = "none"
    /\ \E drv \in DriverRc :
          init_rc' = IF drv # "PSA_SUCCESS" \/ BlockSize = 0 \/ SectorSize = 0
                           \/ BlockSize % SectorSize # 0
                     THEN "PSA_ERROR_STORAGE_FAILURE" ELSE "PSA_SUCCESS"
    /\ UNCHANGED <<mem, out, rc, reads, call>>

\* flash_read_unaligned reading its head item at addr itself.
ReadUnalignedAtAddr(addr, size) ==
    LET aligned == (addr \div DataWidth) * DataWidth
        off     == addr - aligned
        rl1     == IF aligned # addr
                   THEN IF off + size >= DataWidth THEN DataWidth - off ELSE size
                   ELSE 0
        items   == (size - rl1) \div DataWidth
        rl2     == rl1 + items * DataWidth
        temp1   == FlashBytes(addr, DataWidth)
        temp3   == FlashBytes(addr + rl2, DataWidth)
    IN  [data  |-> [i \in 1 .. rl1 |-> temp1[off + i]]
                   \o FlashBytes(addr + rl1, items * DataWidth)
                   \o [i \in 1 .. size - rl2 |-> temp3[i]],
         calls |-> (IF rl1 > 0 THEN {addr} ELSE {})
                   \cup (IF items > 0 THEN {addr + rl1} ELSE {})
                   \cup (IF size - rl2 > 0 THEN {addr + rl2} ELSE {})]

(***************************************************************************)
(* flash_read_unaligned: the data item holding addr when addr is not       *)
(* aligned, then the whole items that follow, then the item holding the    *)
(* tail.  Returns the bytes read and the addresses passed to ReadData.     *)
(***************************************************************************)
ReadUnaligned(addr, size) ==
    LET aligned == (addr \div DataWidth) * DataWidth
        off     == addr - aligned
        rl1     == IF aligned # addr
                   THEN IF off + size >= DataWidth THEN DataWidth - off ELSE size
                   ELSE 0
        items   == (size - rl1) \div DataWidth
        rl2     == rl1 + items * DataWidth
        temp1   == FlashBytes(aligned, DataWidth)
        temp3   == FlashBytes(addr + rl2, DataWidth)
    IN  [data  |-> [i \in 1 .. rl1 |-> temp1[off + i]]
                   \o FlashBytes(addr + rl1, items * DataWidth)
                   \o [i \in 1 .. size - rl2 |-> temp3[i]],
         calls |-> (IF rl1 > 0 THEN {aligned} ELSE {})
                   \cup (IF items > 0 THEN {addr + rl1} ELSE {})
                   \cup (IF size - rl2 > 0 THEN {addr + rl2} ELSE {})]

\* its_flash_nor_read: a zero size reads nothing; a failing ReadData
\* returns STORAGE_FAILURE.
NorRead(r) ==
    IF r.size = 0 THEN /\ rc' = "PSA_SUCCESS" /\ UNCHANGED <<out, reads>>
    ELSE LET res == ReadUnaligned(PhysAddress(r.block, r.offset), r.size)
         IN  \E drv \in DriverRc :
                /\ rc' = drv
                /\ out' = IF drv = "PSA_SUCCESS" THEN res.data ELSE out
                /\ reads' = res.calls

\* The file system programs whole program units.
WriteArgs == {r \in Args : r.offset % ProgramUnit = 0 /\ r.size % ProgramUnit = 0}

\* its_flash_nor_write: ProgramData of size / data_width items.
NorWrite(r, d) ==
    LET addr == PhysAddress(r.block, r.offset)
        n    == (r.size \div DataWidth) * DataWidth
    IN  \E drv \in DriverRc :
           /\ rc' = drv
           /\ mem' = IF drv = "PSA_SUCCESS"
                     THEN [a \in FlashAddr |-> IF a \in addr .. addr + n - 1
                                              THEN d[a - addr + 1] ELSE mem[a]]
                     ELSE mem
           /\ UNCHANGED <<out, reads>>

\* The sector EraseSector(a) erases.
Sector(a) == {x \in FlashAddr : x \div SectorSize = a \div SectorSize}

\* its_flash_nor_erase stepping by the block size instead of the sector size.
NorEraseBlockStep(b) ==
    \E k \in 0 .. 1 :
       /\ k < 1 => DriverFails
       /\ rc' = IF k = 1 THEN "PSA_SUCCESS" ELSE "PSA_ERROR_STORAGE_FAILURE"
       /\ mem' = [a \in FlashAddr |->
                    IF k = 1 /\ a \in Sector(PhysAddress(b, 0)) THEN EraseVal ELSE mem[a]]
       /\ UNCHANGED <<out, reads>>

\* its_flash_nor_erase: EraseSector at every sector_size step of the block;
\* a NULL GetInfo or the first failing EraseSector stops it after k sectors.
NorErase(b) ==
    LET count == (BlockSize + SectorSize - 1) \div SectorSize
    IN  \E k \in 0 .. count :
           /\ k < count => DriverFails
           /\ rc' = IF k = count THEN "PSA_SUCCESS" ELSE "PSA_ERROR_STORAGE_FAILURE"
           /\ mem' = [a \in FlashAddr |->
                        IF \E j \in 0 .. k - 1 : a \in Sector(PhysAddress(b, j * SectorSize))
                        THEN EraseVal ELSE mem[a]]
           /\ UNCHANGED <<out, reads>>

NorFlush ==
    /\ rc' = "PSA_SUCCESS"
    /\ UNCHANGED <<mem, out, reads>>

\* The file system uses the driver only after init succeeded.
Next ==
    \/ NorInit
    \/ /\ init_rc = "PSA_SUCCESS"
       /\ \/ \E r \in Args : NorRead(r) /\ UNCHANGED mem /\ call' = [op |-> "read", block |-> r.block, offset |-> r.offset, size |-> r.size]
          \/ \E r \in WriteArgs : \E d \in [1 .. r.size -> Bytes] :
                NorWrite(r, d) /\ call' = [op |-> "write", block |-> r.block, offset |-> r.offset, size |-> r.size]
          \/ \E r \in Args : NorErase(r.block) /\ call' = [op |-> "erase", block |-> r.block, offset |-> 0, size |-> 0]
          \/ \E r \in Args : NorFlush /\ call' = [op |-> "flush", block |-> r.block, offset |-> 0, size |-> 0]
       /\ UNCHANGED init_rc

Spec == Init /\ [][Next]_vars

-----------------------------------------------------------------------------
\* Block b, byte o of the abstract flash is the flash byte at
\* get_phys_address(b, o).
FlashView ==
    [b \in 0 .. NumBlocks - 1 |-> [o \in 0 .. BlockSize - 1 |->
        FlashBytes(PhysAddress(b, o), 1)[1]]]

Flash == INSTANCE ItsFlash WITH flash <- FlashView

-----------------------------------------------------------------------------
(* Properties *)

(***************************************************************************)
(* The NOR driver is an ITS flash device: a read at any offset and size    *)
(* returns, through the unaligned head, whole items and tail of            *)
(* flash_read_unaligned, the bytes the last write or erase left, and an    *)
(* erase wipes exactly its block.                                          *)
(***************************************************************************)
NorIsFlash == Flash!ASpec

(***************************************************************************)
(* Every ReadData of flash_read_unaligned is at an address aligned to the  *)
(* data width, as the CMSIS API requires (its_flash_nor.c:87-91), whatever *)
(* the offset and size of the read.                                        *)
(***************************************************************************)
ReadDataAligned == \A a \in reads : a % DataWidth = 0
=============================================================================
