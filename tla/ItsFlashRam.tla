---------------------------- MODULE ItsFlashRam ----------------------------
(***************************************************************************)
(* The ITS flash driver that emulates flash in RAM (flash/its_flash_ram.c, *)
(* its_flash_ram_dev of flash/its_flash.c): one static buffer of           *)
(* ITS_RAM_FS_SIZE bytes, zero at boot, in which block b starts at byte    *)
(* b * block_size.  The ITS file system calls init once and, if it         *)
(* succeeded, read, write, flush and erase with the arguments in Args.     *)
(* Each call runs to completion in the ITS partition, so it is one step.   *)
(***************************************************************************)
EXTENDS Integers, Sequences

CONSTANTS
    NumBlocks, BlockSize, Vals, EraseVal, MaxIo,   \* as in ItsFlash
    DevSizes,   \* the values ITS_RAM_FS_SIZE may have
    Word,       \* 2^32: uint32_t and size_t wrap modulo Word
    Args        \* the [block, offset, size] the caller passes

ASSUME ItsFlashRamAssumption ==
    /\ NumBlocks \in Nat \ {0} /\ BlockSize \in Nat \ {0} /\ Word \in Nat \ {0}
    /\ 0 \in Vals /\ MaxIo \in Nat \ {0}
    /\ DevSizes \subseteq 1 .. Word - 1
    /\ Args \subseteq [block : 0 .. Word - 1, offset : 0 .. Word - 1, size : 0 .. Word - 1]

Bytes == Vals \cup {EraseVal}

VARIABLES
    dev_size, \* its_flash_ram_dev.size
    buffer,   \* its_block_data
    init_rc,  \* what its_flash_ram_init returned; "none" before
    out,      \* the bytes the last read copied out
    rc,       \* the status the last call returned
    touched,  \* the buffer indexes the last memcpy or memset reached
    call      \* the last call the file system made, with its arguments

vars == <<dev_size, buffer, init_rc, out, rc, touched, call>>

TypeOK ==
    /\ dev_size \in DevSizes
    /\ buffer \in [0 .. dev_size - 1 -> Bytes]
    /\ init_rc \in {"none", "PSA_SUCCESS", "PSA_ERROR_PROGRAMMER_ERROR"}
    /\ out \in Seq(Bytes)
    /\ rc \in {"PSA_SUCCESS", "PSA_ERROR_PROGRAMMER_ERROR"}
    /\ touched \subseteq Nat

\* get_phys_address, in uint32_t.
PhysAddress(b, o) == (b * BlockSize + o) % Word

Init ==
    /\ dev_size \in DevSizes
    /\ buffer = [i \in 0 .. dev_size - 1 |-> 0]
    /\ init_rc = "none"
    /\ out = << >>
    /\ rc = "PSA_SUCCESS"
    /\ touched = {}
    /\ call = [op |-> "none", block |-> 0, offset |-> 0, size |-> 0]

\* its_flash_ram_init: the blocks must fit in the buffer.
InitNoCount ==
    /\ init_rc = "none"
    /\ init_rc' = IF BlockSize > dev_size THEN "PSA_ERROR_PROGRAMMER_ERROR"
                  ELSE "PSA_SUCCESS"
    /\ UNCHANGED <<dev_size, buffer, out, rc, touched, call>>

RamInit ==
    /\ init_rc = "none"
    /\ init_rc' = IF BlockSize > dev_size \/ dev_size \div BlockSize < NumBlocks
                  THEN "PSA_ERROR_PROGRAMMER_ERROR" ELSE "PSA_SUCCESS"
    /\ UNCHANGED <<dev_size, buffer, out, rc, touched, call>>

\* The argument check of read and write; dev->size - size is a size_t.
Rejected(idx, size) ==
    idx >= dev_size \/ size > dev_size \/ idx > (dev_size - size) % Word

\* The bytes a copy of size bytes at idx reaches.
Span(idx, size) == idx .. idx + size - 1

\* The bytes a read of size bytes at idx may copy out: a byte past the
\* buffer is whatever the memory behind it holds.
ReadOut(idx, size) ==
    {s \in [1 .. size -> Bytes] :
        \A i \in 1 .. size : idx + i - 1 \in DOMAIN buffer => s[i] = buffer[idx + i - 1]}

\* its_flash_ram_read: memcpy(buff, dev->buffer + idx, size).
RamRead(r) ==
    LET idx == PhysAddress(r.block, r.offset)
    IN  IF Rejected(idx, r.size)
        THEN /\ rc' = "PSA_ERROR_PROGRAMMER_ERROR"
             /\ UNCHANGED <<buffer, out, touched>>
        ELSE /\ out' \in ReadOut(idx, r.size)
             /\ rc' = "PSA_SUCCESS"
             /\ touched' = Span(idx, r.size)
             /\ UNCHANGED buffer

\* its_flash_ram_write: memcpy(dev->buffer + idx, buff, size).
RamWrite(r, d) ==
    LET idx == PhysAddress(r.block, r.offset)
    IN  IF Rejected(idx, r.size)
        THEN /\ rc' = "PSA_ERROR_PROGRAMMER_ERROR"
             /\ UNCHANGED <<buffer, out, touched>>
        ELSE /\ buffer' = [i \in DOMAIN buffer |->
                             IF i \in Span(idx, r.size) THEN d[i - idx + 1]
                             ELSE buffer[i]]
             /\ rc' = "PSA_SUCCESS"
             /\ touched' = Span(idx, r.size)
             /\ UNCHANGED out

\* its_flash_ram_erase: memset(dev->buffer + idx, erase_val, block_size).
RamErase(b) ==
    LET idx == PhysAddress(b, 0)
    IN  IF idx >= dev_size \/ idx > (dev_size - BlockSize) % Word
        THEN /\ rc' = "PSA_ERROR_PROGRAMMER_ERROR"
             /\ UNCHANGED <<buffer, out, touched>>
        ELSE /\ buffer' = [i \in DOMAIN buffer |->
                             IF i \in Span(idx, BlockSize) THEN EraseVal
                             ELSE buffer[i]]
             /\ rc' = "PSA_SUCCESS"
             /\ touched' = Span(idx, BlockSize)
             /\ UNCHANGED out

\* its_flash_ram_flush: writes are committed at once.
RamFlush ==
    /\ rc' = "PSA_SUCCESS"
    /\ UNCHANGED <<buffer, out, touched>>

\* The file system uses the driver only after init succeeded.
Next ==
    \/ RamInit
    \/ /\ init_rc = "PSA_SUCCESS"
       /\ \/ \E r \in Args : RamRead(r) /\ call' = [op |-> "read", block |-> r.block, offset |-> r.offset, size |-> r.size]
          \/ \E r \in Args : \E d \in [1 .. r.size -> Bytes] :
                RamWrite(r, d) /\ call' = [op |-> "write", block |-> r.block, offset |-> r.offset, size |-> r.size]
          \/ \E r \in Args : RamErase(r.block) /\ call' = [op |-> "erase", block |-> r.block, offset |-> 0, size |-> 0]
          \/ \E r \in Args : RamFlush /\ call' = [op |-> "flush", block |-> r.block, offset |-> 0, size |-> 0]
       /\ UNCHANGED <<dev_size, init_rc>>

Spec == Init /\ [][Next]_vars

-----------------------------------------------------------------------------
(***************************************************************************)
(* The refinement mapping: block b, byte o of the abstract flash is the    *)
(* buffer byte at get_phys_address(b, o); a byte the buffer does not have  *)
(* (init rejected the configuration) reads as erased.                      *)
(***************************************************************************)
FlashView ==
    [b \in 0 .. NumBlocks - 1 |-> [o \in 0 .. BlockSize - 1 |->
        IF PhysAddress(b, o) < dev_size THEN buffer[PhysAddress(b, o)]
        ELSE EraseVal]]

Flash == INSTANCE ItsFlash WITH flash <- FlashView

-----------------------------------------------------------------------------
(* Properties *)

(***************************************************************************)
(* The RAM driver is an ITS flash device: with the file system's valid     *)
(* arguments, every read returns what the last write or erase of those     *)
(* bytes left, every call succeeds, and blocks never share a byte. This    *)
(* rests on its_flash_ram_init rejecting a buffer too small for           *)
(* num_blocks blocks.                                                      *)
(***************************************************************************)
RamIsFlash == Flash!ASpec

(***************************************************************************)
(* Whatever block, offset and size a caller passes, a copy or a memset of  *)
(* the RAM driver stays inside its_block_data: the checks of lines 48-49,  *)
(* 66-67 and 95 hold even where block_id * block_size + offset wraps.      *)
(***************************************************************************)
InBounds == touched \subseteq 0 .. dev_size - 1
=============================================================================
