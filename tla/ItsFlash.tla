------------------------------ MODULE ItsFlash ------------------------------
(***************************************************************************)
(* What an ITS flash driver promises the ITS file system                   *)
(* (struct its_flash_ops_t, flash/its_flash_hal.h): a device of num_blocks *)
(* logical blocks of block_size bytes; read returns the bytes at block_id  *)
(* and offset, write stores bytes there, flush commits them, erase sets a  *)
(* whole block to erase_val.  The caller passes only valid ranges (the     *)
(* \note of read, write and erase).  Every call returns PSA_SUCCESS.       *)
(***************************************************************************)
EXTENDS Integers, Sequences

CONSTANTS
    NumBlocks,  \* cfg->num_blocks
    BlockSize,  \* cfg->block_size
    Vals,       \* the byte values a test writes
    EraseVal,   \* cfg->erase_val
    MaxIo       \* the largest read or write the file system issues

Blocks == 0 .. NumBlocks - 1

Offsets == 0 .. BlockSize - 1

\* The writes and reads the caller may issue: inside one block.
Ranges == {r \in [block : Blocks, offset : Offsets, size : 1 .. MaxIo] :
              r.offset + r.size <= BlockSize}

VARIABLES
    flash,    \* the contents of every block
    out,      \* the bytes the last read returned
    rc,       \* the status the last call returned
    call      \* the last call the file system made, with its arguments

avars == <<flash, out, rc, call>>

\* The record of a call op on block b, at offset o of n bytes.
Call(op, b, o, n) == [op |-> op, block |-> b, offset |-> o, size |-> n]

\* Data for a write of n bytes.
Data(n) == [1 .. n -> Vals \cup {EraseVal}]

AInit ==
    /\ flash \in [Blocks -> [Offsets -> Vals \cup {EraseVal}]]
    /\ out = << >>
    /\ rc = "PSA_SUCCESS"
    /\ call = Call("none", 0, 0, 0)

ARead(r) ==
    /\ out' = [i \in 1 .. r.size |-> flash[r.block][r.offset + i - 1]]
    /\ rc' = "PSA_SUCCESS"
    /\ call' = Call("read", r.block, r.offset, r.size)
    /\ UNCHANGED flash

AWrite(r, d) ==
    /\ flash' = [flash EXCEPT ![r.block] =
                    [o \in Offsets |->
                        IF o \in r.offset .. r.offset + r.size - 1
                        THEN d[o - r.offset + 1] ELSE @[o]]]
    /\ rc' = "PSA_SUCCESS"
    /\ call' = Call("write", r.block, r.offset, r.size)
    /\ UNCHANGED out

AErase(b) ==
    /\ flash' = [flash EXCEPT ![b] = [o \in Offsets |-> EraseVal]]
    /\ rc' = "PSA_SUCCESS"
    /\ call' = Call("erase", b, 0, 0)
    /\ UNCHANGED out

\* Flush changes no content: a write is visible to the next read.
AFlush(b) ==
    /\ rc' = "PSA_SUCCESS"
    /\ call' = Call("flush", b, 0, 0)
    /\ UNCHANGED <<flash, out>>

ANext ==
    \/ \E r \in Ranges : ARead(r)
    \/ \E r \in Ranges : \E d \in Data(r.size) : AWrite(r, d)
    \/ \E b \in Blocks : AErase(b) \/ AFlush(b)

ASpec == AInit /\ [][ANext]_avars
=============================================================================
