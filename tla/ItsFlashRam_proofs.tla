------------------------- MODULE ItsFlashRam_proofs -------------------------
(***************************************************************************)
(* Proof that the RAM flash driver never copies or sets a byte outside     *)
(* its_block_data, for every buffer size, block geometry, address width    *)
(* and every block, offset and size a caller may pass, those whose         *)
(* address computation wraps included.                                     *)
(***************************************************************************)
EXTENDS ItsFlashRam, TLAPS

\* The strengthening: the buffer size is fixed, and once init succeeded a
\* block fits in the buffer, which is what the check of erase relies on.
RamInv ==
    /\ dev_size \in DevSizes
    /\ touched \subseteq 0 .. dev_size - 1
    /\ init_rc = "PSA_SUCCESS" => BlockSize <= dev_size

\* The argument check of read, write and erase: with size at most the
\* buffer, dev->size - size does not wrap, and an accepted copy fits.
LEMMA CheckedSpanFits ==
    ASSUME NEW W \in Nat \ {0}, NEW d \in 1 .. W - 1, NEW i \in 0 .. W - 1,
           NEW n \in 0 .. d,
           ~(i >= d \/ i > (d - n) % W)
    PROVE  Span(i, n) \subseteq 0 .. d - 1
<1>1. (d - n) % W = d - n
  BY SMT
<1>2. i + n <= d
  BY <1>1, SMT
<1>3. QED
  BY <1>2, SMT DEF Span

\* get_phys_address yields a uint32_t.
LEMMA PhysInWord ==
    ASSUME NEW b \in Int, NEW o \in Int
    PROVE  PhysAddress(b, o) \in 0 .. Word - 1
BY ItsFlashRamAssumption, SMT DEF PhysAddress

\* The arguments of every call are integers of the word.
LEMMA ArgsInt ==
    ASSUME NEW r \in Args
    PROVE  r.block \in 0 .. Word - 1 /\ r.offset \in 0 .. Word - 1 /\ r.size \in 0 .. Word - 1
BY ItsFlashRamAssumption

\* An accepted read or write touches only the buffer.
LEMMA AcceptedCallFits ==
    ASSUME NEW r \in Args, dev_size \in DevSizes,
           ~Rejected(PhysAddress(r.block, r.offset), r.size)
    PROVE  Span(PhysAddress(r.block, r.offset), r.size) \subseteq 0 .. dev_size - 1
<1>1. PhysAddress(r.block, r.offset) \in 0 .. Word - 1
  <2>1. r.block \in Int /\ r.offset \in Int
    BY ArgsInt, ItsFlashRamAssumption
  <2>2. QED
    BY <2>1, PhysInWord
<1>2. dev_size \in 1 .. Word - 1 /\ Word \in Nat \ {0}
  BY ItsFlashRamAssumption
<1>3. r.size \in 0 .. dev_size
  BY ArgsInt, <1>2 DEF Rejected
<1>4. ~(PhysAddress(r.block, r.offset) >= dev_size
         \/ PhysAddress(r.block, r.offset) > (dev_size - r.size) % Word)
  BY DEF Rejected
<1>5. QED
  BY <1>1, <1>2, <1>3, <1>4, CheckedSpanFits

\* An accepted erase after a successful init touches only the buffer.
LEMMA AcceptedEraseFits ==
    ASSUME NEW b \in 0 .. Word - 1, dev_size \in DevSizes, BlockSize <= dev_size,
           ~(PhysAddress(b, 0) >= dev_size \/ PhysAddress(b, 0) > (dev_size - BlockSize) % Word)
    PROVE  Span(PhysAddress(b, 0), BlockSize) \subseteq 0 .. dev_size - 1
<1>1. PhysAddress(b, 0) \in 0 .. Word - 1
  BY ItsFlashRamAssumption, PhysInWord
<1>2. dev_size \in 1 .. Word - 1 /\ Word \in Nat \ {0} /\ BlockSize \in 0 .. dev_size
  BY ItsFlashRamAssumption
<1>3. QED
  BY <1>1, <1>2, CheckedSpanFits

\* RamInv holds initially and is kept by every call.
LEMMA RamInvInductive == Spec => []RamInv
<1>1. Init => RamInv
  BY DEF Init, RamInv
<1>2. RamInv /\ [Next]_vars => RamInv'
  <2> SUFFICES ASSUME RamInv, [Next]_vars PROVE RamInv'
    OBVIOUS
  <2>1. CASE RamInit
    BY <2>1, ItsFlashRamAssumption DEF RamInit, RamInv
  <2>2. CASE init_rc = "PSA_SUCCESS" /\ UNCHANGED <<dev_size, init_rc>>
             /\ \E r \in Args : RamRead(r) /\ call' = [op |-> "read", block |-> r.block, offset |-> r.offset, size |-> r.size]
    <3>1. PICK r \in Args : RamRead(r)
      BY <2>2
    <3>2. touched' \subseteq 0 .. dev_size - 1
      BY <3>1, AcceptedCallFits DEF RamRead, RamInv
    <3>3. QED
      BY <2>2, <3>2 DEF RamInv
  <2>3. CASE init_rc = "PSA_SUCCESS" /\ UNCHANGED <<dev_size, init_rc>>
             /\ \E r \in Args : \E d \in [1 .. r.size -> Bytes] :
                   RamWrite(r, d) /\ call' = [op |-> "write", block |-> r.block, offset |-> r.offset, size |-> r.size]
    <3>1. PICK r \in Args : \E d \in [1 .. r.size -> Bytes] : RamWrite(r, d)
      BY <2>3
    <3>2. touched' \subseteq 0 .. dev_size - 1
      BY <3>1, AcceptedCallFits DEF RamWrite, RamInv
    <3>3. QED
      BY <2>3, <3>2 DEF RamInv
  <2>4. CASE init_rc = "PSA_SUCCESS" /\ UNCHANGED <<dev_size, init_rc>>
             /\ \E r \in Args : RamErase(r.block) /\ call' = [op |-> "erase", block |-> r.block, offset |-> 0, size |-> 0]
    <3>1. PICK r \in Args : RamErase(r.block)
      BY <2>4
    <3>2. r.block \in 0 .. Word - 1
      BY ArgsInt
    <3>3. touched' \subseteq 0 .. dev_size - 1
      BY <2>4, <3>1, <3>2, AcceptedEraseFits DEF RamErase, RamInv
    <3>4. QED
      BY <2>4, <3>3 DEF RamInv
  <2>5. CASE init_rc = "PSA_SUCCESS" /\ UNCHANGED <<dev_size, init_rc>>
             /\ \E r \in Args : RamFlush /\ call' = [op |-> "flush", block |-> r.block, offset |-> 0, size |-> 0]
    BY <2>5 DEF RamFlush, RamInv
  <2>6. CASE UNCHANGED vars
    BY <2>6 DEF vars, RamInv
  <2>7. QED
    BY <2>1, <2>2, <2>3, <2>4, <2>5, <2>6 DEF Next
<1>3. QED
  BY <1>1, <1>2, PTL DEF Spec

(***************************************************************************)
(* No memcpy or memset of its_flash_ram_read, _write or _erase reaches     *)
(* outside its_block_data, whatever the caller passes: the size check of   *)
(* lines 49 and 67 keeps dev->size - size from wrapping, and erase relies  *)
(* on its_flash_ram_init having rejected a block larger than the buffer.   *)
(***************************************************************************)
THEOREM InBoundsHolds == Spec => []InBounds
<1>1. RamInv => InBounds
  BY DEF RamInv, InBounds
<1>2. QED
  BY <1>1, RamInvInductive, PTL

-----------------------------------------------------------------------------
(* Refinement: the RAM driver implements the abstract ITS flash device.    *)

\* What the refinement needs of a state: the buffer is a buffer of bytes
\* of the device size, and once init succeeded every block fits in it.
RefInv ==
    /\ dev_size \in DevSizes
    /\ buffer \in [0 .. dev_size - 1 -> Bytes]
    /\ init_rc = "PSA_SUCCESS" => NumBlocks * BlockSize <= dev_size

LEMMA InitRefInv == Init => RefInv
BY ItsFlashRamAssumption DEF Init, RefInv, Bytes

LEMMA StepRefInv == RefInv /\ [Next]_vars => RefInv'
<1> SUFFICES ASSUME RefInv, [Next]_vars PROVE RefInv'
    OBVIOUS
<1>1. CASE RamInit
  <2>1. init_rc' = "PSA_SUCCESS" => NumBlocks * BlockSize <= dev_size
    <3>1. dev_size \in Nat \ {0} /\ BlockSize \in Nat \ {0} /\ NumBlocks \in Nat
      BY ItsFlashRamAssumption DEF RefInv
    <3>. QED  BY <1>1, <3>1, SMT DEF RamInit
  <2>. QED  BY <1>1, <2>1 DEF RamInit, RefInv
<1>2. CASE init_rc = "PSA_SUCCESS" /\ UNCHANGED <<dev_size, init_rc>>
           /\ \E r \in Args : RamRead(r)
  <2>1. PICK r \in Args : RamRead(r)
    BY <1>2
  <2>. QED  BY <1>2, <2>1 DEF RamRead, RefInv
<1>3. CASE init_rc = "PSA_SUCCESS" /\ UNCHANGED <<dev_size, init_rc>>
           /\ \E r \in Args : \E d \in [1 .. r.size -> Bytes] : RamWrite(r, d)
  <2>1. PICK r \in Args : \E d \in [1 .. r.size -> Bytes] : RamWrite(r, d)
    BY <1>3
  <2>2. PICK d \in [1 .. r.size -> Bytes] : RamWrite(r, d)
    BY <2>1
  <2>3. buffer' \in [0 .. dev_size - 1 -> Bytes]
    <3>0. r.block \in Int /\ r.offset \in Int /\ r.size \in Int
      BY <2>1, ArgsInt, ItsFlashRamAssumption
    <3>1. PhysAddress(r.block, r.offset) \in Int /\ r.size \in Int
      BY <3>0, PhysInWord, ItsFlashRamAssumption
    <3>. QED  BY <1>3, <2>2, <3>1 DEF RamWrite, RefInv, Span
  <2>. QED  BY <1>3, <2>3 DEF RefInv
<1>4. CASE init_rc = "PSA_SUCCESS" /\ UNCHANGED <<dev_size, init_rc>>
           /\ \E r \in Args : RamErase(r.block)
  <2>1. PICK r \in Args : RamErase(r.block)
    BY <1>4
  <2>. QED  BY <1>4, <2>1 DEF RamErase, RefInv, Bytes
<1>5. CASE init_rc = "PSA_SUCCESS" /\ UNCHANGED <<dev_size, init_rc>> /\ RamFlush
  BY <1>5 DEF RamFlush, RefInv
<1>6. CASE UNCHANGED vars
  BY <1>6 DEF vars, RefInv
<1>. QED  BY <1>1, <1>2, <1>3, <1>4, <1>5, <1>6 DEF Next


\* The file system passes only ranges inside one block (the \note of
\* its_flash_ops_t read, write and erase).
FsArgs == Args \subseteq Flash!Ranges

\* Once init succeeded, byte o of block b sits at b * block_size + o, inside
\* the buffer: get_phys_address does not wrap.
LEMMA BlockAddr ==
    ASSUME NEW dsz \in DevSizes, NumBlocks * BlockSize <= dsz,
           NEW b \in 0 .. NumBlocks - 1, NEW o \in 0 .. BlockSize - 1
    PROVE  /\ PhysAddress(b, o) = b * BlockSize + o
           /\ b * BlockSize + o \in 0 .. dsz - 1
<1>1. NumBlocks \in Nat \ {0} /\ BlockSize \in Nat \ {0} /\ dsz \in 1 .. Word - 1
      /\ Word \in Nat \ {0}
  BY ItsFlashRamAssumption
<1>2. (b + 1) * BlockSize <= NumBlocks * BlockSize
  BY <1>1, SMT
<1>3. b * BlockSize + o \in 0 .. dsz - 1
  BY <1>1, <1>2, SMT
<1>. QED  BY <1>1, <1>3, SMT DEF PhysAddress

\* Blocks do not share a byte: an address names one block and one offset.
LEMMA InBlockSpan ==
    ASSUME NEW rb \in 0 .. NumBlocks - 1, NEW ro \in Nat, NEW n \in Nat,
           ro + n <= BlockSize,
           NEW b \in 0 .. NumBlocks - 1, NEW o \in 0 .. BlockSize - 1
    PROVE  (b * BlockSize + o \in Span(rb * BlockSize + ro, n))
           <=> (b = rb /\ o \in ro .. ro + n - 1)
<1>1. BlockSize \in Nat \ {0}
  BY ItsFlashRamAssumption
<1>2. b < rb => (b + 1) * BlockSize <= rb * BlockSize
  BY <1>1, SMT
<1>3. rb < b => (rb + 1) * BlockSize <= b * BlockSize
  BY <1>1, SMT
<1>. QED  BY <1>1, <1>2, <1>3, SMT DEF Span

\* A byte of the abstract device, as the refinement mapping shows it.
LEMMA ViewAt ==
    ASSUME RefInv, init_rc = "PSA_SUCCESS",
           NEW b \in 0 .. NumBlocks - 1, NEW o \in 0 .. BlockSize - 1
    PROVE  FlashView[b][o] = buffer[b * BlockSize + o]
<1>1. dev_size \in DevSizes /\ NumBlocks * BlockSize <= dev_size
  BY DEF RefInv
<1>2. PhysAddress(b, o) = b * BlockSize + o /\ b * BlockSize + o \in 0 .. dev_size - 1
  BY <1>1, BlockAddr
<1>3. FlashView[b][o] = IF PhysAddress(b, o) < dev_size THEN buffer[PhysAddress(b, o)]
                                                      ELSE EraseVal
  BY DEF FlashView
<1>4. PhysAddress(b, o) < dev_size
  BY <1>1, <1>2, ItsFlashRamAssumption, SMT
<1>. QED  BY <1>2, <1>3, <1>4

\* A range the file system passes is accepted and stays in its block.
LEMMA RangeAccepted ==
    ASSUME RefInv, init_rc = "PSA_SUCCESS", NEW r \in Flash!Ranges
    PROVE  /\ PhysAddress(r.block, r.offset) = r.block * BlockSize + r.offset
           /\ ~Rejected(PhysAddress(r.block, r.offset), r.size)
           /\ r.block * BlockSize + r.offset + r.size <= dev_size
<1>1. /\ r.block \in 0 .. NumBlocks - 1 /\ r.offset \in 0 .. BlockSize - 1
      /\ r.size \in 1 .. MaxIo /\ r.offset + r.size <= BlockSize
  BY DEF Flash!Ranges, Flash!Blocks, Flash!Offsets
<1>2. /\ dev_size \in 1 .. Word - 1 /\ Word \in Nat \ {0}
      /\ NumBlocks \in Nat \ {0} /\ BlockSize \in Nat \ {0}
      /\ NumBlocks * BlockSize <= dev_size
  BY ItsFlashRamAssumption DEF RefInv
<1>3. PhysAddress(r.block, r.offset) = r.block * BlockSize + r.offset
  BY <1>1, <1>2, BlockAddr DEF RefInv
<1>4. (r.block + 1) * BlockSize <= NumBlocks * BlockSize
  BY <1>1, <1>2, SMT
<1>5. r.block * BlockSize + r.offset + r.size <= dev_size
  BY <1>1, <1>2, <1>4, SMT
<1>6. (dev_size - r.size) % Word = dev_size - r.size
  <2>1. r.block * BlockSize \in Nat
    BY <1>1, <1>2, SMT
  <2>2. dev_size - r.size \in 0 .. Word - 1
    BY <1>1, <1>2, <1>5, <2>1, SMT
  <2>. QED  BY <1>2, <2>2, SMT
<1>. QED  BY <1>1, <1>2, <1>3, <1>5, <1>6, SMT DEF Rejected


\* its_flash_ram_read of a valid range is a read of the abstract device.
LEMMA ReadRefines ==
    ASSUME RefInv, FsArgs, init_rc = "PSA_SUCCESS", UNCHANGED <<dev_size, init_rc>>,
           NEW r \in Args, RamRead(r),
           call' = [op |-> "read", block |-> r.block, offset |-> r.offset, size |-> r.size]
    PROVE  Flash!ARead(r)
<1>1. r \in Flash!Ranges
  BY DEF FsArgs
<1>2. /\ PhysAddress(r.block, r.offset) = r.block * BlockSize + r.offset
      /\ ~Rejected(PhysAddress(r.block, r.offset), r.size)
      /\ r.block * BlockSize + r.offset + r.size <= dev_size
  BY <1>1, RangeAccepted
<1>3. /\ r.block \in 0 .. NumBlocks - 1 /\ r.offset \in 0 .. BlockSize - 1
      /\ r.size \in 1 .. MaxIo /\ r.offset + r.size <= BlockSize
      /\ BlockSize \in Nat /\ r.block * BlockSize \in Nat
  <2>1. r.block \in 0 .. NumBlocks - 1 /\ r.offset \in 0 .. BlockSize - 1
        /\ r.size \in 1 .. MaxIo /\ r.offset + r.size <= BlockSize
    BY <1>1 DEF Flash!Ranges, Flash!Blocks, Flash!Offsets
  <2>. QED  BY <2>1, ItsFlashRamAssumption, SMT
<1>4. /\ out' \in ReadOut(r.block * BlockSize + r.offset, r.size)
      /\ rc' = "PSA_SUCCESS" /\ UNCHANGED buffer
  BY <1>2 DEF RamRead
<1>5. out' = [i \in 1 .. r.size |-> buffer[r.block * BlockSize + r.offset + i - 1]]
  <2>1. DOMAIN buffer = 0 .. dev_size - 1
    BY DEF RefInv
  <2>2. \A i \in 1 .. r.size : r.block * BlockSize + r.offset + i - 1 \in DOMAIN buffer
    <3>1. dev_size \in Nat
      BY ItsFlashRamAssumption DEF RefInv
    <3>2. PICK base \in Nat : base = r.block * BlockSize
      BY <1>3
    <3>3. base + r.offset + r.size <= dev_size /\ r.offset \in Nat /\ r.size \in Nat
      BY <1>2, <1>3, <3>2
    <3>4. \A i \in 1 .. r.size : base + r.offset + i - 1 \in 0 .. dev_size - 1
      BY <3>1, <3>3, SMT
    <3>. QED  BY <2>1, <3>2, <3>4
  <2>. QED  BY <1>4, <2>2 DEF ReadOut
<1>6. \A i \in 1 .. r.size :
         FlashView[r.block][r.offset + i - 1] = buffer[r.block * BlockSize + r.offset + i - 1]
  <2> SUFFICES ASSUME NEW i \in 1 .. r.size
               PROVE  FlashView[r.block][r.offset + i - 1]
                        = buffer[r.block * BlockSize + (r.offset + i - 1)]
    BY <1>3, SMT
  <2>1. r.offset + i - 1 \in 0 .. BlockSize - 1
    BY <1>3, SMT
  <2>. QED  BY <1>3, <2>1, ViewAt
<1>7. FlashView' = FlashView
  BY <1>4 DEF FlashView
<1>. QED  BY <1>4, <1>5, <1>6, <1>7 DEF Flash!ARead, Flash!Call


\* its_flash_ram_write of a valid range is a write of the abstract device:
\* it changes the bytes of the range, in that block only.
LEMMA WriteRefines ==
    ASSUME RefInv, FsArgs, init_rc = "PSA_SUCCESS", UNCHANGED <<dev_size, init_rc>>,
           NEW r \in Args, NEW d \in [1 .. r.size -> Bytes], RamWrite(r, d),
           call' = [op |-> "write", block |-> r.block, offset |-> r.offset, size |-> r.size]
    PROVE  Flash!AWrite(r, d)
<1>1. r \in Flash!Ranges
  BY DEF FsArgs
<1>2. /\ PhysAddress(r.block, r.offset) = r.block * BlockSize + r.offset
      /\ ~Rejected(PhysAddress(r.block, r.offset), r.size)
  BY <1>1, RangeAccepted
<1>3. /\ r.block \in 0 .. NumBlocks - 1 /\ r.offset \in 0 .. BlockSize - 1
      /\ r.size \in 1 .. MaxIo /\ r.offset + r.size <= BlockSize
  BY <1>1 DEF Flash!Ranges, Flash!Blocks, Flash!Offsets
<1>4. /\ buffer' = [i \in DOMAIN buffer |->
                      IF i \in Span(r.block * BlockSize + r.offset, r.size)
                      THEN d[i - (r.block * BlockSize + r.offset) + 1] ELSE buffer[i]]
      /\ rc' = "PSA_SUCCESS" /\ UNCHANGED out
  BY <1>2 DEF RamWrite
<1>5. ASSUME NEW b \in 0 .. NumBlocks - 1, NEW o \in 0 .. BlockSize - 1
      PROVE  FlashView'[b][o]
               = IF b = r.block /\ o \in r.offset .. r.offset + r.size - 1
                 THEN d[o - r.offset + 1] ELSE FlashView[b][o]
  <2>1. /\ PhysAddress(b, o) = b * BlockSize + o
        /\ b * BlockSize + o \in 0 .. dev_size - 1
    BY BlockAddr DEF RefInv
  <2>2. DOMAIN buffer = 0 .. dev_size - 1
    BY DEF RefInv
  <2>3. FlashView'[b][o] = buffer'[b * BlockSize + o]
    <3>1. PhysAddress(b, o) < dev_size'
      BY <2>1, ItsFlashRamAssumption, SMT DEF RefInv
    <3>. QED  BY <2>1, <3>1 DEF FlashView
  <2>4. FlashView[b][o] = buffer[b * BlockSize + o]
    BY ViewAt
  <2>5. (b * BlockSize + o \in Span(r.block * BlockSize + r.offset, r.size))
          <=> (b = r.block /\ o \in r.offset .. r.offset + r.size - 1)
    BY <1>3, InBlockSpan
  <2>6. b = r.block => (b * BlockSize + o) - (r.block * BlockSize + r.offset) + 1 = o - r.offset + 1
    BY <1>3, ItsFlashRamAssumption, SMT
  <2>7. buffer'[b * BlockSize + o]
          = IF b * BlockSize + o \in Span(r.block * BlockSize + r.offset, r.size)
            THEN d[(b * BlockSize + o) - (r.block * BlockSize + r.offset) + 1]
            ELSE buffer[b * BlockSize + o]
    <3>1. b * BlockSize + o \in DOMAIN buffer
      BY <2>1, <2>2
    <3>2. \A i \in DOMAIN buffer :
            buffer'[i] = IF i \in Span(r.block * BlockSize + r.offset, r.size)
                         THEN d[i - (r.block * BlockSize + r.offset) + 1] ELSE buffer[i]
      BY <1>4
    <3>. QED  BY <3>1, <3>2
  <2>. QED  BY <2>3, <2>4, <2>5, <2>6, <2>7
<1>6. FlashView' = [FlashView EXCEPT ![r.block] =
                      [o \in 0 .. BlockSize - 1 |->
                          IF o \in r.offset .. r.offset + r.size - 1
                          THEN d[o - r.offset + 1] ELSE FlashView[r.block][o]]]
  <2>1. FlashView' = [b \in 0 .. NumBlocks - 1 |-> [o \in 0 .. BlockSize - 1 |-> FlashView'[b][o]]]
    BY DEF FlashView
  <2>2. FlashView = [b \in 0 .. NumBlocks - 1 |-> [o \in 0 .. BlockSize - 1 |-> FlashView[b][o]]]
    BY DEF FlashView
  <2>3. FlashView' = [b \in 0 .. NumBlocks - 1 |-> [o \in 0 .. BlockSize - 1 |->
                         IF b = r.block /\ o \in r.offset .. r.offset + r.size - 1
                         THEN d[o - r.offset + 1] ELSE FlashView[b][o]]]
    BY <1>5, <2>1, Zenon
  <2>. QED  BY <1>3, <2>2, <2>3
<1>. QED  BY <1>4, <1>6 DEF Flash!AWrite, Flash!Call, Flash!Offsets


\* its_flash_ram_erase of a block of the device is an erase of that block.
LEMMA EraseRefines ==
    ASSUME RefInv, FsArgs, init_rc = "PSA_SUCCESS", UNCHANGED <<dev_size, init_rc>>,
           NEW r \in Args, RamErase(r.block),
           call' = [op |-> "erase", block |-> r.block, offset |-> 0, size |-> 0]
    PROVE  Flash!AErase(r.block)
<1>1. r.block \in 0 .. NumBlocks - 1
  BY DEF FsArgs, Flash!Ranges, Flash!Blocks
<1>2. /\ dev_size \in DevSizes /\ NumBlocks * BlockSize <= dev_size
      /\ dev_size \in 1 .. Word - 1 /\ Word \in Nat \ {0}
      /\ NumBlocks \in Nat \ {0} /\ BlockSize \in Nat \ {0}
  BY ItsFlashRamAssumption DEF RefInv
<1>3. /\ PhysAddress(r.block, 0) = r.block * BlockSize + 0
      /\ r.block * BlockSize + 0 \in 0 .. dev_size - 1
  BY <1>1, <1>2, BlockAddr
<1>4. r.block * BlockSize + 0 = r.block * BlockSize
  BY <1>1, <1>2, SMT
<1>5. ~(PhysAddress(r.block, 0) >= dev_size
        \/ PhysAddress(r.block, 0) > (dev_size - BlockSize) % Word)
  <2>1. (r.block + 1) * BlockSize <= NumBlocks * BlockSize
    BY <1>1, <1>2, SMT
  <2>2. BlockSize <= NumBlocks * BlockSize
    BY <1>2, SMT
  <2>3. dev_size - BlockSize \in 0 .. Word - 1
    BY <1>2, <2>2, SMT
  <2>4. (dev_size - BlockSize) % Word = dev_size - BlockSize
    BY <1>2, <2>3, SMT
  <2>. QED  BY <1>1, <1>2, <1>3, <2>1, <2>4, SMT
<1>6. /\ buffer' = [i \in DOMAIN buffer |->
                      IF i \in Span(r.block * BlockSize, BlockSize) THEN EraseVal
                      ELSE buffer[i]]
      /\ rc' = "PSA_SUCCESS" /\ UNCHANGED out
  BY <1>3, <1>4, <1>5 DEF RamErase
<1>7. ASSUME NEW b \in 0 .. NumBlocks - 1, NEW o \in 0 .. BlockSize - 1
      PROVE  FlashView'[b][o] = IF b = r.block THEN EraseVal ELSE FlashView[b][o]
  <2>1. /\ PhysAddress(b, o) = b * BlockSize + o
        /\ b * BlockSize + o \in 0 .. dev_size - 1
    BY BlockAddr DEF RefInv
  <2>2. FlashView'[b][o] = buffer'[b * BlockSize + o]
    <3>1. PhysAddress(b, o) < dev_size'
      BY <2>1, ItsFlashRamAssumption, SMT DEF RefInv
    <3>. QED  BY <2>1, <3>1 DEF FlashView
  <2>3. FlashView[b][o] = buffer[b * BlockSize + o]
    BY ViewAt
  <2>4. (b * BlockSize + o \in Span(r.block * BlockSize + 0, BlockSize))
          <=> (b = r.block /\ o \in 0 .. 0 + BlockSize - 1)
    <3>1. 0 \in Nat /\ BlockSize \in Nat /\ 0 + BlockSize <= BlockSize
      BY <1>2, SMT
    <3>. QED  BY <1>1, <3>1, InBlockSpan
  <2>5. o \in 0 .. 0 + BlockSize - 1
    BY <1>2, SMT
  <2>6. b * BlockSize + o \in DOMAIN buffer
    BY <2>1 DEF RefInv
  <2>. QED  BY <1>4, <1>6, <2>2, <2>3, <2>4, <2>5, <2>6
<1>8. FlashView' = [FlashView EXCEPT ![r.block] = [o \in 0 .. BlockSize - 1 |-> EraseVal]]
  <2>1. FlashView' = [b \in 0 .. NumBlocks - 1 |-> [o \in 0 .. BlockSize - 1 |-> FlashView'[b][o]]]
    BY DEF FlashView
  <2>2. FlashView = [b \in 0 .. NumBlocks - 1 |-> [o \in 0 .. BlockSize - 1 |-> FlashView[b][o]]]
    BY DEF FlashView
  <2>3. FlashView' = [b \in 0 .. NumBlocks - 1 |-> [o \in 0 .. BlockSize - 1 |->
                         IF b = r.block THEN EraseVal ELSE FlashView[b][o]]]
    BY <1>7, <2>1, Zenon
  <2>. QED  BY <1>1, <2>2, <2>3
<1>. QED  BY <1>6, <1>8 DEF Flash!AErase, Flash!Call, Flash!Offsets

\* its_flash_ram_flush changes no byte: it is a flush of the device.
LEMMA FlushRefines ==
    ASSUME FsArgs, UNCHANGED dev_size, NEW r \in Args, RamFlush,
           call' = [op |-> "flush", block |-> r.block, offset |-> 0, size |-> 0]
    PROVE  Flash!AFlush(r.block)
BY DEF RamFlush, Flash!AFlush, Flash!Call, FlashView

\* The zeroed its_block_data is a state of the device in which every byte
\* holds a value.
LEMMA InitRefines == Init => Flash!AInit
<1> SUFFICES ASSUME Init PROVE Flash!AInit
  OBVIOUS
<1>1. ASSUME NEW b \in 0 .. NumBlocks - 1, NEW o \in 0 .. BlockSize - 1
      PROVE  (IF PhysAddress(b, o) < dev_size THEN buffer[PhysAddress(b, o)]
              ELSE EraseVal) \in Bytes
  <2>1. PhysAddress(b, o) \in 0 .. Word - 1
    BY PhysInWord
  <2>2. dev_size \in Int
    BY ItsFlashRamAssumption DEF Init
  <2>. QED  BY <2>1, <2>2, ItsFlashRamAssumption DEF Init, Bytes
<1>2. FlashView \in [Flash!Blocks -> [Flash!Offsets -> Bytes]]
  BY <1>1 DEF FlashView, Flash!Blocks, Flash!Offsets
<1>. QED  BY <1>2 DEF Init, Flash!AInit, Flash!Call, Bytes


\* Every step of the driver is a step of the device or leaves its bytes,
\* the last output, status and call as they were.
LEMMA StepRefines ==
    ASSUME FsArgs
    PROVE  RefInv /\ [Next]_vars => [Flash!ANext]_Flash!avars
<1> SUFFICES ASSUME RefInv, [Next]_vars PROVE [Flash!ANext]_Flash!avars
  OBVIOUS
<1>1. CASE RamInit
  BY <1>1 DEF RamInit, FlashView, Flash!avars
<1>2. CASE UNCHANGED vars
  BY <1>2 DEF vars, FlashView, Flash!avars
<1> DEFINE Ok == init_rc = "PSA_SUCCESS" /\ UNCHANGED <<dev_size, init_rc>>
<1>3. CASE Ok /\ \E r \in Args : RamRead(r) /\ call' = [op |-> "read", block |-> r.block, offset |-> r.offset, size |-> r.size]
  <2>1. PICK r \in Args : RamRead(r) /\ call' = [op |-> "read", block |-> r.block, offset |-> r.offset, size |-> r.size]
    BY <1>3
  <2>2. r \in Flash!Ranges
    BY DEF FsArgs
  <2>. QED  BY <1>3, <2>1, <2>2, ReadRefines DEF Flash!ANext
<1>4. CASE Ok /\ \E r \in Args : \E d \in [1 .. r.size -> Bytes] :
                RamWrite(r, d) /\ call' = [op |-> "write", block |-> r.block, offset |-> r.offset, size |-> r.size]
  <2>1. PICK r \in Args : \E d \in [1 .. r.size -> Bytes] :
                RamWrite(r, d) /\ call' = [op |-> "write", block |-> r.block, offset |-> r.offset, size |-> r.size]
    BY <1>4
  <2>2. PICK d \in [1 .. r.size -> Bytes] :
                RamWrite(r, d) /\ call' = [op |-> "write", block |-> r.block, offset |-> r.offset, size |-> r.size]
    BY <2>1
  <2>3. r \in Flash!Ranges /\ d \in Flash!Data(r.size)
    BY DEF FsArgs, Flash!Data, Bytes
  <2>4. Flash!AWrite(r, d)
    BY <1>4, <2>2, WriteRefines
  <2>. QED  BY <2>3, <2>4 DEF Flash!ANext
<1>5. CASE Ok /\ \E r \in Args : RamErase(r.block) /\ call' = [op |-> "erase", block |-> r.block, offset |-> 0, size |-> 0]
  <2>1. PICK r \in Args : RamErase(r.block) /\ call' = [op |-> "erase", block |-> r.block, offset |-> 0, size |-> 0]
    BY <1>5
  <2>2. r.block \in Flash!Blocks
    BY DEF FsArgs, Flash!Ranges
  <2>. QED  BY <1>5, <2>1, <2>2, EraseRefines DEF Flash!ANext
<1>6. CASE Ok /\ \E r \in Args : RamFlush /\ call' = [op |-> "flush", block |-> r.block, offset |-> 0, size |-> 0]
  <2>1. PICK r \in Args : RamFlush /\ call' = [op |-> "flush", block |-> r.block, offset |-> 0, size |-> 0]
    BY <1>6
  <2>2. r.block \in Flash!Blocks
    BY DEF FsArgs, Flash!Ranges
  <2>. QED  BY <1>6, <2>1, <2>2, FlushRefines DEF Flash!ANext
<1>. QED  BY <1>1, <1>2, <1>3, <1>4, <1>5, <1>6 DEF Next

(***************************************************************************)
(* The RAM driver implements the ITS flash device for every number and     *)
(* size of blocks and every ITS_RAM_FS_SIZE, as long as the file system    *)
(* passes only ranges inside one block: once its_flash_ram_init accepted   *)
(* the configuration, its_flash_ram_read returns the bytes the last        *)
(* its_flash_ram_write or its_flash_ram_erase left there, and no call      *)
(* reaches into another block.                                             *)
(***************************************************************************)
THEOREM RamIsFlashHolds == FsArgs => (Spec => RamIsFlash)
<1> SUFFICES ASSUME FsArgs PROVE Spec => RamIsFlash
  OBVIOUS
<1>1. Spec => []RefInv
  BY InitRefInv, StepRefInv, PTL DEF Spec
<1>2. RefInv /\ [Next]_vars => [Flash!ANext]_Flash!avars
  BY StepRefines
<1>. QED  BY <1>1, <1>2, InitRefines, PTL DEF Spec, RamIsFlash, Flash!ASpec

=============================================================================
