------------------------- MODULE ItsFlashNor_proofs -------------------------
(***************************************************************************)
(* Proof that flash_read_unaligned passes ReadData only addresses aligned  *)
(* to the data width, for every data width the CMSIS driver reports, every *)
(* flash area address and every offset and size of a read.                 *)
(***************************************************************************)
EXTENDS ItsFlashNor, TLAPS

\* The arithmetic of flash_read_unaligned: the head item starts at the
\* aligned address below addr; when anything follows the head, the head
\* ends on an item boundary, and so does every whole item after it.
LEMMA SplitAligned ==
    ASSUME NEW w \in {1, 2, 4}, NEW addr \in Nat, NEW size \in Nat
    PROVE  LET al    == (addr \div w) * w
               off   == addr - al
               rl1   == IF al # addr
                        THEN IF off + size >= w THEN w - off ELSE size
                        ELSE 0
               items == (size - rl1) \div w
               rl2   == rl1 + items * w
           IN  /\ al % w = 0
               /\ items > 0 => (addr + rl1) % w = 0
               /\ size - rl2 > 0 => (addr + rl2) % w = 0
<1>1. CASE w = 1
    BY <1>1, SMT
<1>2. CASE w = 2
    BY <1>2, SMT
<1>3. CASE w = 4
    BY <1>3, SMT
<1>4. QED
    BY <1>1, <1>2, <1>3

\* Every address flash_read_unaligned hands to ReadData is aligned.
LEMMA CallsAligned ==
    ASSUME NEW addr \in Nat, NEW size \in Nat
    PROVE  \A a \in ReadUnaligned(addr, size).calls : a % DataWidth = 0
<1>1. DataWidth \in {1, 2, 4}
    BY ItsFlashNorAssumption
<1>2. QED
    BY <1>1, SplitAligned DEF ReadUnaligned

\* get_phys_address yields a uint32_t.
LEMMA PhysNat ==
    ASSUME NEW r \in Args
    PROVE  PhysAddress(r.block, r.offset) \in Nat
BY ItsFlashNorAssumption, SMT DEF PhysAddress

\* Only a read sets reads, and it sets them to the calls of
\* flash_read_unaligned.
LEMMA ReadsStep == ReadDataAligned /\ [Next]_vars => ReadDataAligned'
<1> SUFFICES ASSUME ReadDataAligned, [Next]_vars PROVE ReadDataAligned'
    OBVIOUS
<1>1. ASSUME NEW r \in Args, NorRead(r)
      PROVE  ReadDataAligned'
  <2>1. CASE r.size = 0
    BY <1>1, <2>1 DEF NorRead, ReadDataAligned
  <2>2. CASE r.size # 0
    <3>1. r.size \in Nat /\ PhysAddress(r.block, r.offset) \in Nat
      BY PhysNat, ItsFlashNorAssumption
    <3>2. reads' = ReadUnaligned(PhysAddress(r.block, r.offset), r.size).calls
      BY <1>1, <2>2 DEF NorRead
    <3>3. QED
      BY <3>1, <3>2, CallsAligned DEF ReadDataAligned
  <2>3. QED
    BY <2>1, <2>2
<1>2. ASSUME NEW r \in WriteArgs, NEW d, NorWrite(r, d)
      PROVE  ReadDataAligned'
    BY <1>2 DEF NorWrite, ReadDataAligned
<1>3. ASSUME NEW b, NorErase(b)
      PROVE  ReadDataAligned'
    BY <1>3 DEF NorErase, ReadDataAligned
<1>4. CASE NorInit \/ NorFlush \/ UNCHANGED vars
    BY <1>4 DEF NorInit, NorFlush, vars, ReadDataAligned
<1>5. QED
    BY <1>1, <1>2, <1>3, <1>4 DEF Next

(***************************************************************************)
(* flash_read_unaligned calls ReadData only at addresses that are a        *)
(* multiple of the data width (its_flash_nor.c:87-91), for every data      *)
(* width, flash area address, offset and size: the unaligned head is read  *)
(* from the aligned address below it, and the whole items and the tail     *)
(* start where the head ends.                                              *)
(***************************************************************************)
THEOREM ReadDataAlignedHolds == Spec => []ReadDataAligned
<1>1. Init => ReadDataAligned
    BY DEF Init, ReadDataAligned
<1>2. QED
    BY <1>1, ReadsStep, PTL DEF Spec
=============================================================================
