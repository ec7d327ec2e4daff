--------------------------- MODULE MPC_proofs ---------------------------
(***************************************************************************)
(* Proofs about the Block Gate Engine model MPC, for every value of the    *)
(* constants that satisfies MemAssumption.                                 *)
(***************************************************************************)
EXTENDS MPC, FiniteSetTheorems, TLAPS

(* The facts about the constants that the type proof needs.              *)
LEMMA ConstTypes ==
    /\ CacheDefault \in [PCs -> CacheAttrs]
    /\ GateResets \subseteq Attrs
    /\ StaticTables \subseteq Seq(Cfgs) /\ FixedCfgs \in Seq(Cfgs)
BY MemAssumption DEF MemAssumption

(* The facts about the memories that the block arithmetic needs.          *)
LEMMA MemFacts ==
    /\ Word \in Nat \ {0}
    /\ RramBlocks \in Nat
    /\ \A m \in Mems : /\ MemCfg[m].base \in Nat /\ MemCfg[m].bsize \in Nat \ {0}
                       /\ MemCfg[m].blocks \in Nat
BY MemAssumption DEF MemAssumption

(* The block index computed for a config (offset modulo 2^32 divided by   *)
(* the block size) is a natural number.                                    *)
LEMMA FirstBlockNat ==
    ASSUME NEW m \in Mems, NEW addr \in Nat
    PROVE  FirstBlock(addr, m) \in Nat
<1>1. Offset(addr, m) \in Nat
  BY MemFacts DEF Offset
<1>. QED  BY <1>1, MemFacts DEF FirstBlock

(* A block of a config whose last block index passed the bound check     *)
(* lies below that bound.                                                  *)
LEMMA BlockBelow ==
    ASSUME NEW m \in Mems, NEW c \in Cfgs, NEW n \in Nat,
           LastBlock(c.addr, c.size, m) <= n,
           NEW b \in CfgBlocks(c, m)
    PROVE  b \in 0 .. n - 1
<1>0. c.addr \in Nat
  BY MemFacts DEF Cfgs
<1>1. FirstBlock(c.addr, m) \in Nat
  BY <1>0, FirstBlockNat
<1>2. LastBlock(c.addr, c.size, m) \in Nat
  <2>1. c.size \in Nat /\ Offset(c.addr, m) \in Nat
    BY <1>0, MemFacts DEF Cfgs, Offset
  <2>2. (Offset(c.addr, m) + c.size) % Word \in Nat
    BY <2>1, MemFacts
  <2>. QED  BY <2>2, MemFacts DEF LastBlock, RoundUp
<1>. QED  BY <1>1, <1>2 DEF CfgBlocks

(* The conversion of a cache nibble back to an MPC attribute always       *)
(* yields a cy_stc_mpc_rot_block_attr_t value.                             *)
LEMMA DecodeType ==
    ASSUME NEW x \in CacheAttrs
    PROVE  Decode(x) \in Attrs
BY DEF Decode, CacheAttrs, Attrs, Secs, Accs

(* ifx_secure_cfg and ifx_access_cfg return a defined attribute for any   *)
(* config and PC.                                                          *)
LEMMA CfgAttrType ==
    ASSUME NEW c, NEW pc
    PROVE  CfgAttr(c, pc) \in Attrs
BY DEF CfgAttr, SecureCfg, AccessCfg, Attrs, Secs, Accs

(* An apply rewrites the gate only with attributes, block for block.      *)
LEMMA ApplyGateType ==
    ASSUME gate \in [AllBlocks -> [PCs -> Attrs]], NEW c, NEW dyn
    PROVE  ApplyGate(c, dyn) \in [AllBlocks -> [PCs -> Attrs]]
<1>1. \A bk \in AllBlocks, pc \in PCs : CfgAttr(c, pc) \in Attrs
  BY CfgAttrType
<1>. QED  BY <1>1 DEF ApplyGate

(* The cache update of ifx_mpc_apply_configuration_with_external_mpc     *)
(* keeps every entry a nibble of three bits.                              *)
LEMMA ApplyCacheType ==
    ASSUME cache \in [CacheIdx -> [PCs -> CacheAttrs]], NEW c, NEW dyn
    PROVE  ApplyCache(c, dyn) \in [CacheIdx -> [PCs -> CacheAttrs]]
BY DEF ApplyCache, CacheAttrs

(* Round trip of one boot-time apply: when ifx_mpc_apply_configuration    *)
(* succeeds for c, ifx_mpc_verify_configuration of c succeeds right after. *)
LEMMA RoundTrip ==
    ASSUME TypeOK, NEW c \in Cfgs, NEW seOk, ApplyOk(c, seOk, FALSE),
           gate' = ApplyGate(c, FALSE), cache' = ApplyCache(c, FALSE)
    PROVE  VerifyOk(c)'
<1>0. MemsOf(c) # {} /\ Covered(c)
  BY DEF ApplyOk
<1>1. ASSUME NEW m \in MemsOf(c), ~MemCfg[m].delegated
      PROVE  NativeVerifyOk(c, m)'
  <2>1. LastBlock(c.addr, c.size, m) <= MemCfg[m].blocks
    BY <1>1 DEF ApplyOk, NativeApplyOk
  <2>2. SUFFICES ASSUME NEW b \in CfgBlocks(c, m)
                 PROVE  /\ b < MemCfg[m].blocks
                        /\ \A pc \in PCs : gate'[<<m, b>>][pc] = CfgAttr(c, pc)
    BY DEF NativeVerifyOk
  <2>3. b \in Blocks(m) /\ b < MemCfg[m].blocks
    BY <2>1, BlockBelow, MemFacts DEF MemsOf, Blocks
  <2>4. <<m, b>> \in AllBlocks
    BY <2>3, <1>1 DEF AllBlocks, MemsOf
  <2>5. Pushed(m) = PCs
    BY <1>1 DEF Pushed
  <2>. QED  BY <2>3, <2>4, <2>5, <1>1 DEF ApplyGate
<1>2. ASSUME NEW m \in MemsOf(c), MemCfg[m].delegated
      PROVE  ExtVerifyOk(c, m)'
  <2>1. CacheInfoOk(c, m)
    BY <1>1, <1>2 DEF ApplyOk, ExtApplyOk, SeSkipped
  <2>2. SUFFICES ASSUME NEW b \in CfgBlocks(c, m), NEW pc \in c.pcs, pc >= SpmPC
                 PROVE  cache'[b][pc] = [ns |-> pc \in c.ns, r |-> pc \in c.r,
                                          w |-> pc \in c.w]
    BY <2>1 DEF ExtVerifyOk
  <2>3. b \in CacheIdx
    BY <2>1, BlockBelow, MemFacts DEF CacheInfoOk, MemsOf, CacheIdx
  <2>4. pc \in PCs
    BY DEF Cfgs
  <2>5. \E mm \in MemsOf(c) : /\ MemCfg[mm].delegated /\ ~SeSkipped(FALSE)
                              /\ b \in CfgBlocks(c, mm)
    BY <1>2 DEF SeSkipped
  <2>6. ApplyCache(c, FALSE)[b] =
          [p \in PCs |-> IF p \in c.pcs /\ p >= SpmPC
                         THEN [ns |-> p \in c.ns, r |-> p \in c.r, w |-> p \in c.w]
                         ELSE cache[b][p]]
    BY <2>3, <2>5, Zenon DEF ApplyCache
  <2>. QED  BY <2>2, <2>4, <2>6
<1>. QED  BY <1>0, <1>1, <1>2 DEF VerifyOk

(* RoundTrip as a formula over every config, for the steps below.         *)
LEMMA RoundTripAll ==
    TypeOK => \A c \in Cfgs, seOk \in BOOLEAN :
                 ApplyOk(c, seOk, FALSE) /\ gate' = ApplyGate(c, FALSE)
                 /\ cache' = ApplyCache(c, FALSE) => VerifyOk(c)'
BY RoundTrip

(* A step from the static-config loop of ifx_mpc_init_cfg that does not   *)
(* fault leaves the config it applied verifiable.                         *)
LEMMA StaticStep ==
    ASSUME TypeOK, Next, NEW i \in 1 .. Len(static),
           phase = "apply_static", idx = i, phase' # "faulted"
    PROVE  \A c \in {static[i]} : VerifyOk(c)'
<1>1. PICK seOk \in BOOLEAN : ApplyStatic(seOk)
  BY DEF Next, InitCfg, ApplyFixed, VerifyStatic, Audit, IsolateNumberedMmio, Reboot
<1>2. static \in Seq(Cfgs)
  BY ConstTypes DEF TypeOK
<1>3. static[i] \in Cfgs /\ idx <= Len(static)
  BY <1>2
<1>4. StepApply(static[i], seOk, AfterStatic, Len(static))
  BY <1>1, <1>3 DEF ApplyStatic
<1>5. /\ ApplyOk(static[i], seOk, FALSE)
      /\ gate' = ApplyGate(static[i], FALSE) /\ cache' = ApplyCache(static[i], FALSE)
  BY <1>4 DEF StepApply
<1>. QED  BY <1>3, <1>5, RoundTripAll

(* The same for the fixed-config loop.                                     *)
LEMMA FixedStep ==
    ASSUME TypeOK, Next, NEW i \in 1 .. Len(FixedCfgs),
           phase = "apply_fixed", idx = i, phase' # "faulted"
    PROVE  \A c \in {FixedCfgs[i]} : VerifyOk(c)'
<1>1. PICK seOk \in BOOLEAN : ApplyFixed(seOk)
  BY DEF Next, InitCfg, ApplyStatic, VerifyStatic, Audit, IsolateNumberedMmio, Reboot
<1>3. FixedCfgs[i] \in Cfgs /\ idx <= Len(FixedCfgs)
  BY ConstTypes
<1>4. StepApply(FixedCfgs[i], seOk, AfterFixed, Len(FixedCfgs))
  BY <1>1, <1>3 DEF ApplyFixed
<1>5. /\ ApplyOk(FixedCfgs[i], seOk, FALSE)
      /\ gate' = ApplyGate(FixedCfgs[i], FALSE) /\ cache' = ApplyCache(FixedCfgs[i], FALSE)
  BY <1>4 DEF StepApply
<1>. QED  BY <1>3, <1>5, RoundTripAll

(* The states a reset leaves the MPCs and the cache in are well typed.    *)
LEMMA ResetType ==
    /\ GatesAtReset \subseteq [AllBlocks -> [PCs -> Attrs]]
    /\ CacheZero \in [CacheIdx -> [PCs -> CacheAttrs]]
<1>1. \A pc \in PCs : Decode(CacheDefault[pc]) \in Attrs
  BY DecodeType, ConstTypes
<1>2. GatesAtReset \subseteq [AllBlocks -> [PCs -> Attrs]]
  BY <1>1, ConstTypes DEF GatesAtReset
<1>3. CacheZero \in [CacheIdx -> [PCs -> CacheAttrs]]
  BY DEF CacheZero, CacheAttrs
<1>. QED  BY <1>2, <1>3

(* Every step of the boot sequence, of an MMIO isolation and of a reboot  *)
(* keeps the MPC attributes, the attribute cache, the boot phase, the     *)
(* loop index and the static table within their types.                    *)
LEMMA TypeStep == TypeOK /\ [Next]_vars => TypeOK'
<1> SUFFICES ASSUME TypeOK, [Next]_vars PROVE TypeOK'
  OBVIOUS
<1>a. ASSUME NEW c, NEW seOk, NEW nextPhase, NEW len, nextPhase \in Phases,
             StepApply(c, seOk, nextPhase, len), UNCHANGED static
      PROVE  TypeOK'
  <2>1. ApplyGate(c, FALSE) \in [AllBlocks -> [PCs -> Attrs]]
    BY ApplyGateType DEF TypeOK
  <2>2. ApplyCache(c, FALSE) \in [CacheIdx -> [PCs -> CacheAttrs]]
    BY ApplyCacheType DEF TypeOK
  <2>3. CASE ApplyOk(c, seOk, FALSE)
    <3>1. /\ gate' = ApplyGate(c, FALSE) /\ cache' = ApplyCache(c, FALSE)
          /\ \/ phase' = phase /\ idx' = idx + 1
             \/ phase' = nextPhase /\ idx' = 1
      BY <1>a, <2>3 DEF StepApply
    <3>2. idx' \in Nat /\ phase' \in Phases
      BY <1>a, <3>1 DEF TypeOK
    <3>. QED  BY <1>a, <2>1, <2>2, <3>1, <3>2 DEF TypeOK
  <2>4. CASE ~ApplyOk(c, seOk, FALSE)
    <3>1. phase' = "faulted" /\ UNCHANGED <<gate, cache, idx>>
      BY <1>a, <2>4 DEF StepApply
    <3>. QED  BY <1>a, <3>1 DEF TypeOK, Phases
  <2>. QED  BY <2>3, <2>4
<1>1. CASE InitCfg
  BY <1>1, ConstTypes DEF InitCfg, TypeOK, Phases
<1>2. CASE \E seOk \in BOOLEAN : ApplyStatic(seOk) \/ ApplyFixed(seOk)
  <2>1. AfterStatic \in Phases /\ AfterFixed \in Phases
    BY DEF AfterStatic, AfterFixed, Phases
  <2>. PICK seOk \in BOOLEAN : ApplyStatic(seOk) \/ ApplyFixed(seOk)
    BY <1>2
  <2>2. CASE ApplyStatic(seOk)
    <3>1. CASE idx <= Len(static)
      BY <2>1, <2>2, <3>1, <1>a DEF ApplyStatic
    <3>2. CASE ~(idx <= Len(static))
      BY <2>1, <2>2, <3>2 DEF ApplyStatic, TypeOK
    <3>. QED  BY <3>1, <3>2
  <2>3. CASE ApplyFixed(seOk)
    <3>1. CASE idx <= Len(FixedCfgs)
      BY <2>1, <2>3, <3>1, <1>a DEF ApplyFixed
    <3>2. CASE ~(idx <= Len(FixedCfgs))
      BY <2>1, <2>3, <3>2 DEF ApplyFixed, TypeOK
    <3>. QED  BY <3>1, <3>2
  <2>. QED  BY <2>2, <2>3
<1>3. CASE VerifyStatic
  BY <1>3 DEF VerifyStatic, TypeOK, Phases
<1>4. CASE Audit
  BY <1>4 DEF Audit, TypeOK, Phases
<1>5. CASE \E a \in Assets, seOk \in BOOLEAN, dyn \in BOOLEAN :
               IsolateNumberedMmio(a, seOk, dyn)
  <2>. PICK a \in Assets, seOk \in BOOLEAN, dyn \in BOOLEAN :
               IsolateNumberedMmio(a, seOk, dyn)
    BY <1>5
  <2>1. ApplyGate(AssetCfg(a), dyn) \in [AllBlocks -> [PCs -> Attrs]]
    BY ApplyGateType DEF TypeOK
  <2>2. ApplyCache(AssetCfg(a), dyn) \in [CacheIdx -> [PCs -> CacheAttrs]]
    BY ApplyCacheType DEF TypeOK
  <2>. QED  BY <2>1, <2>2 DEF IsolateNumberedMmio, TypeOK, Phases
<1>6. CASE Reboot
  BY <1>6, ResetType DEF Reboot, TypeOK, Phases
<1>7. CASE UNCHANGED vars
  BY <1>7 DEF vars, TypeOK
<1>. QED  BY <1>1, <1>2, <1>3, <1>4, <1>5, <1>6, <1>7 DEF Next

(* TypeOK holds in every state of every behaviour of the model.           *)
THEOREM TypeCorrect == Spec => []TypeOK
<1>1. Init => TypeOK
  BY ResetType DEF Init, TypeOK, Phases
<1>. QED  BY <1>1, TypeStep, PTL DEF Spec

(* Round trip: every boot-time apply of ifx_mpc_init_cfg that does not    *)
(* fault is accepted by ifx_mpc_verify_configuration in the state it       *)
(* leaves, for every memory layout, PC set and config table.               *)
THEOREM ApplyThenVerifyHolds == Spec => ApplyThenVerify
<1>1. TypeOK /\ [Next]_vars =>
          [AppliedStep("apply_static", static) /\ AppliedStep("apply_fixed", FixedCfgs)]_vars
  <2> SUFFICES ASSUME TypeOK, [Next]_vars
               PROVE  [AppliedStep("apply_static", static)
                       /\ AppliedStep("apply_fixed", FixedCfgs)]_vars
    OBVIOUS
  <2>1. CASE Next
    <3>1. AppliedStep("apply_static", static)
      BY <2>1, StaticStep DEF AppliedStep
    <3>2. AppliedStep("apply_fixed", FixedCfgs)
      BY <2>1, FixedStep DEF AppliedStep
    <3>. QED  BY <3>1, <3>2
  <2>2. CASE UNCHANGED vars
    BY <2>2
  <2>. QED  BY <2>1, <2>2
<1>. QED  BY <1>1, TypeCorrect, PTL DEF Spec, ApplyThenVerify


-----------------------------------------------------------------------------
(* One fault in ifx_mpc_memory_check on a native MPC.                      *)

(* ifx_find_memory_config returns one of the memories or nothing.        *)
LEMMA FindMemoryIn ==
    ASSUME NEW base, NEW size, FindMemory(base, size) # NoMem
    PROVE  FindMemory(base, size) \in Mems
BY DEF FindMemory

(* The last block index of a range is a natural number.                    *)
LEMMA LastBlockNat ==
    ASSUME NEW m \in Mems, NEW addr \in Nat, NEW size \in Nat
    PROVE  LastBlock(addr, size, m) \in Nat
<1>1. Offset(addr, m) \in Nat
  BY MemFacts DEF Offset
<1>2. (Offset(addr, m) + size) % Word \in Nat
  BY <1>1, MemFacts
<1>. QED  BY <1>2, MemFacts DEF LastBlock, RoundUp

(* The blocks the loop of ifx_mpc_memory_check visits are finitely many.   *)
LEMMA SpanFinite ==
    ASSUME NEW m \in Mems, NEW base \in Nat, NEW size \in Nat
    PROVE  IsFiniteSet(FirstBlock(base, m) .. LastBlock(base, size, m) - 1)
<1>1. FirstBlock(base, m) \in Int /\ LastBlock(base, size, m) - 1 \in Int
  BY FirstBlockNat, LastBlockNat
<1>. QED  BY <1>1, FS_Interval

(* Under the high FIH profile, a check of a native memory that succeeds    *)
(* with one fault injected also succeeds without it: validated_block_count *)
(* equal to the span means no iteration was skipped, and the equal re-read *)
(* means every block was judged on what the MPC really holds.             *)
LEMMA NativeFailClosed ==
    ASSUME FihHigh, NEW p, NEW m \in Mems, NEW base \in Nat, NEW size \in Nat,
           NEW acc, NEW g \in Glitches,
           NativeCheck(p, m, base, size, acc, g) = "Success"
    PROVE  NativeCheck(p, m, base, size, acc, NoGlitch) = "Success"
<1>1. /\ \A b \in {b \in FirstBlock(base, m) .. LastBlock(base, size, m) - 1 :
                       ~(g.kind = "skip" /\ g.blk = b)} :
            /\ b \in Blocks(m)
            /\ GateRead(m, PartPC(p, IsSecure(acc)), b, g, "read1")
                 = GateRead(m, PartPC(p, IsSecure(acc)), b, g, "read2")
            /\ BlockPasses(GateRead(m, PartPC(p, IsSecure(acc)), b, g, "read1"),
                           ExpectedSec(p, acc), acc)
      /\ Cardinality({b \in FirstBlock(base, m) .. LastBlock(base, size, m) - 1 :
                         ~(g.kind = "skip" /\ g.blk = b)})
           = Cardinality(FirstBlock(base, m) .. LastBlock(base, size, m) - 1)
  BY DEF NativeCheck
<1>2. {b \in FirstBlock(base, m) .. LastBlock(base, size, m) - 1 :
          ~(g.kind = "skip" /\ g.blk = b)}
        = FirstBlock(base, m) .. LastBlock(base, size, m) - 1
  BY <1>1, SpanFinite, FS_Subset
<1>3. ASSUME NEW b \in FirstBlock(base, m) .. LastBlock(base, size, m) - 1
      PROVE  /\ b \in Blocks(m)
             /\ BlockPasses(gate[<<m, b>>][PartPC(p, IsSecure(acc))], ExpectedSec(p, acc), acc)
  <2>1. /\ b \in Blocks(m)
        /\ GateRead(m, PartPC(p, IsSecure(acc)), b, g, "read1")
             = GateRead(m, PartPC(p, IsSecure(acc)), b, g, "read2")
        /\ BlockPasses(GateRead(m, PartPC(p, IsSecure(acc)), b, g, "read1"),
                       ExpectedSec(p, acc), acc)
    BY <1>1, <1>2, <1>3
  <2>2. GateRead(m, PartPC(p, IsSecure(acc)), b, g, "read1")
          = gate[<<m, b>>][PartPC(p, IsSecure(acc))]
    BY <2>1 DEF GateRead
  <2>. QED  BY <2>1, <2>2
<1>4. \A b \in FirstBlock(base, m) .. LastBlock(base, size, m) - 1 :
         GateRead(m, PartPC(p, IsSecure(acc)), b, NoGlitch, "read1")
           = gate[<<m, b>>][PartPC(p, IsSecure(acc))]
      /\ GateRead(m, PartPC(p, IsSecure(acc)), b, NoGlitch, "read2")
           = gate[<<m, b>>][PartPC(p, IsSecure(acc))]
  BY DEF GateRead, NoGlitch
<1>5. {b \in FirstBlock(base, m) .. LastBlock(base, size, m) - 1 :
          ~(NoGlitch.kind = "skip" /\ NoGlitch.blk = b)}
        = FirstBlock(base, m) .. LastBlock(base, size, m) - 1
  BY DEF NoGlitch
<1>. QED  BY <1>3, <1>4, <1>5 DEF NativeCheck

(***************************************************************************)
(* Under TFM_FIH_PROFILE_HIGH, no single fault injected into               *)
(* ifx_mpc_memory_check on natively gated memory (a corrupted MPC read, a  *)
(* skipped loop iteration) turns a denied access into Success, for every   *)
(* memory layout and MPC state: the FIH re-read and validated_block_count  *)
(* catch it.                                                               *)
(***************************************************************************)
THEOREM NativeGlitchFailsClosedHolds == FihHigh => (Spec => []NativeGlitchFailsClosed)
<1> SUFFICES ASSUME FihHigh PROVE Spec => []NativeGlitchFailsClosed
  OBVIOUS
<1>1. NativeGlitchFailsClosed
  <2> SUFFICES ASSUME Configured, NEW q \in Queries, NEW g \in Glitches,
                      QMem(q) # NoMem, ~MemCfg[QMem(q)].delegated,
                      Check(q, g) = "Success"
               PROVE  Check(q, NoGlitch) = "Success"
    BY DEF NativeGlitchFailsClosed
  <2>1. QMem(q) \in Mems
    BY FindMemoryIn DEF QMem
  <2>2. q.base \in Nat /\ q.size \in Nat
    BY MemAssumption DEF MemAssumption, Queries
  <2>3. PartPC(q.part, IsSecure(q.acc)) # InvalidPC
    BY DEF Check, MemoryCheck, QMem
  <2>4. NativeCheck(q.part, QMem(q), q.base, q.size, q.acc, g) = "Success"
    BY <2>3 DEF Check, MemoryCheck, QMem
  <2>5. NativeCheck(q.part, QMem(q), q.base, q.size, q.acc, NoGlitch) = "Success"
    BY <2>1, <2>2, <2>4, NativeFailClosed
  <2>. QED  BY <2>3, <2>5 DEF Check, MemoryCheck, QMem
<1>. QED  BY <1>1, PTL


-----------------------------------------------------------------------------
(* ifx_mpc_memory_check against the reference gate semantics.              *)

(* The geometry the check relies on: no memory ends at 2^32 (its limit     *)
(* base + size is a uint32_t), and the memory gated by the SE RT service   *)
(* has the block size and at most the block count of the attribute cache. *)
GateGeometry ==
    /\ \A m \in Mems : MemLimit(m) < Word
    /\ \A m \in Mems : MemCfg[m].delegated =>
          /\ MemCfg[m].bsize = RramBlockSize
          /\ MemCfg[m].blocks <= RramBlocks

(* Rounding up to a multiple and dividing again is the ceiling.            *)
LEMMA RoundUpDiv ==
    ASSUME NEW a \in Nat \ {0}, NEW x \in Nat
    PROVE  RoundUp(x, a) \div a = (x + a - 1) \div a
BY SMT DEF RoundUp

(* A block ends above x exactly when its index is at least the first      *)
(* block index x / a the code computes.                                    *)
LEMMA FloorBound ==
    ASSUME NEW a \in Nat \ {0}, NEW x \in Nat, NEW b \in Nat
    PROVE  (x \div a <= b) <=> (x < (b + 1) * a)
BY SMT

(* A block starts below y exactly when its index is below the last block   *)
(* index, y rounded up to a multiple of a and divided by a.                *)
LEMMA CeilBound ==
    ASSUME NEW a \in Nat \ {0}, NEW y \in Nat, NEW b \in Nat
    PROVE  (b < (y + a - 1) \div a) <=> (b * a < y)
BY SMT

(* ifx_find_memory_config returns a memory that holds the whole range.    *)
LEMMA FindMemoryHolds ==
    ASSUME NEW base, NEW size, FindMemory(base, size) # NoMem
    PROVE  /\ MemCfg[FindMemory(base, size)].base <= base
           /\ base + size <= MemLimit(FindMemory(base, size))
BY DEF FindMemory

(* For a non-empty range inside a memory that ends below 2^32, the loop of *)
(* ifx_mpc_memory_check visits exactly the blocks the range touches, at    *)
(* least one, and none past the memory.                                     *)
LEMMA SpanIsTouched ==
    ASSUME NEW m \in Mems, MemLimit(m) < Word,
           NEW base \in Nat, NEW size \in Nat, size > 0,
           MemCfg[m].base <= base, base + size <= MemLimit(m)
    PROVE  /\ FirstBlock(base, m) .. LastBlock(base, size, m) - 1 = Touched(m, base, size)
           /\ FirstBlock(base, m) < LastBlock(base, size, m)
           /\ LastBlock(base, size, m) <= MemCfg[m].blocks
<1>1. /\ MemCfg[m].base \in Nat /\ MemCfg[m].bsize \in Nat \ {0}
      /\ MemCfg[m].blocks \in Nat /\ Word \in Nat \ {0}
  BY MemFacts
<1>2. Offset(base, m) = base - MemCfg[m].base
  BY <1>1, SMT DEF Offset, MemLimit
<1>3. (Offset(base, m) + size) % Word = base - MemCfg[m].base + size
  BY <1>1, <1>2, SMT DEF MemLimit
<1>4. LastBlock(base, size, m)
        = (base - MemCfg[m].base + size + MemCfg[m].bsize - 1) \div MemCfg[m].bsize
  <2>1. base - MemCfg[m].base + size \in Nat
    BY <1>1, SMT
  <2>2. RoundUp(base - MemCfg[m].base + size, MemCfg[m].bsize) \div MemCfg[m].bsize
          = (base - MemCfg[m].base + size + MemCfg[m].bsize - 1) \div MemCfg[m].bsize
    BY <1>1, <2>1, RoundUpDiv
  <2>. QED  BY <1>3, <2>2 DEF LastBlock
<1>5. FirstBlock(base, m) = (base - MemCfg[m].base) \div MemCfg[m].bsize
  BY <1>2 DEF FirstBlock
<1>6. ASSUME NEW b \in Nat
      PROVE  /\ ((base - MemCfg[m].base) \div MemCfg[m].bsize <= b)
                   <=> (base < MemCfg[m].base + (b + 1) * MemCfg[m].bsize)
             /\ (b < (base - MemCfg[m].base + size + MemCfg[m].bsize - 1) \div MemCfg[m].bsize)
                   <=> (MemCfg[m].base + b * MemCfg[m].bsize < base + size)
  <2>1. base - MemCfg[m].base \in Nat /\ base - MemCfg[m].base + size \in Nat
    BY <1>1, SMT
  <2>2. ((base - MemCfg[m].base) \div MemCfg[m].bsize <= b)
          <=> (base - MemCfg[m].base < (b + 1) * MemCfg[m].bsize)
    BY <1>1, <2>1, FloorBound
  <2>3. (b < (base - MemCfg[m].base + size + MemCfg[m].bsize - 1) \div MemCfg[m].bsize)
          <=> (b * MemCfg[m].bsize < base - MemCfg[m].base + size)
    BY <1>1, <2>1, CeilBound
  <2>. QED  BY <1>1, <2>2, <2>3, SMT
<1>7. (base - MemCfg[m].base) \div MemCfg[m].bsize \in Nat
  BY <1>1, SMT
<1>8. base - MemCfg[m].base + size \in Nat
  BY <1>1, SMT
<1>9. LastBlock(base, size, m) <= MemCfg[m].blocks
  <2>1. ~(MemCfg[m].blocks * MemCfg[m].bsize < base - MemCfg[m].base + size)
    BY <1>1, SMT DEF MemLimit
  <2>2. (MemCfg[m].blocks < (base - MemCfg[m].base + size + MemCfg[m].bsize - 1) \div MemCfg[m].bsize)
          <=> (MemCfg[m].blocks * MemCfg[m].bsize < base - MemCfg[m].base + size)
    BY <1>1, <1>8, CeilBound
  <2>3. (base - MemCfg[m].base + size + MemCfg[m].bsize - 1) \div MemCfg[m].bsize \in Int
    BY <1>1, SMT
  <2>. QED  BY <1>1, <1>4, <2>1, <2>2, <2>3, SMT
<1>10. FirstBlock(base, m) < LastBlock(base, size, m)
  <2>1. ((base - MemCfg[m].base) \div MemCfg[m].bsize) * MemCfg[m].bsize
          < base - MemCfg[m].base + size
    BY <1>1, SMT
  <2>2. ((base - MemCfg[m].base) \div MemCfg[m].bsize
          < (base - MemCfg[m].base + size + MemCfg[m].bsize - 1) \div MemCfg[m].bsize)
        <=> (((base - MemCfg[m].base) \div MemCfg[m].bsize) * MemCfg[m].bsize
               < base - MemCfg[m].base + size)
    BY <1>1, <1>7, <1>8, CeilBound
  <2>. QED  BY <1>4, <1>5, <2>1, <2>2
<1>11. FirstBlock(base, m) .. LastBlock(base, size, m) - 1 = Touched(m, base, size)
  <2>0. LastBlock(base, size, m) \in Nat
    BY <1>1, LastBlockNat
  <2>1. ASSUME NEW b \in FirstBlock(base, m) .. LastBlock(base, size, m) - 1
        PROVE  b \in Touched(m, base, size)
    <3>1. b \in Nat /\ b < MemCfg[m].blocks
      BY <1>5, <1>7, <1>9, <2>0, <1>1, SMT
    <3>2. /\ ((base - MemCfg[m].base) \div MemCfg[m].bsize <= b)
                <=> (base < MemCfg[m].base + (b + 1) * MemCfg[m].bsize)
          /\ (b < (base - MemCfg[m].base + size + MemCfg[m].bsize - 1) \div MemCfg[m].bsize)
                <=> (MemCfg[m].base + b * MemCfg[m].bsize < base + size)
      BY <1>6, <3>1
    <3>3. /\ base < MemCfg[m].base + (b + 1) * MemCfg[m].bsize
          /\ MemCfg[m].base + b * MemCfg[m].bsize < base + size
      BY <1>4, <1>5, <2>0, <3>1, <3>2, SMT
    <3>4. b \in Blocks(m)
      BY <1>1, <3>1, SMT DEF Blocks
    <3>. QED  BY <3>3, <3>4 DEF Touched
  <2>2. ASSUME NEW b \in Touched(m, base, size)
        PROVE  b \in FirstBlock(base, m) .. LastBlock(base, size, m) - 1
    <3>1. b \in Nat
      BY <1>1, SMT DEF Touched, Blocks
    <3>2. /\ base < MemCfg[m].base + (b + 1) * MemCfg[m].bsize
          /\ MemCfg[m].base + b * MemCfg[m].bsize < base + size
      BY DEF Touched
    <3>3. /\ (base - MemCfg[m].base) \div MemCfg[m].bsize <= b
          /\ b < (base - MemCfg[m].base + size + MemCfg[m].bsize - 1) \div MemCfg[m].bsize
      BY <1>6, <3>1, <3>2
    <3>. QED  BY <1>4, <1>5, <1>7, <2>0, <3>1, <3>3, SMT
  <2>. QED  BY <2>1, <2>2
<1>. QED  BY <1>9, <1>10, <1>11


(* The if-chain of lines 879-897, with the CY_MPC_ACCESS_RW short cut,     *)
(* grants exactly what the block attribute grants.                          *)
LEMMA PassesIsGrants ==
    ASSUME NEW a \in Attrs, NEW exp, NEW acc \in SUBSET {"R", "W", "NS"}
    PROVE  BlockPasses(a, exp, acc) <=> Grants(a, exp, acc)
BY DEF BlockPasses, Grants, Attrs, Accs

(* A cache nibble passes the checks of                                      *)
(* ifx_mpc_memory_check_with_external_mpc exactly when the attribute it     *)
(* encodes grants the access.                                               *)
LEMMA NibbleIsGrants ==
    ASSUME NEW c \in CacheAttrs, NEW sec \in BOOLEAN, NEW acc
    PROVE  (/\ c.ns = ~sec
            /\ "R" \in acc => c.r
            /\ "W" \in acc => c.w)
           <=> Grants(Decode(c), IF sec THEN "S" ELSE "NS", acc)
BY DEF CacheAttrs, Decode, Grants

(* The SPM passes TFM_HAL_ACCESS_NS only for an NS agent, so the security  *)
(* line 828 expects is the caller's.                                        *)
LEMMA ExpectedIsCaller ==
    ASSUME NEW q \in Queries, ValidQuery(q)
    PROVE  ExpectedSec(q.part, q.acc) = IF IsSecure(q.acc) THEN "S" ELSE "NS"
BY DEF ValidQuery, ExpectedSec, IsSecure

(* Without a fault, the checks of a native memory are the loop over the     *)
(* span, read once.                                                        *)
LEMMA NativeNoGlitch ==
    ASSUME NEW p, NEW m \in Mems, NEW base, NEW size, NEW acc
    PROVE  NativeCheck(p, m, base, size, acc, NoGlitch) = "Success"
           <=> \A b \in FirstBlock(base, m) .. LastBlock(base, size, m) - 1 :
                  /\ b \in Blocks(m)
                  /\ BlockPasses(gate[<<m, b>>][PartPC(p, IsSecure(acc))],
                                 ExpectedSec(p, acc), acc)
<1>1. {b \in FirstBlock(base, m) .. LastBlock(base, size, m) - 1 :
          ~(NoGlitch.kind = "skip" /\ NoGlitch.blk = b)}
        = FirstBlock(base, m) .. LastBlock(base, size, m) - 1
  BY DEF NoGlitch
<1>2. \A b, pc : /\ GateRead(m, pc, b, NoGlitch, "read1") = gate[<<m, b>>][pc]
                 /\ GateRead(m, pc, b, NoGlitch, "read2") = gate[<<m, b>>][pc]
  BY DEF GateRead, NoGlitch
<1>. QED  BY <1>1, <1>2 DEF NativeCheck

(* Without a fault, the checks of the RRAM read the cache once per block.  *)
LEMMA ExtNoGlitch ==
    ASSUME NEW p, NEW m \in Mems, NEW base, NEW size, NEW acc
    PROVE  ExtCheck(p, m, base, size, acc, NoGlitch) = "Success"
           <=> /\ MemCfg[m].bsize = RramBlockSize
               /\ FirstBlock(base, m) < RramBlocks
               /\ LastBlock(base, size, m) <= RramBlocks
               /\ \A b \in FirstBlock(base, m) .. LastBlock(base, size, m) - 1 :
                     /\ cache[b][PartPC(p, IsSecure(acc))].ns = ~IsSecure(acc)
                     /\ "R" \in acc => cache[b][PartPC(p, IsSecure(acc))].r
                     /\ "W" \in acc => cache[b][PartPC(p, IsSecure(acc))].w
<1>1. \A b, pc : CacheRead(pc, b, NoGlitch) = cache[b][pc]
  BY DEF CacheRead, NoGlitch
<1>. QED  BY <1>1 DEF ExtCheck


(* The PC a query is checked for, and the blocks the loop visits for it.   *)
QPC(q) == PartPC(q.part, IsSecure(q.acc))
QSpan(q) == FirstBlock(q.base, QMem(q)) .. LastBlock(q.base, q.size, QMem(q)) - 1

(***************************************************************************)
(* Once the MPCs are configured, ifx_mpc_memory_check grants a non-empty   *)
(* range exactly when every block the range touches grants the access to   *)
(* the caller's PC and security as TF-M sees the block: the MPC for native *)
(* memory, the attribute cache for the RRAM.  It holds for every memory    *)
(* layout, PC assignment and MPC state whose memories end below 2^32 and   *)
(* whose RRAM fits the cache: the block arithmetic of lines 814-817, the   *)
(* RW short cut and the dispatch to the external MPC check agree with that *)
(* view.                                                                   *)
(***************************************************************************)
THEOREM CheckAgreesWithGateHolds == GateGeometry => (Spec => []CheckAgreesWithGate)
<1> SUFFICES ASSUME GateGeometry PROVE Spec => []CheckAgreesWithGate
  OBVIOUS
<1>1. TypeOK => CheckAgreesWithGate
  <2> SUFFICES ASSUME TypeOK, NEW q \in Queries, ValidQuery(q), q.size > 0
               PROVE  Check(q, NoGlitch) = "Success" <=> RefAllowed(q)
    BY DEF CheckAgreesWithGate
  <2>1. CASE QMem(q) = NoMem
    BY <2>1 DEF Check, MemoryCheck, RefAllowed, QMem
  <2>2. CASE QMem(q) # NoMem /\ QPC(q) = InvalidPC
    BY <2>2 DEF Check, MemoryCheck, RefAllowed, QMem, QPC
  <2>3. CASE QMem(q) # NoMem /\ QPC(q) # InvalidPC
    <3>1. QMem(q) \in Mems /\ q.base \in Nat /\ q.size \in Nat
      BY <2>3, FindMemoryIn, MemAssumption DEF MemAssumption, Queries, QMem
    <3>2. /\ QSpan(q) = Touched(QMem(q), q.base, q.size)
          /\ FirstBlock(q.base, QMem(q)) < LastBlock(q.base, q.size, QMem(q))
          /\ LastBlock(q.base, q.size, QMem(q)) <= MemCfg[QMem(q)].blocks
      <4>1. /\ MemCfg[QMem(q)].base <= q.base
            /\ q.base + q.size <= MemLimit(QMem(q))
        BY <2>3, FindMemoryHolds DEF QMem
      <4>2. MemLimit(QMem(q)) < Word
        BY <3>1 DEF GateGeometry
      <4>. QED  BY <3>1, <4>1, <4>2, SpanIsTouched DEF QSpan
    <3>3. QPC(q) \in PCs
      BY <2>3, MemAssumption DEF MemAssumption, Queries, QPC, PartPC
    <3>4. q.acc \in SUBSET {"R", "W", "NS"} /\ IsSecure(q.acc) \in BOOLEAN
      BY DEF Queries, IsSecure
    <3>5. RefAllowed(q) <=> \A b \in QSpan(q) :
              Grants(View(QMem(q), b, QPC(q)), IF IsSecure(q.acc) THEN "S" ELSE "NS", q.acc)
      BY <2>3, <3>2 DEF RefAllowed, QPC
    <3>6. CASE ~MemCfg[QMem(q)].delegated
      <4>1. Check(q, NoGlitch) = "Success"
              <=> \A b \in QSpan(q) :
                     /\ b \in Blocks(QMem(q))
                     /\ BlockPasses(gate[<<QMem(q), b>>][QPC(q)], ExpectedSec(q.part, q.acc), q.acc)
        <5>1. Check(q, NoGlitch) = NativeCheck(q.part, QMem(q), q.base, q.size, q.acc, NoGlitch)
          BY <2>3, <3>6 DEF Check, MemoryCheck, QMem, QPC
        <5>. QED  BY <3>1, <5>1, NativeNoGlitch DEF QSpan, QPC
      <4>2. ASSUME NEW b \in QSpan(q)
            PROVE  (/\ b \in Blocks(QMem(q))
                    /\ BlockPasses(gate[<<QMem(q), b>>][QPC(q)], ExpectedSec(q.part, q.acc), q.acc))
                   <=> Grants(View(QMem(q), b, QPC(q)), IF IsSecure(q.acc) THEN "S" ELSE "NS", q.acc)
        <5>1. b \in Blocks(QMem(q))
          BY <3>2 DEF Touched
        <5>2. gate[<<QMem(q), b>>][QPC(q)] \in Attrs
          <6>1. <<QMem(q), b>> \in AllBlocks
            BY <3>1, <5>1 DEF AllBlocks
          <6>. QED  BY <3>3, <6>1 DEF TypeOK
        <5>3. View(QMem(q), b, QPC(q)) = gate[<<QMem(q), b>>][QPC(q)]
          BY <3>6 DEF View
        <5>. QED  BY <3>4, <5>1, <5>2, <5>3, PassesIsGrants, ExpectedIsCaller
      <4>. QED  BY <3>5, <4>1, <4>2
    <3>7. CASE MemCfg[QMem(q)].delegated
      <4>1. Check(q, NoGlitch) = ExtCheck(q.part, QMem(q), q.base, q.size, q.acc, NoGlitch)
        BY <2>3, <3>7 DEF Check, MemoryCheck, QMem, QPC
      <4>2. /\ MemCfg[QMem(q)].bsize = RramBlockSize
            /\ FirstBlock(q.base, QMem(q)) < RramBlocks
            /\ LastBlock(q.base, q.size, QMem(q)) <= RramBlocks
        <5>1. MemCfg[QMem(q)].bsize = RramBlockSize /\ MemCfg[QMem(q)].blocks <= RramBlocks
          BY <3>1, <3>7 DEF GateGeometry
        <5>2. FirstBlock(q.base, QMem(q)) \in Nat /\ LastBlock(q.base, q.size, QMem(q)) \in Nat
              /\ MemCfg[QMem(q)].blocks \in Nat /\ RramBlocks \in Nat
          BY <3>1, FirstBlockNat, LastBlockNat, MemFacts
        <5>. QED  BY <3>2, <5>1, <5>2, SMT
      <4>3. Check(q, NoGlitch) = "Success"
              <=> \A b \in QSpan(q) :
                     /\ cache[b][QPC(q)].ns = ~IsSecure(q.acc)
                     /\ "R" \in q.acc => cache[b][QPC(q)].r
                     /\ "W" \in q.acc => cache[b][QPC(q)].w
        BY <3>1, <4>1, <4>2, ExtNoGlitch DEF QSpan, QPC
      <4>4. ASSUME NEW b \in QSpan(q)
            PROVE  (/\ cache[b][QPC(q)].ns = ~IsSecure(q.acc)
                    /\ "R" \in q.acc => cache[b][QPC(q)].r
                    /\ "W" \in q.acc => cache[b][QPC(q)].w)
                   <=> Grants(View(QMem(q), b, QPC(q)), IF IsSecure(q.acc) THEN "S" ELSE "NS", q.acc)
        <5>1. b \in CacheIdx
          <6>1. FirstBlock(q.base, QMem(q)) \in Nat /\ LastBlock(q.base, q.size, QMem(q)) \in Nat
                /\ RramBlocks \in Nat
            BY <3>1, FirstBlockNat, LastBlockNat, MemFacts
          <6>. QED  BY <4>2, <6>1, SMT DEF QSpan, CacheIdx
        <5>2. cache[b][QPC(q)] \in CacheAttrs
          BY <3>3, <5>1 DEF TypeOK
        <5>3. View(QMem(q), b, QPC(q)) = Decode(cache[b][QPC(q)])
          BY <3>7 DEF View
        <5>. QED  BY <3>4, <5>2, <5>3, NibbleIsGrants
      <4>. QED  BY <3>5, <4>3, <4>4
    <3>. QED  BY <3>6, <3>7
  <2>. QED  BY <2>1, <2>2, <2>3
<1>. QED  BY <1>1, TypeCorrect, PTL


-----------------------------------------------------------------------------
(* The audit of ifx_mpc_verify_static_boundaries after boot.               *)

\* Two configs that share no block of any memory.
Apart(f, c) ==
    \A m \in MemsOf(f) \cap MemsOf(c) : CfgBlocks(f, m) \cap CfgBlocks(c, m) = {}

\* No fixed config overrides the blocks of an earlier one.
FixedApart ==
    \A i, j \in 1 .. Len(FixedCfgs) : i < j => Apart(FixedCfgs[i], FixedCfgs[j])

\* No numbered MMIO asset lies on the blocks of a fixed config.
AssetsApart ==
    \A a \in Assets, i \in 1 .. Len(FixedCfgs) : Apart(FixedCfgs[i], AssetCfg(a))

(* An apply of c leaves a config that shares no block with c as verified  *)
(* as it was: it rewrites only the MPC blocks and cache entries of c.      *)
LEMMA VerifyFrame ==
    ASSUME NEW f \in Cfgs, NEW c, NEW dyn, Apart(f, c), VerifyOk(f),
           gate' = ApplyGate(c, dyn), cache' = ApplyCache(c, dyn)
    PROVE  VerifyOk(f)'
<1>1. ASSUME NEW m \in MemsOf(f), ~MemCfg[m].delegated
      PROVE  NativeVerifyOk(f, m)'
  <2>1. SUFFICES ASSUME NEW b \in CfgBlocks(f, m)
                 PROVE  /\ b < MemCfg[m].blocks
                        /\ \A pc \in PCs : gate'[<<m, b>>][pc] = CfgAttr(f, pc)
    BY DEF NativeVerifyOk
  <2>2. /\ b < MemCfg[m].blocks
        /\ \A pc \in PCs : gate[<<m, b>>][pc] = CfgAttr(f, pc)
    BY <1>1 DEF VerifyOk, NativeVerifyOk
  <2>3. b \in Nat
    <3>1. f.addr \in Nat
      BY MemFacts DEF Cfgs
    <3>2. FirstBlock(f.addr, m) \in Nat
      BY <3>1, FirstBlockNat DEF MemsOf
    <3>. QED  BY <3>2 DEF CfgBlocks
  <2>4. <<m, b>> \in AllBlocks
    <3>1. m \in Mems /\ b \in Blocks(m)
      BY <2>2, <2>3, MemFacts DEF Blocks, MemsOf
    <3>. QED  BY <3>1 DEF AllBlocks
  <2>5. ~(m \in MemsOf(c) /\ b \in CfgBlocks(c, m))
    BY DEF Apart
  <2>6. gate'[<<m, b>>] = gate[<<m, b>>]
    BY <2>4, <2>5 DEF ApplyGate
  <2>. QED  BY <2>2, <2>6
<1>2. ASSUME NEW m \in MemsOf(f), MemCfg[m].delegated
      PROVE  ExtVerifyOk(f, m)'
  <2>1. CacheInfoOk(f, m)
    BY <1>2 DEF VerifyOk, ExtVerifyOk
  <2>2. SUFFICES ASSUME NEW b \in CfgBlocks(f, m), NEW pc \in f.pcs, pc >= SpmPC
                 PROVE  cache'[b][pc] = [ns |-> pc \in f.ns, r |-> pc \in f.r,
                                          w |-> pc \in f.w]
    BY <2>1 DEF ExtVerifyOk
  <2>3. cache[b][pc] = [ns |-> pc \in f.ns, r |-> pc \in f.r, w |-> pc \in f.w]
    BY <1>2, <2>2 DEF VerifyOk, ExtVerifyOk
  <2>4. b \in CacheIdx
    BY <2>1, BlockBelow, MemFacts DEF CacheInfoOk, MemsOf, CacheIdx
  <2>5. ~\E mm \in MemsOf(c) : /\ MemCfg[mm].delegated /\ ~SeSkipped(dyn)
                               /\ b \in CfgBlocks(c, mm)
    <3>1. \A mm \in MemsOf(c) : MemCfg[mm].delegated => mm = m
      BY <1>2, MemAssumption DEF MemAssumption, MemsOf
    <3>. QED  BY <3>1 DEF Apart
  <2>6. cache'[b] = cache[b]
    BY <2>4, <2>5 DEF ApplyCache
  <2>. QED  BY <2>3, <2>6
<1>. QED  BY <1>1, <1>2 DEF VerifyOk


(* A config's verification reads only the MPC blocks and the cache.       *)
LEMMA VerifyUnchanged ==
    ASSUME gate' = gate, cache' = cache, NEW f
    PROVE  VerifyOk(f)' = VerifyOk(f)
BY DEF VerifyOk, NativeVerifyOk, ExtVerifyOk

\* The fixed configs applied so far are in place, and all of them once
\* the boot is done.
AuditInv ==
    /\ phase = "apply_fixed" =>
          /\ idx \in Nat \ {0}
          /\ \A i \in 1 .. Len(FixedCfgs) : i < idx => VerifyOk(FixedCfgs[i])
    /\ phase = "booted" => AuditOk

(* The fixed-config loop of ifx_mpc_init_cfg keeps every fixed config     *)
(* applied so far verified: the one it applies by the round trip, the      *)
(* earlier ones because it does not touch their blocks.                   *)
LEMMA FixedLoopStep ==
    ASSUME FixedApart, TypeOK, AuditInv, NEW seOk, ApplyFixed(seOk)
    PROVE  AuditInv'
<1>1. phase = "apply_fixed" /\ idx \in Nat \ {0}
      /\ \A i \in 1 .. Len(FixedCfgs) : i < idx => VerifyOk(FixedCfgs[i])
  BY DEF ApplyFixed, AuditInv
<1>2. FixedCfgs \in Seq(Cfgs) /\ Len(FixedCfgs) \in Nat
  BY ConstTypes
<1>3. AfterFixed \in {"booted", "running"}
  BY DEF AfterFixed
<1>4. CASE idx <= Len(FixedCfgs)
  <2>1. StepApply(FixedCfgs[idx], seOk, AfterFixed, Len(FixedCfgs))
    BY <1>4 DEF ApplyFixed
  <2>2. CASE ApplyOk(FixedCfgs[idx], seOk, FALSE)
    <3>1. /\ gate' = ApplyGate(FixedCfgs[idx], FALSE)
          /\ cache' = ApplyCache(FixedCfgs[idx], FALSE)
          /\ IF idx < Len(FixedCfgs) THEN phase' = phase /\ idx' = idx + 1
                                     ELSE phase' = AfterFixed /\ idx' = 1
      BY <2>1, <2>2 DEF StepApply
    <3>2. FixedCfgs[idx] \in Cfgs
      BY <1>1, <1>2, <1>4
    <3>3. ASSUME NEW i \in 1 .. Len(FixedCfgs), i = idx
          PROVE  VerifyOk(FixedCfgs[i])'
      BY <2>2, <3>1, <3>2, <3>3, RoundTrip
    <3>4. ASSUME NEW i \in 1 .. Len(FixedCfgs), i < idx
          PROVE  VerifyOk(FixedCfgs[i])'
      <4>1. Apart(FixedCfgs[i], FixedCfgs[idx]) /\ FixedCfgs[i] \in Cfgs
        BY <1>1, <1>2, <1>4, <3>4 DEF FixedApart
      <4>. QED  BY <1>1, <3>1, <3>4, <4>1, VerifyFrame
    <3>5. \A i \in 1 .. Len(FixedCfgs) : i <= idx => VerifyOk(FixedCfgs[i])'
      <4>1. \A i \in 1 .. Len(FixedCfgs) : i <= idx => i < idx \/ i = idx
        BY <1>1, <1>2
      <4>. QED  BY <3>3, <3>4, <4>1
    <3>6. CASE idx < Len(FixedCfgs)
      BY <1>1, <3>1, <3>5, <3>6 DEF AuditInv
    <3>7. CASE ~(idx < Len(FixedCfgs))
      <4>1. phase' = AfterFixed /\ \A i \in 1 .. Len(FixedCfgs) : VerifyOk(FixedCfgs[i])'
        BY <1>1, <1>2, <1>4, <3>1, <3>5, <3>7
      <4>. QED  BY <1>3, <4>1 DEF AuditInv, AuditOk
    <3>. QED  BY <3>6, <3>7
  <2>3. CASE ~ApplyOk(FixedCfgs[idx], seOk, FALSE)
    BY <2>1, <2>3 DEF StepApply, AuditInv
  <2>. QED  BY <2>2, <2>3
<1>5. CASE ~(idx <= Len(FixedCfgs))
  <2>1. phase' = AfterFixed /\ gate' = gate /\ cache' = cache
    BY <1>5 DEF ApplyFixed
  <2>2. \A i \in 1 .. Len(FixedCfgs) : VerifyOk(FixedCfgs[i])
    BY <1>1, <1>2, <1>5
  <2>. QED  BY <1>3, <2>1, <2>2, VerifyUnchanged DEF AuditInv, AuditOk
<1>. QED  BY <1>4, <1>5


(* Every step keeps AuditInv: the static loop and its verification enter  *)
(* the fixed loop with idx = 1, an MMIO isolation in the booted phase     *)
(* stays off the fixed configs' blocks, and the other steps leave the     *)
(* booted phase or keep the MPCs as they are.                              *)
LEMMA AuditStep ==
    ASSUME FixedApart, AssetsApart
    PROVE  TypeOK /\ AuditInv /\ [Next]_vars => AuditInv'
<1> SUFFICES ASSUME TypeOK, AuditInv, [Next]_vars PROVE AuditInv'
  OBVIOUS
<1>1. CASE InitCfg
  BY <1>1 DEF InitCfg, AuditInv
<1>2. ASSUME NEW seOk, ApplyStatic(seOk) PROVE AuditInv'
  <2>1. AfterStatic \in {"verify_static", "apply_fixed"}
    BY DEF AfterStatic
  <2>2. \/ phase' \in {"apply_static", "verify_static", "faulted"}
        \/ phase' = "apply_fixed" /\ idx' = 1
    BY <1>2, <2>1 DEF ApplyStatic, StepApply
  <2>. QED  BY <2>2 DEF AuditInv
<1>3. CASE VerifyStatic
  <2>1. \/ phase' \in {"verify_static", "faulted"}
        \/ phase' = "apply_fixed" /\ idx' = 1
    BY <1>3 DEF VerifyStatic
  <2>. QED  BY <2>1 DEF AuditInv
<1>4. ASSUME NEW seOk, ApplyFixed(seOk) PROVE AuditInv'
  BY <1>4, FixedLoopStep
<1>5. CASE Audit
  BY <1>5 DEF Audit, AuditInv
<1>6. ASSUME NEW a \in Assets, NEW seOk, NEW dyn, IsolateNumberedMmio(a, seOk, dyn)
      PROVE  AuditInv'
  <2>1. phase \in {"booted", "running"}
    BY <1>6 DEF IsolateNumberedMmio
  <2>2. CASE ApplyOk(AssetCfg(a), seOk, dyn)
    <3>1. gate' = ApplyGate(AssetCfg(a), dyn) /\ cache' = ApplyCache(AssetCfg(a), dyn)
          /\ phase' = phase
      BY <1>6, <2>2 DEF IsolateNumberedMmio
    <3>2. ASSUME phase = "booted", NEW i \in 1 .. Len(FixedCfgs)
          PROVE  VerifyOk(FixedCfgs[i])'
      <4>1. FixedCfgs[i] \in Cfgs
        BY ConstTypes
      <4>2. Apart(FixedCfgs[i], AssetCfg(a)) /\ VerifyOk(FixedCfgs[i])
        BY <3>2 DEF AssetsApart, AuditInv, AuditOk
      <4>. QED  BY <3>1, <4>1, <4>2, VerifyFrame
    <3>. QED  BY <2>1, <3>1, <3>2 DEF AuditInv, AuditOk
  <2>3. CASE ~ApplyOk(AssetCfg(a), seOk, dyn)
    BY <1>6, <2>3 DEF IsolateNumberedMmio, AuditInv
  <2>. QED  BY <2>2, <2>3
<1>7. CASE Reboot
  BY <1>7 DEF Reboot, AuditInv
<1>8. CASE UNCHANGED vars
  <2>1. \A i \in 1 .. Len(FixedCfgs) : VerifyOk(FixedCfgs[i])' = VerifyOk(FixedCfgs[i])
    BY <1>8, VerifyUnchanged DEF vars
  <2>. QED  BY <1>8, <2>1 DEF vars, AuditInv, AuditOk
<1>. QED  BY <1>1, <1>2, <1>3, <1>4, <1>5, <1>6, <1>7, <1>8 DEF Next

(***************************************************************************)
(* When ifx_mpc_init_cfg has returned (phase "booted"), and through every *)
(* ifx_mpc_isolate_numbered_mmio of the booted phase,                      *)
(* ifx_mpc_verify_static_boundaries finds every fixed config in place, for *)
(* every memory layout, PC set and static table, given that the fixed      *)
(* configs and the MMIO assets do not share a block with an earlier fixed  *)
(* config: the fixed loop applies last and the static verification runs    *)
(* before it.                                                              *)
(***************************************************************************)
THEOREM AuditPassesAfterBootHolds ==
    FixedApart /\ AssetsApart => (Spec => []AuditPassesAfterBoot)
<1> SUFFICES ASSUME FixedApart, AssetsApart PROVE Spec => []AuditPassesAfterBoot
  OBVIOUS
<1>1. Init => AuditInv
  BY DEF Init, AuditInv
<1>2. TypeOK /\ AuditInv /\ [Next]_vars => AuditInv'
  BY AuditStep
<1>3. AuditInv => AuditPassesAfterBoot
  BY DEF AuditInv, AuditPassesAfterBoot
<1>. QED  BY <1>1, <1>2, <1>3, TypeCorrect, PTL DEF Spec

=============================================================================
