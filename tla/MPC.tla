------------------------------- MODULE MPC -------------------------------
(***************************************************************************)
(* The Block Gate Engine of protection_mpc_hw_mpc.c: the boot-time        *)
(* configuration of the memory protection controllers (MPCs) by           *)
(* ifx_mpc_init_cfg, the FIH audit ifx_mpc_verify_static_boundaries, the   *)
(* run-time reconfiguration ifx_mpc_isolate_numbered_mmio and the         *)
(* permission query ifx_mpc_memory_check.                                  *)
(*                                                                         *)
(* A memory is gated either by an MPC that TF-M programs itself (native)  *)
(* or by an MPC owned by the SE RT service (delegated, the RRAM).  The    *)
(* delegated gate cannot be read back, so TF-M mirrors it in the          *)
(* attribute cache ifx_mpc_se_rt_rram_attr[].                              *)
(*                                                                         *)
(* Addresses are abstracted to small naturals taken modulo Word (the      *)
(* width of uint32_t); a block is MemCfg[m].bsize addresses long.  A PC   *)
(* mask is the set of PCs whose bit is set (IFX_GET_PC(mask, pc) != 0).   *)
(***************************************************************************)
EXTENDS Naturals, FiniteSets, Sequences

CONSTANTS
    PCs,           \* protection contexts 0 .. MPC_PC_NR - 1
    SpmPC,         \* IFX_PC_TFM_SPM_ID, first PC pushed to the SE RT service
    InvalidPC,     \* FIH_INVALID: a PC that fih_int_validate rejects
    Mems,          \* the ifx_memory_config_t entries of the CM33 memory list
    MemCfg,        \* m -> [base, blocks, bsize, delegated]
    Word,          \* 2^32 in the code: uint32_t arithmetic is modulo Word
    SeBlockSize,   \* the block size of CY_MPC_SIZE_4KB
    RramBlockSize, \* IFX_SE_RT_RRAM_BLOCK_SIZE
    RramBlocks,    \* IFX_SE_RT_RRAM_BLOCK_COUNT
    StaticTables,  \* the possible ifx_mpc_static_config[] tables
    FixedCfgs,     \* ifx_fixed_mpc_static_config[] as filled at boot
    MaxFixed,      \* IFX_MAX_FIXED_CONFIGS
    Assets,        \* numbered MMIO assets [start, limit, rw, pcs, ns]
    IsolationLevel,\* TFM_ISOLATION_LEVEL
    FihOn,         \* TFM_FIH_PROFILE_ON
    FihHigh,       \* TFM_FIH_PROFILE_ON && !TFM_FIH_PROFILE_LOW
    GateReset,     \* a default MPC attribute (the value a skipped glitch carries)
    GateResets,    \* the attributes a native MPC block may hold when TF-M starts
    CacheDefault,  \* IFX_SE_RT_RRAM_MPC_DEFAULT_ATTRIBUTES, per PC
    Parts,         \* partitions (their ifx_partition_info_t)
    SecurePC,      \* part -> secure_pc
    NonSecurePC,   \* part -> non_secure_pc
    NsAgent,       \* part -> IS_NS_AGENT(p_ldinfo)
    CheckBases,    \* the base addresses memory_check is asked about
    CheckSizes,    \* the sizes memory_check is asked about
    GlitchVals     \* the values a glitched MPC read may return

Secs == {"S", "NS"}
Accs == {"D", "R", "W", "RW"}
\* cy_stc_mpc_rot_block_attr_t: what one MPC block grants one PC
Attrs == [sec : Secs, acc : Accs]
\* one nibble of ifx_mpc_se_rt_rram_attr[]: bit0 NS, bit1 R, bit2 W
CacheAttrs == [ns : BOOLEAN, r : BOOLEAN, w : BOOLEAN]
Cfgs == [addr : 0 .. Word - 1, size : 0 .. Word - 1, pcs : SUBSET PCs,
         ns : SUBSET PCs, r : SUBSET PCs, w : SUBSET PCs]

MemAssumption ==
    /\ PCs \subseteq Nat /\ SpmPC \in PCs /\ InvalidPC \notin PCs
    /\ Word \in Nat \ {0}
    /\ \A m \in Mems : /\ MemCfg[m].base \in Nat /\ MemCfg[m].bsize \in Nat \ {0}
                       /\ MemCfg[m].blocks \in Nat /\ MemCfg[m].delegated \in BOOLEAN
                       /\ MemCfg[m].base + MemCfg[m].blocks * MemCfg[m].bsize <= Word
    \* the code keeps one attribute cache: one delegated memory at most
    /\ \A m1, m2 \in Mems : MemCfg[m1].delegated /\ MemCfg[m2].delegated => m1 = m2
    /\ RramBlocks \in Nat /\ RramBlockSize \in Nat \ {0}
    /\ StaticTables \subseteq Seq(Cfgs) /\ FixedCfgs \in Seq(Cfgs)
    /\ MaxFixed \in Nat
    /\ GateReset \in Attrs /\ GateResets \subseteq Attrs /\ CacheDefault \in [PCs -> CacheAttrs]
    /\ \A p \in Parts : SecurePC[p] \in PCs \cup {InvalidPC}
                        /\ NonSecurePC[p] \in PCs \cup {InvalidPC}
                        /\ NsAgent[p] \in BOOLEAN
    /\ CheckBases \subseteq Nat /\ CheckSizes \subseteq Nat
    /\ GlitchVals \subseteq Attrs
ASSUME MemAssumption

Blocks(m) == 0 .. MemCfg[m].blocks - 1
AllBlocks == UNION {{m} \X Blocks(m) : m \in Mems}
MemLimit(m) == MemCfg[m].base + MemCfg[m].blocks * MemCfg[m].bsize
CacheIdx == 0 .. RramBlocks - 1

(* The conversions between an MPC attribute and a cache nibble.            *)
Encode(a) == [ns |-> a.sec = "NS", r |-> a.acc \in {"R", "RW"},
              w |-> a.acc \in {"W", "RW"}]
Decode(c) == [sec |-> IF c.ns THEN "NS" ELSE "S",
              acc |-> IF c.r THEN (IF c.w THEN "RW" ELSE "R")
                             ELSE (IF c.w THEN "W" ELSE "D")]

VARIABLES
    gate,      \* the block attributes every MPC enforces, native and delegated
    cache,     \* ifx_mpc_se_rt_rram_attr[]
    phase,     \* where ifx_mpc_init_cfg and the later boot stages are
    idx,       \* the loop index of the init_cfg loop being run
    static     \* ifx_mpc_static_config[] of this image

vars == <<gate, cache, phase, idx, static>>

Phases == {"reset", "apply_static", "verify_static", "apply_fixed",
           "booted", "running", "faulted"}

TypeOK ==
    /\ gate \in [AllBlocks -> [PCs -> Attrs]]
    /\ cache \in [CacheIdx -> [PCs -> CacheAttrs]]
    /\ phase \in Phases
    /\ idx \in Nat
    /\ static \in StaticTables

-----------------------------------------------------------------------------
(* Block arithmetic (IFX_MPC_BLOCK_SIZE_TO_BYTES, IFX_ROUND_UP_TO_MULTIPLE)*)

Offset(addr, m) == (addr - MemCfg[m].base) % Word
RoundUp(x, a) == ((x + a - 1) \div a) * a
FirstBlock(addr, m) == Offset(addr, m) \div MemCfg[m].bsize
LastBlock(addr, size, m) ==
    RoundUp((Offset(addr, m) + size) % Word, MemCfg[m].bsize) \div MemCfg[m].bsize
CfgBlocks(c, m) == FirstBlock(c.addr, m) .. LastBlock(c.addr, c.size, m) - 1

(* ifx_get_all_memory_configs: the memories a range touches; the range    *)
(* must lie inside the known memories.                                     *)
MemsOf(c) == {m \in Mems : c.addr < MemLimit(m) /\ MemCfg[m].base < c.addr + c.size}
Covered(c) == \A a \in c.addr .. c.addr + c.size - 1 :
                  \E m \in Mems : MemCfg[m].base <= a /\ a < MemLimit(m)

(* ifx_secure_cfg and ifx_access_cfg: what a config asks of one PC.       *)
SecureCfg(c, pc) == IF pc \in c.pcs /\ pc \in c.ns THEN "NS" ELSE "S"
AccessCfg(c, pc) ==
    IF pc \notin c.pcs THEN "D"
    ELSE IF pc \in c.r THEN (IF pc \in c.w THEN "RW" ELSE "R")
    ELSE IF pc \in c.w THEN "W" ELSE "D"
CfgAttr(c, pc) == [sec |-> SecureCfg(c, pc), acc |-> AccessCfg(c, pc)]

-----------------------------------------------------------------------------
(* ifx_mpc_apply_configuration                                             *)

\* Cy_Mpc_ConfigRotMpcStruct accepts a block range inside the MPC
NativeApplyOk(c, m) == LastBlock(c.addr, c.size, m) <= MemCfg[m].blocks

\* the SE RT service is skipped on dynamic switching in isolation level 3
SeSkipped(dyn) == IsolationLevel = 3 /\ dyn

\* ifx_mpc_external_mpc_config_to_cache_info
CacheInfoOk(c, m) ==
    /\ MemCfg[m].bsize = RramBlockSize
    /\ FirstBlock(c.addr, m) < RramBlocks
    /\ LastBlock(c.addr, c.size, m) <= RramBlocks

\* ifx_mpc_apply_configuration_with_external_mpc; seOk is the outcome of
\* every ifx_se_mpc_config_rot_mpc_struct call
ExtApplyOk(c, m, seOk, dyn) ==
    \/ SeSkipped(dyn)
    \/ /\ MemCfg[m].bsize = SeBlockSize
       /\ seOk
       /\ LastBlock(c.addr, c.size, m) <= MemCfg[m].blocks
       /\ CacheInfoOk(c, m)

ApplyOk(c, seOk, dyn) ==
    /\ MemsOf(c) # {} /\ Covered(c)
    /\ \A m \in MemsOf(c) :
          IF MemCfg[m].delegated THEN ExtApplyOk(c, m, seOk, dyn)
                                 ELSE NativeApplyOk(c, m)

\* mutant: the native loop starts at IFX_PC_TFM_SPM_ID like the external one
PushedFromSpm(m) == {pc \in PCs : pc >= SpmPC}
\* the PCs whose block attributes an apply rewrites in memory m
Pushed(m) == IF MemCfg[m].delegated THEN {pc \in PCs : pc >= SpmPC} ELSE PCs

ApplyGate(c, dyn) ==
    [bk \in AllBlocks |->
        IF /\ bk[1] \in MemsOf(c) /\ bk[2] \in CfgBlocks(c, bk[1])
           /\ ~(MemCfg[bk[1]].delegated /\ SeSkipped(dyn))
        THEN [pc \in PCs |-> IF pc \in Pushed(bk[1]) THEN CfgAttr(c, pc)
                                                    ELSE gate[bk][pc]]
        ELSE gate[bk]]

\* mutant: the cache update after the SE RT push is left out
ApplyCacheStale(c, dyn) == cache
\* lines 223-225: (attr & ~mask) | new, with the mask of c.pcs only
ApplyCache(c, dyn) ==
    [i \in CacheIdx |->
        IF \E m \in MemsOf(c) : /\ MemCfg[m].delegated /\ ~SeSkipped(dyn)
                                /\ i \in CfgBlocks(c, m)
        THEN [pc \in PCs |->
                 IF pc \in c.pcs /\ pc >= SpmPC
                 THEN [ns |-> pc \in c.ns, r |-> pc \in c.r, w |-> pc \in c.w]
                 ELSE cache[i][pc]]
        ELSE cache[i]]

-----------------------------------------------------------------------------
(* ifx_mpc_verify_configuration (FIH profile)                              *)

NativeVerifyOk(c, m) ==
    \A b \in CfgBlocks(c, m) :
        /\ b < MemCfg[m].blocks
        /\ \A pc \in PCs : gate[<<m, b>>][pc] = CfgAttr(c, pc)

ExtVerifyOk(c, m) ==
    /\ CacheInfoOk(c, m)
    /\ \A b \in CfgBlocks(c, m), pc \in c.pcs :
          pc >= SpmPC => cache[b][pc] = [ns |-> pc \in c.ns, r |-> pc \in c.r,
                                         w |-> pc \in c.w]

VerifyOk(c) ==
    /\ MemsOf(c) # {} /\ Covered(c)
    /\ \A m \in MemsOf(c) : IF MemCfg[m].delegated THEN ExtVerifyOk(c, m)
                                                  ELSE NativeVerifyOk(c, m)

-----------------------------------------------------------------------------
(* Boot: ifx_mpc_init_cfg, one step per loop iteration.                    *)

\* native blocks hold whatever the boot stages left; the SE RT service is
\* assumed to start the RRAM in the default pattern the cache is seeded with
GatesAtReset ==
    { [bk \in AllBlocks |->
          IF MemCfg[bk[1]].delegated THEN [pc \in PCs |-> Decode(CacheDefault[pc])]
                                     ELSE [pc \in PCs |-> f[bk]]] :
      f \in [AllBlocks -> GateResets] }
CacheZero == [i \in CacheIdx |-> [pc \in PCs |-> [ns |-> FALSE, r |-> FALSE, w |-> FALSE]]]

Init ==
    /\ gate \in GatesAtReset
    /\ cache = CacheZero
    /\ phase = "reset"
    /\ idx = 0
    /\ static \in StaticTables

\* mutant: the seeding loop runs to block_id <= IFX_SE_RT_RRAM_BLOCK_COUNT
InitCfgOffByOne ==
    /\ phase = "reset"
    /\ cache' = [i \in 0 .. RramBlocks |-> CacheDefault]
    /\ phase' = "apply_static" /\ idx' = 1
    /\ UNCHANGED <<gate, static>>
\* lines 585-605: fill the fixed configs (panic when too many), seed the
\* cache with the default pattern and re-read it under FIH
InitCfg ==
    /\ phase = "reset"
    /\ IF Len(FixedCfgs) > MaxFixed
       THEN phase' = "faulted" /\ UNCHANGED <<gate, cache, idx>>
       ELSE /\ cache' = [i \in CacheIdx |-> CacheDefault]
            /\ phase' = "apply_static" /\ idx' = 1
            /\ UNCHANGED gate
    /\ UNCHANGED static

\* one apply of a loop, then the next index or the next phase
StepApply(c, seOk, nextPhase, len) ==
    IF ApplyOk(c, seOk, FALSE)
    THEN /\ gate' = ApplyGate(c, FALSE) /\ cache' = ApplyCache(c, FALSE)
         /\ IF idx < len THEN phase' = phase /\ idx' = idx + 1
                         ELSE phase' = nextPhase /\ idx' = 1
    ELSE phase' = "faulted" /\ UNCHANGED <<gate, cache, idx>>

AfterStatic == IF FihOn THEN "verify_static" ELSE "apply_fixed"
AfterFixed == IF FihOn THEN "booted" ELSE "running"

\* lines 633-639
ApplyStatic(seOk) ==
    /\ phase = "apply_static"
    /\ IF idx <= Len(static)
       THEN StepApply(static[idx], seOk, AfterStatic, Len(static))
       ELSE phase' = AfterStatic /\ idx' = 1 /\ UNCHANGED <<gate, cache>>
    /\ UNCHANGED static

\* lines 649-656: the static configs are verified before the fixed ones
\* partly override them
VerifyStatic ==
    /\ phase = "verify_static"
    /\ IF idx > Len(static) THEN phase' = "apply_fixed" /\ idx' = 1
       ELSE IF VerifyOk(static[idx]) THEN idx' = idx + 1 /\ UNCHANGED phase
       ELSE phase' = "faulted" /\ UNCHANGED idx
    /\ UNCHANGED <<gate, cache, static>>

\* lines 659-665
ApplyFixed(seOk) ==
    /\ phase = "apply_fixed"
    /\ IF idx <= Len(FixedCfgs)
       THEN StepApply(FixedCfgs[idx], seOk, AfterFixed, Len(FixedCfgs))
       ELSE phase' = AfterFixed /\ idx' = 1 /\ UNCHANGED <<gate, cache>>
    /\ UNCHANGED static

\* ifx_mpc_verify_static_boundaries: every fixed config still in place
AuditOk == \A i \in 1 .. Len(FixedCfgs) : VerifyOk(FixedCfgs[i])

Audit ==
    /\ phase = "booted"
    /\ phase' = IF AuditOk THEN "running" ELSE "faulted"
    /\ UNCHANGED <<gate, cache, idx, static>>

\* ifx_mpc_isolate_numbered_mmio: R for the asset's PCs, W too if RW
AssetCfg(a) == [addr |-> a.start, size |-> (a.limit - a.start) % Word,
                pcs |-> a.pcs, ns |-> a.ns, r |-> a.pcs,
                w |-> IF a.rw THEN a.pcs ELSE {}]

IsolateNumberedMmio(a, seOk, dyn) ==
    /\ phase \in {"booted", "running"}
    /\ dyn => phase = "running"
    /\ LET c == AssetCfg(a) IN
       IF ApplyOk(c, seOk, dyn)
       THEN gate' = ApplyGate(c, dyn) /\ cache' = ApplyCache(c, dyn)
            /\ UNCHANGED phase
       ELSE phase' = "faulted" /\ UNCHANGED <<gate, cache>>
    /\ UNCHANGED <<idx, static>>

\* tfm_core_panic resets the device: every MPC and the RAM start over
Reboot ==
    /\ phase = "faulted"
    /\ gate' \in GatesAtReset /\ cache' = CacheZero
    /\ phase' = "reset" /\ idx' = 0
    /\ UNCHANGED static

Next ==
    \/ InitCfg
    \/ \E seOk \in BOOLEAN : ApplyStatic(seOk) \/ ApplyFixed(seOk)
    \/ VerifyStatic
    \/ Audit
    \/ \E a \in Assets, seOk \in BOOLEAN, dyn \in BOOLEAN :
          IsolateNumberedMmio(a, seOk, dyn)
    \/ Reboot

Spec == Init /\ [][Next]_vars

-----------------------------------------------------------------------------
(* ifx_mpc_memory_check.  A fault injection g corrupts one MPC read       *)
(* ("read1", "read2": the first or the FIH re-read of block g.blk returns *)
(* g.val) or skips the checks of one loop iteration ("skip").             *)

NoMem == "none"
AnyBlock == UNION {Blocks(m) : m \in Mems}
Glitches == [kind : {"read1", "read2"}, blk : AnyBlock, val : GlitchVals]
            \cup [kind : {"skip"}, blk : AnyBlock, val : {GateReset}]
NoGlitch == [kind |-> "none", blk |-> 0, val |-> GateReset]

\* ifx_find_memory_config: the memory holding the whole range
FindMemory(base, size) ==
    LET ms == {m \in Mems : MemCfg[m].base <= base /\ base + size <= MemLimit(m)}
    IN IF ms = {} THEN NoMem ELSE CHOOSE m \in ms : TRUE

IsSecure(acc) == "NS" \notin acc
\* IFX_GET_PARTITION_PC
PartPC(p, sec) == IF sec THEN SecurePC[p] ELSE NonSecurePC[p]
\* line 828
ExpectedSec(p, acc) == IF NsAgent[p] /\ ~IsSecure(acc) THEN "NS" ELSE "S"

\* mutant: the CY_MPC_ACCESS_RW short cut of line 885 is left out
BlockPassesNoRW(a, exp, acc) ==
    /\ a.sec = exp
    /\ "R" \in acc => a.acc = "R"
    /\ "W" \in acc => a.acc = "W"
\* lines 879-897: RW grants any access, otherwise the access must match
BlockPasses(a, exp, acc) ==
    /\ a.sec = exp
    /\ \/ a.acc = "RW"
       \/ /\ "R" \in acc => a.acc = "R"
          /\ "W" \in acc => a.acc = "W"

GateRead(m, pc, b, g, k) ==
    IF g.kind = k /\ g.blk = b THEN g.val ELSE gate[<<m, b>>][pc]

\* mutant: validated_block_count is not compared with the block span
NativeCheckUncounted(p, m, base, size, acc, g) ==
    LET pc == PartPC(p, IsSecure(acc))
        span == FirstBlock(base, m) .. LastBlock(base, size, m) - 1
        checked == {b \in span : ~(g.kind = "skip" /\ g.blk = b)}
    IN IF \A b \in checked :
              /\ b \in Blocks(m)
              /\ FihHigh => GateRead(m, pc, b, g, "read1") = GateRead(m, pc, b, g, "read2")
              /\ BlockPasses(GateRead(m, pc, b, g, "read1"), ExpectedSec(p, acc), acc)
       THEN "Success" ELSE "MemFault"
\* lines 854-905: each block read twice under FIH, and the loop counted
NativeCheck(p, m, base, size, acc, g) ==
    LET pc == PartPC(p, IsSecure(acc))
        span == FirstBlock(base, m) .. LastBlock(base, size, m) - 1
        checked == {b \in span : ~(g.kind = "skip" /\ g.blk = b)}
    IN IF /\ \A b \in checked :
              /\ b \in Blocks(m)
              /\ FihHigh => GateRead(m, pc, b, g, "read1") = GateRead(m, pc, b, g, "read2")
              /\ BlockPasses(GateRead(m, pc, b, g, "read1"), ExpectedSec(p, acc), acc)
          /\ FihHigh => Cardinality(checked) = Cardinality(span)
       THEN "Success" ELSE "MemFault"

CacheRead(pc, b, g) ==
    IF g.kind = "read1" /\ g.blk = b THEN Encode(g.val) ELSE cache[b][pc]

\* ifx_mpc_memory_check_with_external_mpc: one read of the cache per block
ExtCheck(p, m, base, size, acc, g) ==
    LET sec == IsSecure(acc)
        pc == PartPC(p, sec)
        first == FirstBlock(base, m)
        last == LastBlock(base, size, m)
    IN IF /\ MemCfg[m].bsize = RramBlockSize
          /\ first < RramBlocks /\ last <= RramBlocks
          /\ \A b \in first .. last - 1 :
                LET c == CacheRead(pc, b, g) IN
                /\ c.ns = ~sec
                /\ "R" \in acc => c.r
                /\ "W" \in acc => c.w
       THEN "Success" ELSE "MemFault"

MemoryCheck(p, base, size, acc, g) ==
    LET m == FindMemory(base, size) IN
    IF m = NoMem THEN "InvalidInput"
    ELSE IF PartPC(p, IsSecure(acc)) = InvalidPC THEN "MemFault"
    ELSE IF MemCfg[m].delegated THEN ExtCheck(p, m, base, size, acc, g)
    ELSE NativeCheck(p, m, base, size, acc, g)

-----------------------------------------------------------------------------
(* Reference semantics of a gate, independent of the code's if-chains.   *)

Queries == [part : Parts, base : CheckBases, size : CheckSizes,
            acc : SUBSET {"R", "W", "NS"}]
\* the SPM asks with TFM_HAL_ACCESS_NS only on behalf of an NS agent
ValidQuery(q) == "NS" \in q.acc => NsAgent[q.part]
QMem(q) == FindMemory(q.base, q.size)
Check(q, g) == MemoryCheck(q.part, q.base, q.size, q.acc, g)

\* what TF-M believes a block grants: the MPC, or the cache for the RRAM
View(m, b, pc) == IF MemCfg[m].delegated THEN Decode(cache[b][pc])
                                         ELSE gate[<<m, b>>][pc]
Grants(a, sec, acc) ==
    /\ a.sec = sec
    /\ "R" \in acc => a.acc \in {"R", "RW"}
    /\ "W" \in acc => a.acc \in {"W", "RW"}
\* the blocks that share an address with [base, base + size)
Touched(m, base, size) ==
    {b \in Blocks(m) : /\ MemCfg[m].base + b * MemCfg[m].bsize < base + size
                       /\ base < MemCfg[m].base + (b + 1) * MemCfg[m].bsize}
RefAllowed(q) ==
    LET m == QMem(q)
        pc == PartPC(q.part, IsSecure(q.acc))
    IN /\ m # NoMem /\ pc # InvalidPC
       /\ \A b \in Touched(m, q.base, q.size) :
             Grants(View(m, b, pc), IF IsSecure(q.acc) THEN "S" ELSE "NS", q.acc)

Configured == phase \in {"booted", "running"}

-----------------------------------------------------------------------------
(* Properties                                                              *)

(* Once the MPCs are configured, ifx_mpc_memory_check grants a non-empty  *)
(* range exactly when every block the range touches grants the access to *)
(* the caller's PC with the caller's security (per the MPC for native     *)
(* memory, per the attribute cache for the RRAM): the block arithmetic,   *)
(* the RW short-cut and the backend dispatch of the code together.        *)
CheckAgreesWithGate ==
    Configured =>
        \A q \in Queries :
            ValidQuery(q) /\ q.size > 0 =>
                (Check(q, NoGlitch) = "Success" <=> RefAllowed(q))

(* A zero-sized range has no blocks and is never a violation (spec 4.2): *)
(* ifx_mpc_memory_check must not fail it on a configured memory.           *)
ZeroSizeHasNoBlocks ==
    Configured =>
        \A q \in Queries :
            /\ ValidQuery(q) /\ q.size = 0 /\ QMem(q) # NoMem
            /\ PartPC(q.part, IsSecure(q.acc)) # InvalidPC
            => Check(q, NoGlitch) = "Success"

(* One fault injected into ifx_mpc_memory_check on natively gated memory  *)
(* (a corrupted MPC read or a skipped loop iteration) never turns a       *)
(* denied access into Success: the FIH re-read and block count catch it.  *)
NativeGlitchFailsClosed ==
    Configured =>
        \A q \in Queries, g \in Glitches :
            /\ QMem(q) # NoMem /\ ~MemCfg[QMem(q)].delegated
            /\ Check(q, g) = "Success"
            => Check(q, NoGlitch) = "Success"

(* The same for RRAM gated by the SE RT service: spec 4.2 asks that every *)
(* cache read be done twice under the hardening profile.                  *)
DelegatedGlitchFailsClosed ==
    Configured =>
        \A q \in Queries, g \in Glitches :
            /\ QMem(q) # NoMem /\ MemCfg[QMem(q)].delegated
            /\ Check(q, g) = "Success"
            => Check(q, NoGlitch) = "Success"

(* The attribute cache equals what was last pushed to the delegated MPC   *)
(* for every PC TF-M pushes (spec 3: staleness is a security bug).        *)
CacheMirrorsDelegatedGate ==
    phase \notin {"reset", "faulted"} =>
        \A bk \in AllBlocks, pc \in PCs :
            MemCfg[bk[1]].delegated /\ pc >= SpmPC =>
                Decode(cache[bk[2]][pc]) = gate[bk][pc]

(* After ifx_mpc_init_cfg returns, ifx_mpc_verify_static_boundaries finds *)
(* every fixed config in place: verifying the static configs before the   *)
(* fixed ones override them, and applying the fixed ones last, is an     *)
(* order the audit accepts.                                               *)
AuditPassesAfterBoot == phase = "booted" => AuditOk


(* Round trip (spec 8): a boot-time ifx_mpc_apply_configuration that       *)
(* succeeds leaves the MPC (native) or the attribute cache (delegated) in a *)
(* state that ifx_mpc_verify_configuration of the same config accepts: the *)
(* apply and verify paths agree on the PCs, blocks and attributes.          *)
AppliedStep(ph, tbl) ==
    \A i \in 1 .. Len(tbl) : \A c \in {tbl[i]} :
        phase = ph /\ idx = i /\ phase' # "faulted" => VerifyOk(c)'
ApplyThenVerify ==
    [][AppliedStep("apply_static", static) /\ AppliedStep("apply_fixed", FixedCfgs)]_vars

=============================================================================
