# Formal models of the Infineon TF-M isolation core and storage drivers

This directory holds TLA+ models of the isolation core of the Infineon port of
TF-M (`src/src/platform/ext/target/infineon/...` and the SPM pieces it relies
on). It also holds TLC configurations that model-check them on small
instances, and TLAPS proofs of the most important properties for every value
of the constants.

## 1. The system and its parts

The isolation core decides which protection context (PC) may touch which
memory, and with which security attribute. Its parts, with their state and
operations:

| Part | Source | State | Operations |
|---|---|---|---|
| Block Gate Engine | `protection_mpc_hw_mpc.c` | per-block, per-PC attributes of every MPC; `ifx_mpc_se_rt_rram_attr[]` (the RRAM attribute cache); `ifx_fixed_mpc_static_config[]` | `ifx_mpc_init_cfg`, `ifx_mpc_verify_static_boundaries`, `ifx_mpc_isolate_numbered_mmio`, `ifx_mpc_memory_check` |
| Protection Context Resolver | `tfm_platform_arch_hooks.c` (and `IFX_GET_PARTITION_PC`) | none | pick `secure_pc` or `non_secure_pc`, validate, delay |
| Address Attribution Verifier | `protection_tz.c` | none (reads SAU/MPU through TT) | `ifx_tz_memory_check` |
| SAU configuration | `protection_sau.c` | SAU regions | `ifx_sau_cfg`, verify |
| Panic sink | `spm/core/utilities.c` | none | `tfm_core_panic`: halt or reset |
| NS context manager | `spm/ns_client_ext/tfm_ns_ctx*.c` | context slots: `gid`, `tid`, `ref_cnt`, active index | acquire, release, load, save |
| Scheduler lock | `spm/core/arch/tfm_arch.c` | `scheduler_lock` | acquire, release, attempt schedule |
| SPE mailbox HAL | `services/mailbox/platform_spe_mailbox.c` | NS queue pointers, IPC lock | init, enter and exit critical section |
| Region helpers | `utils/ifx_regions.c` | none | `ifx_is_region_inside_other`, `ifx_is_region_overlap_other` |
| ITS flash drivers | `internal_trusted_storage/flash/its_flash_ram.c`, `its_flash_nor.c`, `its_flash.c`, `its_flash_hal.h` | the RAM buffer or the NOR device | init, read, write, flush, erase |

The parts interact in three ways:
- Every isolation decision of the SPM goes through `tfm_hal_memory_check`. That
  call combines the TrustZone check with `ifx_mpc_memory_check`, and both use
  the PC resolver.
- Any failure ends in `tfm_core_panic`.
- The mailbox and the NS context code call `tfm_hal_memory_check` on pointers
  that the NSPE hands over.

Two backends gate memory:
- **Native:** TF-M programs the MPC itself through `Cy_Mpc_ConfigRotMpcStruct`
  and can read it back.
- **Delegated:** the RRAM MPC belongs to the SE RT service. TF-M pushes a
  config for each PC from `IFX_PC_TFM_SPM_ID` up, and cannot read the MPC back.
  It therefore mirrors the MPC in the attribute cache, which holds 3 bits per PC
  (NS, R, W) for each block.

The hard behaviours in this code are:
- **The boot order:** apply the static configs, verify them, then apply the
  fixed configs that partly override them. A later audit verifies only the
  fixed configs.
- **uint32 block arithmetic:** a modular offset and a rounded-up last block.
- **Single faults injected by an attacker:** the FIH double reads, the delays
  and the block counts.
- **The PC invalid sentinel.**
- Interrupt interleavings (the scheduler lock) and a second core rewriting
  shared memory (the mailbox).
- NS-controlled arguments (the mailbox, the NS context manager) and
  caller-controlled block, offset and size (the ITS drivers), whose uint32
  arithmetic can wrap.

## 2. Modules

### `MPC.tla`: the Block Gate Engine

**Constants.** The model is parameterised by:
- the memories (`Mems`, `MemCfg`: base, number of blocks, block size,
  delegated or not), with at most one delegated memory;
- the PCs and `SpmPC`, and the model value `InvalidPC`;
- `Word` (2^32 in the code: every address difference is taken modulo `Word`);
- the possible static tables, the fixed configs and their bound;
- the MMIO assets;
- the build flags (`IsolationLevel`, `FihOn`, `FihHigh`);
- the partitions with their PCs;
- the query space of `memory_check`.

**State.**

| Variable | Code |
|---|---|
| `gate[<<m, b>>][pc]` | the attribute every MPC block enforces for a PC, native and delegated |
| `cache[b][pc]` | `ifx_mpc_se_rt_rram_attr[b]`, nibble of `pc` |
| `phase`, `idx` | where `ifx_mpc_init_cfg` and the boot are; the loop index |
| `static` | `ifx_mpc_static_config[]` of this image |

**Actions.** There is one action per loop iteration or call:
- `InitCfg`: `ifx_mpc_fill_fixed_config` (with its panic), seeding the cache
  and the FIH re-read.
- `ApplyStatic`, `VerifyStatic`, `ApplyFixed`: the three loops of
  `ifx_mpc_init_cfg`. Each iteration applies a whole
  `ifx_mpc_apply_configuration` (`ApplyOk`, `ApplyGate`, `ApplyCache`).
- `Audit`: `ifx_mpc_verify_static_boundaries`.
- `IsolateNumberedMmio`: run-time isolation of an asset. `dyn` stands for the
  `IFX_ASSET_PROTECTION_PARTITION_DYNAMIC` switch, which skips the SE RT
  service in isolation level 3.
- `Reboot`: the reset of `tfm_core_panic`. A halting build simply stays
  `faulted`.

A failed apply goes to `faulted` with the gate unchanged. The code panics on
every error of `ifx_mpc_init_cfg`, and the panic resets the MPCs, so no
half-written state is ever read.

**memory_check.** `MemoryCheck` is `ifx_mpc_memory_check` for one query. It is
a pure operator over the state:
- the memory lookup, the invalid-PC MemFault and the expected security
  attribute (line 828);
- native memory: the per-block loop with the FIH double read and the
  `validated_block_count` check;
- delegated memory: the cache check of
  `ifx_mpc_memory_check_with_external_mpc`.

A fault injection `g` corrupts the first or the second read of one block, or
skips one loop iteration.

**Reference.** `RefAllowed` is a reference semantics of a gate that does not
use the code's arithmetic. A query is allowed when every block that shares an
address with `[base, base+size)` grants the access to the caller's PC with the
caller's security. The block is read from the MPC, or from the cache for the
RRAM, since that is the only view TF-M has.

### `MC_MPC.tla`: the instance TLC checks

The instance has:
- two memories of two blocks of 2 addresses each: native SRAM at 0..3 and
  delegated RRAM at 4..7;
- PCs 0..2, with the SPM at PC 1, so that PC 0 is below `IFX_PC_TFM_SPM_ID` as
  in the code;
- four possible static tables:
  - whole memories;
  - single blocks;
  - a range crossing from SRAM into RRAM, which the uint32 offset wrap rejects;
  - overlapping statics, which make the static verify fail;
- two fixed configs;
- five MMIO assets sharing block 1 of each memory;
- three partitions: a secure one, an NS agent, and one whose secure PC is the
  invalid sentinel;
- every query with base 0..7 and size 1..4, and every R/W/NS access set.

The native MPC blocks start in one of two attributes. The RRAM starts in the
default pattern the cache is seeded with.

### `SchedLock.tla`: the SPM scheduler lock

One thread runs `tfm_arch_thread_fn_call`. Interrupt handlers nest up to
`IrqLevels` deep and call `arch_attempt_schedule`, and PendSV runs the
scheduler.
- **State:** `lock` (`scheduler_lock`), `primask`, the thread's program
  counter `tpc` and register `r0`, `pendsv`, the stack `isr` of the values the
  active handlers loaded, and the history variable `owed` (an attempt that no
  PendSV has served yet).
- **Actions:** the load and the store of `arch_release_sched_lock` are separate
  actions (`ReleaseLoad`, `ReleaseStore`), as are those of
  `arch_attempt_schedule` (`IsrLoad`, `IsrStore`). A nested handler can
  therefore run between them.
- **Fairness:** strong fairness of the thread's SPM steps, of PendSV and of
  each handler's return. The code justifies it: the thread runs whenever no
  handler is active and PRIMASK is clear, and a pending PendSV is taken as soon
  as PRIMASK is clear. Interrupts themselves are not fair.

### `NSCtx.tla`: the NS context manager

`acquire_ns_ctx`, `release_ns_ctx`, `load_ns_ctx` and `save_ns_ctx` are one
action each, because every one runs with IRQs disabled. The state is the
context table (`nsid`, `gid`, `tid`, `ref_cnt`) and the active index. Every
call takes any group, thread, NSID and index of small sets, including the
out-of-range index. `GetNsid` is `get_nsid_from_active_ns_ctx`. It returns
the negative NSID of the active context, and otherwise
`TFM_NS_CLIENT_INVALID_ID`, which is 0 (`tfm_nspm.h:21`).

### `TZCheck.tla`: the TrustZone range check

This module models `ifx_tz_memory_check` and `ifx_cmse_check_address_range`.
- **Hardware:** the MPU and SAU layouts are fixed constants, chosen from small
  sets. `TT` returns what the TT instruction reports for one address.
- **Calls:** each step is one call with any boundary kind, privilege, range and
  access type. A single fault may skip one branch.
- **Reference:** `CheckSound` compares the result with a byte-by-byte check of
  the range.

### `Mailbox.tla`: the SPE mailbox HAL

`tfm_mailbox_hal_init` runs step by step: fetch the init struct, range-check
it, copy it, check the counts, status and slots, and store the queue.
Alongside it runs an NSPE core that may:
- send any address;
- rewrite its init struct at any moment;
- take and release the same hardware IPC lock.

Further parts of the model:
- **Critical section:** `tfm_mailbox_hal_enter_critical` has its acquire loop,
  and the matching exit releases the lock. The service that calls them is not
  under `src/`, so the model enters only from idle and the nested-entry panic
  of debug builds is unreachable here. No property is stated about the wait
  for the lock: if the NSPE never releases it, the partition spins forever,
  which the comment at lines 123-126 accepts.
- **Memory check:** `tfm_hal_memory_check` is abstracted to "the range lies in
  `NsMem`".
- **Initial values:** the static `ns_init_s` and `s_queue` start zeroed.

### `Sau.tla`, `MC_Sau.tla`: SAU configuration and its audit

Each register access of `ifx_sau_cfg` and of
`ifx_sau_verify_static_boundaries` is one action:
- `CfgCheck`, `Disable`, `CfgRegion`, `CfgVeneer`, `CfgUnused`, `Enable`;
- `VRegion`, `VVeneer`, `VUnused`.

The actions write and read the state `sau` through the `RNR`/`RBAR`/`RLAR`
window:

| Field | Meaning |
|---|---|
| `enable`, `allns` | the two CTRL bits |
| `rnr` | the selected region |
| `rbar`, `rlar` | the registers of each region |

**Initial state.** `Init` starts from any state in `BootStates`, because an
earlier boot stage may leave anything.

**Faults.** A fault injection may skip up to `MaxFaults` steps (`Skips`,
`Faulted`). It can skip the RNR write, the RBAR write, the RLAR write, a
clearing write, the enable, or a branch of the audit.

**Attribution.** `Attr` gives the security attribution the SAU hardware
derives from a register state:
- with the SAU disabled, ALLNS decides;
- an address in exactly one enabled region takes that region's NS or NSC;
- every other address is secure.

`Intended` is the register image that `SAU_config[]` and the veneer describe.

**The instance.** `MC_Sau` uses:
- a 32-address space with 4-byte granules;
- four SAU regions, with two configured regions and the veneer;
- three boot states: reset, and two stale enabled SAUs;
- one fault.

### `Regions.tla`: region helpers

`IsRegionInsideOther` and `IsRegionOverlapOther` are the two functions of
`ifx_regions.c`. They are pure, and nothing in the repository calls them, so
the module holds them as operators with no state. Beside them it defines
interval containment and intersection (`InsideRef`, `OverlapRef`).
`TZCheck_proofs` proves each helper equal to its reference.

### `ItsFlash.tla`, `ItsFlashRam.tla`, `ItsFlashNor.tla`: ITS flash drivers

**The contract.** `ItsFlash` is the abstract specification of
`struct its_flash_ops_t` (`its_flash_hal.h`):
- a device of `NumBlocks` blocks of `BlockSize` bytes;
- read, write, erase and flush with valid arguments only;
- every call returns `PSA_SUCCESS`;
- a history variable `call` records the operation and its arguments, so that
  a refinement cannot pass off a partial erase as a write.

**The RAM driver.** `ItsFlashRam` models `its_flash_ram.c` over the buffer
`its_block_data` of `its_flash.c`:
- `RamInit` checks the block size and the number of blocks against the buffer;
- `Rejected` is the argument check of read and write, with
  `dev->size - size` taken modulo `Word`;
- reading past the buffer returns nondeterministic bytes (`ReadOut`);
- the history variable `touched` records the bytes the last copy or memset
  reached.

**The NOR driver.** `ItsFlashNor` models `its_flash_nor.c`. The CMSIS
`ARM_DRIVER_FLASH` is given by its contract:
- ReadData and ProgramData move whole data items;
- EraseSector erases the sector that holds an address;
- with `DriverFails`, any driver call may fail.

`ReadUnaligned` is `flash_read_unaligned`, with its head, whole-items and
tail reads. `reads` records the addresses it passes to ReadData. `NorErase`
stops after `k` sectors when a call fails.

**The refinements.** Both drivers are shown to implement `ItsFlash` by
`Flash == INSTANCE ItsFlash WITH flash <- FlashView`. The mapping reads block
`b`, byte `o` at `get_phys_address(b, o)`.

## 3. Runs

| Run | cfg | Checks | Result |
|---|---|---|---|
| `mpc_boot` | `MC_MPC.cfg` | `TypeOK`, `CheckAgreesWithGate`, `NativeGlitchFailsClosed`, `AuditPassesAfterBoot`, `ApplyThenVerify` | pass |
| `mpc_cache_mirror` | `MC_MPC_CacheMirrorsDelegatedGate.cfg` | `CacheMirrorsDelegatedGate` | violation |
| `mpc_zero_size` | `MC_MPC_ZeroSizeHasNoBlocks.cfg` (sizes 0..2) | `ZeroSizeHasNoBlocks` | violation |
| `mpc_delegated_glitch` | `MC_MPC_DelegatedGlitchFailsClosed.cfg` | `DelegatedGlitchFailsClosed` | violation |
| `sched_lock` | `MC_SchedLock.cfg` (6 nested handlers) | `NoSwitchInSpm`, `AttemptServed` | pass |
| `ns_ctx` | `MC_NSCtx.cfg` (one slot, thread limit 255) | `TypeOK`, `NsidFromLiveContext` | pass |
| `tz_check` | `MC_TZCheck.cfg` | `CheckSound` | pass |
| `tz_check_gap` | `MC_TZCheck_gap.cfg` (PRIVDEFENA set) | `CheckSound` | violation |
| `mailbox` | `MC_Mailbox.cfg` | `QueueChecked` | pass |
| `sau` | `MC_Sau.cfg` | `SauNeverWider` | pass |
| `its_ram` | `MC_ItsFlashRam.cfg` | `RamIsFlash` | pass |
| `its_nor` | `MC_ItsFlashNor.cfg` | `NorIsFlash`, `ReadDataAligned` | pass |

### What the MPC properties say

- `CheckAgreesWithGate`: once configured, `memory_check` of a non-empty range
  returns Success exactly when the reference allows it. This one property
  covers the block arithmetic, the RW short cut, the NS expectation of NS
  agents, the invalid PC and the backend dispatch.
- `NativeGlitchFailsClosed`: no single fault turns a denied native check into
  Success.
- `AuditPassesAfterBoot`: the boot order (verify the statics, then apply the
  fixed configs) is one the later audit accepts.
- `ApplyThenVerify`: every boot-time apply that does not fault is accepted by a
  verify of the same config right after it.

The three MPC violations are findings, recorded in `PROJECT.json`:
- **The cache is not updated for PCs outside `pc_mask`**, while the SE RT
  service sets them to SECURE/DISABLED. The cache is then more permissive than
  the hardware.
- **A zero-sized range at an unaligned base checks one block.**
- **The external check reads the cache once**, so one fault passes.

### What the other properties say

- `NoSwitchInSpm` (action property): PendSV never switches context while the
  thread is inside the SPM lock section.
- `AttemptServed`: every scheduling attempt is eventually served, including one
  the lock deferred. A handler between the load and the store of the release
  would lose it.
- `NsidFromLiveContext`: the NSID the SPM reads always comes from a context
  with a live reference. This holds for any call sequence, with `ref_cnt` at
  its limit.
- `CheckSound`: a range that `ifx_tz_memory_check` accepts is accessible byte
  by byte, even with one skipped branch.
  - **The violation, a finding:** with PRIVDEFENA set, a range whose two ends
    lie in the default map and which covers a read-only region is accepted for
    writing.
- `QueueChecked`: the queue the mailbox stores was range-checked. This holds
  however the NSPE rewrites its struct during init, because the check and the
  store use the one copy.
- `SauNeverWider`: after a passed audit, no address is NS or NSC that the
  tables keep secure. This holds from stale boot states and with one skipped
  write or audit branch. A stale region that the clearing loop missed is caught
  by the unused-region check.
- `RamIsFlash`, `NorIsFlash` (refinement): every read returns what the last
  write or erase left, and an erase clears exactly its block.
  - The RAM run covers every buffer size of `DevSizes`, including ones that
    `its_flash_ram_init` rejects.
  - The NOR run has a 2-byte data width. Its reads at odd offsets take the
    head, items and tail paths.
- `ReadDataAligned`: every address that `flash_read_unaligned` passes to
  ReadData is aligned to the data width, as CMSIS requires.

### Mutants

Every property of a passing run has a mutant in `PROJECT.json`, and TLC finds
the property violated under that mutant. Examples:
- the unused-region check of the SAU audit dropped;
- `its_flash_ram_init` without its block-count check;
- the NOR erase stepping by the block size;
- the head read of `flash_read_unaligned` at `addr` instead of `aligned_addr`.

### Two further configurations

Two configurations are kept beside the runs to reproduce a hazard. Each
violates its property.
- **`MC_Sau_enable.cfg`** checks `SauVerified`: after a passed audit, every
  address has its intended attribution.
  - A skipped `TZ_SAU_Enable` passes the audit, because
    `ifx_sau_verify_static_boundaries` never reads `SAU->CTRL`.
  - The result fails closed only because ALLNS is clear.
- **`MC_ItsFlashNor_unaligned.cfg`** puts the flash area at address 1 with
  two-byte sectors.
  - `its_flash_nor_init` checks `block_size % sector_size` but not the area's
    alignment, so it accepts this.
  - An erase then clears a byte of the neighbouring block and leaves one of its
    own.

### Bounds

**MPC.** Two memories with two blocks each are the least that has:
- a range crossing a memory boundary;
- partial overlap of static, fixed and asset configs;
- a block that a query touches only partly.

Three PCs are the least that has a PC below the SPM PC, the SPM PC and one
above it.

**The other runs:**
- **Scheduler lock:** six nested handlers. The proof covers every depth.
- **NS contexts:** thread limit 255, so that `ref_cnt` reaches its limit.
- **SAU:** four regions, enough for two configured regions, the veneer and one
  region to clear. The stale boot regions sit at the first and the last index.
- **ITS RAM:** two blocks of two bytes in buffers of 3, 4 and 5 bytes. Three is
  one block short, and four and five fit.
- **ITS NOR:**
  - one block of four bytes at address 2;
  - sectors and data items of two bytes;
  - every read range of the block, which reaches every alignment case of
    `flash_read_unaligned`.

  Two blocks with the call history exceed the time budget. The block-to-address
  arithmetic is the same `get_phys_address` that `MC_ItsFlashNor_unaligned.cfg`
  exercises with two blocks.

### Fairness

Only `sched_lock` has a liveness property. Its fairness is described with
`SchedLock.tla` above. The boot-time functions (MPC, SAU) are sequential and
have no waiting. The mailbox has no liveness claim: its lock loop waits on the
NSPE, which the code comment at lines 124-127 allows to hold the lock.

## 4. What is proved (TLAPS)

TLC checks each property on one small instance. The theorems below hold for
every value of the constants that satisfies the module's `ASSUME` and the
hypotheses the theorem names. Each hypothesis is a fact about the build-time
tables, and TLC evaluates it on the MC instance (true there unless noted).
Each invariant is proved the usual way:
- an inductive strengthening holds initially;
- every step of `Next` (or a stutter) preserves it;
- it implies the property.

The step proofs have one case per action.

### `MPC_proofs.tla` (assumes `MemAssumption`)

- `TypeCorrect`: `Spec => []TypeOK`. The invariant is inductive as it stands.
  It rests on these lemmas:
  - `ApplyGate` and `ApplyCache` preserve the types;
  - `Decode` and `CfgAttr` always yield an attribute.
- `ApplyThenVerifyHolds`: `Spec => ApplyThenVerify`.
  - `RoundTrip` shows that a successful apply of a config makes its verify
    true in the next state, for native memory and for the cache of delegated
    memory.
  - `StaticStep` and `FixedStep` show that a non-faulting step of the two
    apply loops is such an apply.
- `NativeGlitchFailsClosedHolds`, under `FihHigh` (the high FIH profile).
  It is about `ifx_mpc_memory_check` on natively gated memory. A single fault
  (a corrupted attribute read or a skipped block iteration) never turns an
  access the unfaulted check denies into Success. The doubled gate read and
  `validated_block_count` catch it.
- `CheckAgreesWithGateHolds`: unfaulted `ifx_mpc_memory_check` grants a
  non-empty range exactly when every block it touches grants the access, as
  TF-M sees the blocks. For native memory that is the MPC itself. For
  delegated RRAM it is the attribute cache, which `mpc_cache_mirror` shows
  can differ from the SE RT MPC, so this theorem says nothing of that gap.
  It holds under `GateGeometry`:
  - every memory ends below 2^32;
  - delegated (RRAM) memory has the RRAM block size and block count.

  The lemmas show the following:
  - the rounding of the memory check (round up to a block, divide) is the
    ceiling;
  - the blocks it reads are exactly those of the range;
  - the RRAM cache mirrors the gate it was applied from.
- `AuditPassesAfterBootHolds`, under `FixedApart` and `AssetsApart`:
  - the fixed configs are pairwise block-disjoint;
  - each fixed config is block-disjoint from each asset config.

  `AuditPassesAfterBoot` alone is not inductive. The strengthening
  `AuditInv` says the following:
  - during the fixed loop, every config before `idx` still verifies;
  - once booted, the whole audit passes.

  `VerifyFrame` carries a verify across an apply of a disjoint config.
  Without the disjointness hypotheses the property is false: a later config
  that rewrites an earlier config's blocks makes the earlier one fail its
  verify.

### `SchedLock_proofs.tla`

- `NoSwitchInSpmHolds`: for every nesting depth.
- `TypeOKHolds`. No run checks `TypeOK` of this module; the theorem covers it.

Both follow from the inductive invariant `SchedInv`:
- While the thread holds the lock, the lock word is not UNLOCKED.
- PendSV is not pending then.
- No active handler has loaded UNLOCKED then.
- While the thread has PRIMASK set, no handler is active.

### `NSCtx_proofs.tla`

`NsidFromLiveContextHolds`, `OneSlotPerGroupHolds` and `TypeOKHolds` hold for
every slot count, thread limit and argument set. They follow from the
inductive invariant `NSCtxInv == TypeOK /\ ActiveLive /\ OneSlotPerGroup`.

### `Mailbox_proofs.tla`

`QueueCheckedHolds` holds for every memory layout, slot count and struct
size. It follows from the inductive invariant `MailboxInv`.

`QueueChecked` alone is not inductive. The stored queue is checked only
because the checks were made on the copy `ns_init_s`, and only `Copy` writes
that copy. `CopyChecked` records, at each stage of `tfm_mailbox_hal_init`,
what has been checked of the copy. The NSPE's later rewrites of its own
struct therefore cannot undo it.

### `ItsFlashNor_proofs.tla` (assumes `ItsFlashNorAssumption`)

`ReadDataAlignedHolds` holds for every data width in {1, 2, 4}, flash area
address, offset and size. `SplitAligned` proves the arithmetic of
`flash_read_unaligned` for each width:
- the aligned head address;
- the end of the head;
- the end of the whole items.

### `ItsFlashRam_proofs.tla`

- `InBoundsHolds`: `Spec => []InBounds` for:
  - every buffer size, block geometry and word width;
  - every argument set, including arguments whose
    `block_id * block_size + offset` wraps.

  The inductive invariant `RamInv` adds two facts:
  - the buffer size is fixed;
  - a successful init implies `block_size <= dev->size`. Without it, the
    erase check's `dev->size - block_size` would wrap.
- `RamIsFlashHolds`: `FsArgs => (Spec => RamIsFlash)`.
  - This is the refinement of the flash contract `ItsFlash` by the RAM
    driver, under the refinement mapping `FlashView`. That mapping reads
    block `b`, offset `o` at buffer index `b * block_size + o`.
  - `FsArgs` says the callers pass the contract's valid ranges, as the MC
    instance does.
  - `InitRefines` maps the initial states to `AInit`.
  - `StepRefines` maps every step to a step of `ANext` or to a stutter:
    - `WriteRefines`, `EraseRefines` and `FlushRefines` cover the three
      operations;
    - a read, and a failed call, leave the view unchanged.
  - The invariant `RefInv` supplies the buffer's type and the geometry fact,
    which `BlockAddr` uses to show the mapping never wraps.

### `TZCheck_proofs.tla`

`CheckSoundHolds`: `FihHigh /\ LayoutsOk => (Spec => []CheckSound)`.
`LayoutsOk` says the following of every layout:
- its SAU and MPU regions are 32-byte aligned;
- its MPU regions do not overlap;
- `PRIVDEFENA` is set only beside regions that grant read-write.

The argument has three parts:
- `SameUnit`, `MpuBetween` and `SauBetween` show that an address between
  two ends of a range lies in the same regions as the ends whenever the ends
  do. So TT at the two ends, compared by `ifx_tz_memory_check`, speaks for
  every byte.
- `CleanSound` gives that result for an unglitched call.
- The FIH re-check covers a glitched call.

`TzInv` records that a decided result is the checker's value on the current
request. `TT` takes the MPU and SAU programming as its first argument. So
`TTUnchanged`, which says TT does not move while the layout does not, needs
only congruence and no expansion of the instruction.

The hypothesis is needed. `MC_TZCheck_gap` breaks it with a read-only
region in the middle of privileged default-map memory under `PRIVDEFENA`.
A write range whose ends lie in the default map then spans that region.
This layout violates `LayoutsOk`, and TLC finds `CheckSound` violated there
(see the findings).

The same module proves the region helpers of `ifx_regions.c`, through
`Rg == INSTANCE Regions`:
- `InsideCorrect`: `ifx_is_region_inside_other` succeeds exactly when both
  ranges are nonempty and the first lies within the second;
- `OverlapCorrect`: `ifx_is_region_overlap_other` succeeds exactly when both
  ranges are nonempty and share an address.

Both hold for every integer argument, so they hold for every `uintptr_t`
width.

### `Sau_proofs.tla` (assumes `SauAssumption`)

`SauNeverWiderHolds`: `SauHyp => (Spec => []SauNeverWider)`. It holds for
every region count, `SAU_config[]` table, veneer and address width.
`SauHyp` has three parts:
- at most one skipped step (`MaxFaults <= 1`), the fault model the audit is
  built against;
- the boot states are SAU register states;
- every boot state has `CTRL.ALLNS` clear. This is the hazard at
  `protection_sau.c:47`: `ifx_sau_cfg` never writes ALLNS, and with ALLNS
  set a skipped `TZ_SAU_Enable` makes all memory non-secure.

TLC evaluates `SauHyp` on `MC_Sau`, where it holds.

`SauNeverWider` is not inductive. The strengthening `SauInv` adds:
- `Shape`: the loop index against the table length, at every pc;
- `CfgOk`: while `ifx_sau_cfg` runs unfaulted, the SAU is disabled and every
  region written so far matches the table (`Match`);
- `AuditOk`: during and after the audit, one of two holds.
  - Configuration was unfaulted, so the SAU is enabled and every region
    matches.
  - The single fault is spent, so the audit runs as written and every region
    it has passed matches (`Checked`).

This covers the three ways a skipped write can leave the SAU:
- a write to the wrong region after a skipped RNR;
- a stale region left by a skipped clear;
- a skipped enable.

`VerifyRegionAudit` states the shared step of `ifx_sau_verify_region`.
There is one step lemma per action, and `NextSauInv` combines them. A
passed audit ends with the index at `RegionNr`, so every region matches
(`AuditedMatch`). Then there are two cases:
- The SAU is enabled. `AttrSame` gives the intended attribution: matching
  regions give equal hit sets with equal NSC bits, so no cardinality
  reasoning is needed.
- The SAU is disabled. Every address is secure, because ALLNS stays clear.

TLC checked `SauInv` as an invariant of `MC_Sau` before the proof.

### Only model-checked

- `NorIsFlash`. It needs, for every read, the values `flash_read_unaligned`
  assembles, which a proof would handle by cases on the alignment. Only the
  alignment of its calls is proved.
- `AttemptServed`: liveness under fairness is beyond TLAPS.
- The properties the violation runs refute:
  - `CacheMirrorsDelegatedGate`, `ZeroSizeHasNoBlocks` and
    `DelegatedGlitchFailsClosed` (`MPC.tla`);
  - `CheckSound` on the gap layouts.

  A counterexample trace is their evidence. These are the findings, and no
  proof applies.

## 5. Not modelled, and why

- **NAND ITS driver:** `its_flash_nand.h` has no source in this repository.
- **ITS file system** (`its_flash_fs*.c`), the caller of the drivers: it is not
  in this repository's sources. The drivers' callers are therefore modelled by
  the contract's valid ranges. For NOR writes, these are whole program units
  (`WriteArgs`), with `program_unit` equal to the data width. Nothing in
  `its_flash_nor_init` checks that the program unit and the data width agree.
- **Failing driver calls:** the NOR model has them (`DriverFails`). The
  refinement run uses a driver that does not fail, because the contract has no
  failing call. What the file system does with a half-erased block is outside
  these sources.
- **SAU ALLNS:** `ifx_sau_cfg` never writes CTRL.ALLNS. The boot states have
  it clear, its reset value.
- **The NS context manager in shared memory:** the `TFM_NSID_IN_SHARED_DATA`
  build is not modelled.
- **Protection context resolver and panic:** modelled inside `MPC` (`PartPC`,
  `Reboot`), not as modules of their own.
- **Out of reach of the models:**
  - the CRC of the SE RT message;
  - logging;
  - the `__DMB`/`__DSB` barriers, which are taken as ordering the steps as
    written;
  - hardware read-back failures other than the injected faults.
