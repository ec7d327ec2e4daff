----------------------------- MODULE SchedLock -----------------------------
(***************************************************************************)
(* The SPM scheduler lock of the IPC backend on Armv6-M/v7-M               *)
(* (spm/core/arch/tfm_arch.c, tfm_arch_v6m_v7m.c).                         *)
(*                                                                         *)
(* One thread runs tfm_arch_thread_fn_call: it masks interrupts, enters    *)
(* the SPM (which takes the scheduler lock), unmasks them, runs the SPM    *)
(* function, masks them again, leaves the SPM (which releases the lock and *)
(* re-attempts a schedule the lock deferred) and unmasks them.  Interrupt  *)
(* handlers call arch_attempt_schedule whenever PRIMASK lets them in, and  *)
(* may nest up to IrqLevels deep; the load and the store of                *)
(* arch_attempt_schedule are separate steps, so a nested handler can run   *)
(* between them.  The thread resumes only when no handler is active.       *)
(* arch_release_sched_lock is two instructions (the load of  *)
(* the old value and the store of UNLOCKED), the place where an attempt    *)
(* can be lost.  PendSV, the lowest-priority exception, runs ipc_schedule  *)
(* and the context switch as soon as it is pending and PRIMASK is clear.   *)
(***************************************************************************)
EXTENDS Naturals, Sequences

CONSTANT IrqLevels  \* nesting depth of interrupt handlers that schedule

ASSUME IrqLevelsAssumption == IrqLevels \in Nat \ {0}

VARIABLES
    lock,     \* scheduler_lock
    primask,  \* PRIMASK of the thread: TRUE after cpsid i
    tpc,      \* where the thread is in tfm_arch_thread_fn_call
    r0,       \* r0 of arch_release_sched_lock: the old value of the lock
    pendsv,   \* SCB->ICSR PENDSVSET
    owed,     \* an arch_attempt_schedule happened that no PendSV served yet
    isr       \* active handlers, innermost last: the r2 each one loaded

vars == <<lock, primask, tpc, r0, pendsv, owed, isr>>

LockVals == {"UNLOCKED", "LOCKED", "ATTEMPTED"}

ThreadPCs == {"partition", "entering", "spm", "masked", "rel_str",
              "rel_ret", "leaving"}

\* The thread is between arch_acquire_sched_lock and the store of UNLOCKED.
InSpm == tpc \in {"spm", "masked", "rel_str"}

TypeOK ==
    /\ lock \in LockVals
    /\ primask \in BOOLEAN
    /\ tpc \in ThreadPCs
    /\ r0 \in LockVals
    /\ pendsv \in BOOLEAN
    /\ owed \in BOOLEAN
    /\ isr \in Seq(LockVals) /\ Len(isr) <= IrqLevels

\* A pending PendSV, or an active handler, runs before the thread's next
\* instruction.
Preempted == (pendsv /\ ~primask) \/ isr # <<>>

Init ==
    /\ lock = "UNLOCKED"
    /\ primask = FALSE
    /\ tpc = "partition"
    /\ r0 = "UNLOCKED"
    /\ pendsv = FALSE
    /\ owed = FALSE
    /\ isr = <<>>

(***************************************************************************)
(* arch_attempt_schedule after its load: set PendSV if the loaded value   *)
(* was UNLOCKED, otherwise store ATTEMPTED in the lock word.  Returns the  *)
(* new <<lock, pendsv>>.                                                   *)
(***************************************************************************)
AttemptIgnoresLock(loaded, l, p) == <<l, TRUE>>

AttemptSchedule(loaded, l, p) ==
    IF loaded = "UNLOCKED" THEN <<l, TRUE>> ELSE <<"ATTEMPTED", p>>

\* cpsid i, then backend_abi_entering_spm takes the lock.
Call ==
    /\ tpc = "partition"
    /\ primask' = TRUE
    /\ tpc' = "entering"
    /\ UNCHANGED <<lock, r0, pendsv, owed, isr>>

\* arch_acquire_sched_lock, then cpsie i and the branch to the SPM function.
AcquireSchedLock ==
    /\ tpc = "entering"
    /\ lock' = "LOCKED"
    /\ primask' = FALSE
    /\ tpc' = "spm"
    /\ UNCHANGED <<r0, pendsv, owed, isr>>

SpmReturnUnmasked ==
    /\ tpc = "spm"
    /\ tpc' = "masked"
    /\ UNCHANGED <<lock, primask, r0, pendsv, owed, isr>>

\* The SPM function returns; cpsid i before backend_abi_leaving_spm.
SpmReturn ==
    /\ tpc = "spm"
    /\ primask' = TRUE
    /\ tpc' = "masked"
    /\ UNCHANGED <<lock, r0, pendsv, owed, isr>>

\* arch_release_sched_lock, "ldr r0, [r1]": read the old lock value.
ReleaseLoad ==
    /\ tpc = "masked"
    /\ r0' = lock
    /\ tpc' = "rel_str"
    /\ UNCHANGED <<lock, primask, pendsv, owed, isr>>

\* arch_release_sched_lock, "str r2, [r1]": store UNLOCKED.
ReleaseStore ==
    /\ tpc = "rel_str"
    /\ lock' = "UNLOCKED"
    /\ tpc' = "rel_ret"
    /\ UNCHANGED <<primask, r0, pendsv, owed, isr>>

\* backend_abi_leaving_spm: a deferred attempt is re-issued.
LeavingSpm ==
    /\ tpc = "rel_ret"
    /\ IF r0 = "ATTEMPTED"
          THEN /\ lock' = AttemptSchedule(lock, lock, pendsv)[1]
               /\ pendsv' = AttemptSchedule(lock, lock, pendsv)[2]
          ELSE UNCHANGED <<lock, pendsv>>
    /\ tpc' = "leaving"
    /\ UNCHANGED <<primask, r0, owed, isr>>

\* cpsie i and the return to the partition.
Return ==
    /\ tpc = "leaving"
    /\ primask' = FALSE
    /\ tpc' = "partition"
    /\ UNCHANGED <<lock, r0, pendsv, owed, isr>>

ThreadStep ==
    /\ ~Preempted
    /\ \/ Call \/ AcquireSchedLock \/ SpmReturn \/ ReleaseLoad
       \/ ReleaseStore \/ LeavingSpm \/ Return

\* An interrupt is taken and its handler calls arch_attempt_schedule, up to
\* "ldr r2, [r0]".
IsrLoad ==
    /\ ~primask
    /\ Len(isr) < IrqLevels
    /\ isr' = Append(isr, lock)
    /\ UNCHANGED <<lock, primask, tpc, r0, pendsv, owed>>

\* The innermost handler compares r2, stores PENDSVSET or ATTEMPTED and
\* returns.
IsrStore ==
    /\ isr # <<>>
    /\ lock' = AttemptSchedule(isr[Len(isr)], lock, pendsv)[1]
    /\ pendsv' = AttemptSchedule(isr[Len(isr)], lock, pendsv)[2]
    /\ owed' = TRUE
    /\ isr' = SubSeq(isr, 1, Len(isr) - 1)
    /\ UNCHANGED <<primask, tpc, r0>>

\* PendSV_Handler: ipc_schedule and the context switch serve the attempt.
PendSV ==
    /\ pendsv /\ ~primask /\ isr = <<>>
    /\ pendsv' = FALSE
    /\ owed' = FALSE
    /\ UNCHANGED <<lock, primask, tpc, r0, isr>>

Next == ThreadStep \/ IsrLoad \/ IsrStore \/ PendSV

(***************************************************************************)
(* The SPM path is bounded and never blocks, and an interrupt source      *)
(* cannot hold the core in handler mode forever: the handler of           *)
(* arch_attempt_schedule is a few instructions, and so the CPU keeps       *)
(* coming back to thread mode.  Each time it does, the NVIC takes a        *)
(* pending PendSV first, and otherwise the thread executes its next SPM    *)
(* step.  These steps are enabled only between handlers, so they are       *)
(* strongly fair; so is the completion of the handler at each nesting      *)
(* level, which nested handlers may delay but not forever.                 *)
(* Interrupts are not fair: none need ever arrive, and the partition need  *)
(* never call the SPM again.                                               *)
(***************************************************************************)
SpmProgress ==
    ~Preempted /\ (AcquireSchedLock \/ SpmReturn \/ ReleaseLoad
                   \/ ReleaseStore \/ LeavingSpm \/ Return)

IsrReturn(k) == Len(isr) = k /\ IsrStore

Spec ==
    Init /\ [][Next]_vars
    /\ SF_vars(SpmProgress) /\ SF_vars(PendSV)
    /\ \A k \in 1 .. IrqLevels : SF_vars(IsrReturn(k))

-----------------------------------------------------------------------------
(***************************************************************************)
(* The inductive invariant behind NoSwitchInSpm.  While the thread holds   *)
(* the lock, the lock word is not UNLOCKED, PendSV is not pending, and no  *)
(* active handler has loaded UNLOCKED; wherever PRIMASK is set by the      *)
(* thread, no handler is active; and the thread enters the SPM only with   *)
(* PendSV idle.                                                            *)
(***************************************************************************)
SchedInv ==
    /\ TypeOK
    /\ tpc \in {"entering", "masked", "rel_str", "rel_ret", "leaving"}
          => primask /\ isr = <<>>
    /\ tpc \in {"partition", "spm"} => ~primask
    /\ tpc = "entering" => ~pendsv
    /\ InSpm =>
          /\ lock \in {"LOCKED", "ATTEMPTED"}
          /\ ~pendsv
          /\ \A i \in 1 .. Len(isr) : isr[i] # "UNLOCKED"

-----------------------------------------------------------------------------
(* Properties *)

(***************************************************************************)
(* The lock's purpose (tfm_arch.c:72-75): no context switch happens while  *)
(* the SPM holds the lock, whatever interrupts arrive and whatever         *)
(* arch_attempt_schedule records meanwhile.                                *)
(***************************************************************************)
NoSwitchInSpm == [][PendSV => ~InSpm]_vars

(***************************************************************************)
(* No attempt is lost: every arch_attempt_schedule, whether it set PendSV  *)
(* or only marked the lock ATTEMPTED while the SPM held it, is eventually  *)
(* followed by a run of PendSV.  It fails if an interrupt can slip between *)
(* the load and the store of arch_release_sched_lock.                      *)
(***************************************************************************)
AttemptServed == owed ~> ~owed

=============================================================================
