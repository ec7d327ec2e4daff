-------------------------- MODULE SchedLock_proofs --------------------------
(***************************************************************************)
(* Proofs about the scheduler lock model: SchedInv is inductive, and so no *)
(* PendSV context switch happens while the SPM holds the lock, for every   *)
(* nesting depth of interrupt handlers.                                    *)
(***************************************************************************)
EXTENDS SchedLock, TLAPS

\* The nesting bound is a positive natural.
LEMMA IrqLevelsPos == IrqLevels \in Nat \ {0}
BY IrqLevelsAssumption DEF IrqLevelsAssumption

\* What arch_attempt_schedule returns is again a lock value and a flag.
LEMMA AttemptType ==
    ASSUME NEW ld \in LockVals, NEW l \in LockVals, NEW p \in BOOLEAN
    PROVE  /\ AttemptSchedule(ld, l, p)[1] \in LockVals
           /\ AttemptSchedule(ld, l, p)[2] \in BOOLEAN
BY DEF AttemptSchedule, LockVals

\* A handler that loaded something other than UNLOCKED leaves the lock held
\* and PendSV as it was.
LEMMA AttemptWhenHeld ==
    ASSUME NEW ld \in LockVals, NEW l \in LockVals, NEW p \in BOOLEAN,
           ld # "UNLOCKED"
    PROVE  /\ AttemptSchedule(ld, l, p)[1] = "ATTEMPTED"
           /\ AttemptSchedule(ld, l, p)[2] = p
BY DEF AttemptSchedule

(***************************************************************************)
(* TypeOK in two parts: the SMT backend does not prove a goal that mixes   *)
(* BOOLEAN membership with Seq, so each part is proved on its own.         *)
(***************************************************************************)
TypeScalars ==
    /\ lock \in LockVals
    /\ primask \in BOOLEAN
    /\ tpc \in ThreadPCs
    /\ r0 \in LockVals
    /\ pendsv \in BOOLEAN
    /\ owed \in BOOLEAN

TypeIsr == isr \in Seq(LockVals) /\ Len(isr) <= IrqLevels

LEMMA TypeSplit == TypeOK <=> TypeScalars /\ TypeIsr
BY Zenon DEF TypeOK, TypeScalars, TypeIsr

LEMMA InitSchedInv == Init => SchedInv
<1> SUFFICES ASSUME Init PROVE SchedInv
    OBVIOUS
<1>1. TypeScalars
    BY DEF Init, TypeScalars, LockVals, ThreadPCs
<1>2. TypeIsr
    BY IrqLevelsPos DEF Init, TypeIsr
<1>3. QED
    BY <1>1, <1>2, TypeSplit DEF Init, SchedInv, InSpm

\* The type part of SchedInv is preserved by every step.
LEMMA TypeStep == TypeOK /\ [Next]_vars => TypeOK'
<1> SUFFICES ASSUME TypeOK, [Next]_vars PROVE TypeOK'
    OBVIOUS
<1>a. TypeScalars /\ TypeIsr
    BY TypeSplit
<1>b. TypeScalars'
    <2>. USE <1>a DEF TypeScalars, LockVals, ThreadPCs
    <2>1. CASE LeavingSpm
        <3>1. AttemptSchedule(lock, lock, pendsv)[1] \in LockVals
              /\ AttemptSchedule(lock, lock, pendsv)[2] \in BOOLEAN
            BY AttemptType
        <3>2. CASE r0 = "ATTEMPTED"
            BY <2>1, <3>1, <3>2 DEF LeavingSpm, Preempted
        <3>3. CASE r0 # "ATTEMPTED"
            BY <2>1, <3>3 DEF LeavingSpm, Preempted
        <3>4. QED
            BY <3>2, <3>3
    <2>2. CASE IsrStore
        <3>1. isr # <<>> /\ isr[Len(isr)] \in LockVals
            BY <2>2, <1>a DEF IsrStore, TypeIsr
        <3>2. QED
            BY <2>2, <3>1, AttemptType DEF IsrStore
    <2>3. CASE ~LeavingSpm /\ ~IsrStore
        BY <2>3 DEF Next, ThreadStep, Call, AcquireSchedLock, SpmReturn,
                    ReleaseLoad, ReleaseStore, Return, IsrLoad, PendSV, vars
    <2>4. QED
        BY <2>1, <2>2, <2>3
<1>c. TypeIsr'
    <2>. USE <1>a, IrqLevelsPos DEF TypeIsr
    <2>1. CASE IsrLoad
        BY <2>1 DEF IsrLoad, TypeScalars
    <2>2. CASE IsrStore
        BY <2>2 DEF IsrStore
    <2>3. CASE ~IsrLoad /\ ~IsrStore
        BY <2>3 DEF Next, ThreadStep, Call, AcquireSchedLock, SpmReturn,
                    ReleaseLoad, ReleaseStore, LeavingSpm, Return, PendSV, vars
    <2>4. QED
        BY <2>1, <2>2, <2>3
<1>d. QED
    BY <1>b, <1>c, Zenon DEF TypeOK, TypeScalars, TypeIsr

LEMMA StepSchedInv == SchedInv /\ [Next]_vars => SchedInv'
<1> SUFFICES ASSUME SchedInv, [Next]_vars PROVE SchedInv'
    OBVIOUS
<1>0. TypeOK'
    BY TypeStep DEF SchedInv
<1>. USE DEF SchedInv, InSpm
<1>1. CASE ~Preempted /\ Call
    BY <1>0, <1>1 DEF Call, Preempted
<1>2. CASE ~Preempted /\ AcquireSchedLock
    BY <1>0, <1>2 DEF AcquireSchedLock, Preempted
<1>3. CASE ~Preempted /\ SpmReturn
    BY <1>0, <1>3 DEF SpmReturn, Preempted
<1>4. CASE ~Preempted /\ ReleaseLoad
    BY <1>0, <1>4 DEF ReleaseLoad, Preempted
<1>5. CASE ~Preempted /\ ReleaseStore
    BY <1>0, <1>5 DEF ReleaseStore, Preempted
<1>6. CASE ~Preempted /\ LeavingSpm
    BY <1>0, <1>6 DEF LeavingSpm, Preempted
<1>7. CASE ~Preempted /\ Return
    BY <1>0, <1>7 DEF Return, Preempted
<1>8. CASE IsrLoad
    BY <1>0, <1>8 DEF IsrLoad
<1>9. CASE IsrStore
    BY <1>0, <1>9, AttemptWhenHeld DEF IsrStore, TypeOK
<1>10. CASE PendSV
    BY <1>0, <1>10 DEF PendSV
<1>11. CASE UNCHANGED vars
    BY <1>0, <1>11 DEF vars
<1>12. QED
    BY <1>1, <1>2, <1>3, <1>4, <1>5, <1>6, <1>7, <1>8, <1>9, <1>10, <1>11
       DEF Next, ThreadStep

(***************************************************************************)
(* SchedInv holds in every reachable state, for every IrqLevels.           *)
(***************************************************************************)
THEOREM SchedInvariant == Spec => []SchedInv
BY InitSchedInv, StepSchedInv, PTL DEF Spec

(***************************************************************************)
(* The scheduler lock word, PRIMASK, the pending PendSV and the stack of   *)
(* nested handlers keep their types, and the handlers never nest deeper    *)
(* than the interrupt levels, in every reachable state.                    *)
(***************************************************************************)
THEOREM TypeOKHolds == Spec => []TypeOK
<1>1. SchedInv => TypeOK
    BY DEF SchedInv
<1>2. QED
    BY <1>1, SchedInvariant, PTL

(***************************************************************************)
(* The scheduler lock keeps PendSV_Handler (ipc_schedule and the context   *)
(* switch) out of the SPM section between arch_acquire_sched_lock and the  *)
(* store of arch_release_sched_lock, whatever interrupts nest meanwhile.   *)
(***************************************************************************)
THEOREM NoSwitchInSpmHolds == Spec => NoSwitchInSpm
<1>1. SchedInv /\ [Next]_vars => [PendSV => ~InSpm]_vars
    BY DEF SchedInv, PendSV, InSpm
<1>2. QED
    BY <1>1, SchedInvariant, PTL DEF Spec, NoSwitchInSpm

=============================================================================
