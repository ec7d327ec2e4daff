--------------------------- MODULE Mailbox_proofs ---------------------------
(***************************************************************************)
(* Proofs, for every memory layout, slot count and struct size, that the   *)
(* mailbox partition stores only a checked queue, whatever the NSPE core   *)
(* does meanwhile.                                                         *)
(***************************************************************************)
EXTENDS Mailbox, TLAPS

\* What tfm_mailbox_hal_init has established of ns_init_s at each stage:
\* a check passed is a fact about the copy, and nothing but Copy writes
\* the copy, so the NSPE's later rewrites of its own struct cannot undo it.
CopyChecked ==
    /\ spc \in {"check_status", "check_slots", "store"}
           => copy.slot_count \in 1 .. NumSlots
    /\ spc \in {"check_slots", "store"} => RangeOk(copy.status, StatusSize)
    /\ spc = "store" => RangeOk(copy.slots, SlotSize * copy.slot_count)

MailboxInv == TypeOK /\ CopyChecked /\ QueueChecked

LEMMA InitMailboxInv == Init => MailboxInv
BY DEF Init, MailboxInv, TypeOK, SpcVals, CopyChecked, QueueChecked

LEMMA TypeStep == TypeOK /\ [Next]_vars => TypeOK'
<1> SUFFICES ASSUME TypeOK, [Next]_vars PROVE TypeOK'
    OBVIOUS
<1>1. CASE NsSend \/ NsWrite
    BY <1>1 DEF NsSend, NsWrite, TypeOK
<1>2. CASE Fetch \/ Copy \/ Store \/ EnterCritical
    BY <1>2, MailboxAssumption DEF Fetch, Copy, Store, EnterCritical, TypeOK, SpcVals
<1>3. QED
    BY <1>1, <1>2 DEF Next, vars, TypeOK, SpcVals, SendEnable, CheckInit,
       CheckCount, CheckStatus, CheckSlots, LockAcquire, ExitCritical,
       NotifyPeer, NsLock, NsUnlock, NsReceive

\* Every step keeps the checks made on the copy.
LEMMA CopyStep == TypeOK /\ CopyChecked /\ [Next]_vars => CopyChecked'
<1> SUFFICES ASSUME TypeOK, CopyChecked, [Next]_vars PROVE CopyChecked'
    OBVIOUS
<1>1. copy.slot_count \in Nat
  <2>1. CASE copy \in InitRec
    BY <2>1, MailboxAssumption DEF InitRec
  <2>2. CASE copy = ZeroInit
    BY <2>2 DEF ZeroInit
  <2>3. QED
    BY <2>1, <2>2 DEF TypeOK
<1>2. CASE CheckCount
    BY <1>1, <1>2, MailboxAssumption DEF CheckCount, CopyChecked
<1>3. CASE CheckStatus \/ CheckSlots
    BY <1>3 DEF CheckStatus, CheckSlots, CopyChecked
<1>4. CASE SendEnable \/ Fetch \/ CheckInit \/ Copy \/ Store
    BY <1>4 DEF SendEnable, Fetch, CheckInit, Copy, Store, CopyChecked
<1>5. CASE EnterCritical \/ LockAcquire \/ ExitCritical \/ NotifyPeer
    BY <1>5 DEF EnterCritical, LockAcquire, ExitCritical, NotifyPeer, CopyChecked
<1>6. CASE NsSend \/ NsWrite \/ NsLock \/ NsUnlock \/ NsReceive \/ UNCHANGED vars
    BY <1>6 DEF NsSend, NsWrite, NsLock, NsUnlock, NsReceive, vars, CopyChecked
<1>7. QED
    BY <1>2, <1>3, <1>4, <1>5, <1>6 DEF Next

\* Only Store writes the queue, and it stores the checked copy.
LEMMA QueueStep ==
    TypeOK /\ CopyChecked /\ QueueChecked /\ [Next]_vars => QueueChecked'
<1> SUFFICES ASSUME TypeOK, CopyChecked, QueueChecked, [Next]_vars
             PROVE QueueChecked'
    OBVIOUS
<1>1. CASE Store
    BY <1>1 DEF Store, CopyChecked, QueueChecked
<1>2. CASE ~Store
    <2>1. UNCHANGED squeue
      BY <1>2 DEF Next, vars, SendEnable, Fetch, CheckInit, Copy, CheckCount,
         CheckStatus, CheckSlots, EnterCritical, LockAcquire, ExitCritical,
         NotifyPeer, NsSend, NsWrite, NsLock, NsUnlock, NsReceive
    <2>2. QED
      BY <2>1 DEF QueueChecked, RangeOk
<1>3. QED
    BY <1>1, <1>2

THEOREM MailboxInvariant == Spec => []MailboxInv
<1>1. MailboxInv /\ [Next]_vars => MailboxInv'
    BY TypeStep, CopyStep, QueueStep DEF MailboxInv
<1>2. QED
    BY InitMailboxInv, <1>1, PTL DEF Spec

(***************************************************************************)
(* The queue tfm_mailbox_hal_init stores in s_queue was range-checked and  *)
(* its slot_count bounded, for every interleaving of the NSPE's rewrites   *)
(* of its init struct with the checks: the checks read ns_init_s, the copy *)
(* that the store then uses.                                               *)
(***************************************************************************)
THEOREM QueueCheckedHolds == Spec => []QueueChecked
<1>1. MailboxInv => QueueChecked
    BY DEF MailboxInv
<1>2. QED
    BY <1>1, MailboxInvariant, PTL
=============================================================================
