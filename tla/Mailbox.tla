------------------------------ MODULE Mailbox ------------------------------
(***************************************************************************)
(* The SPE side of the mailbox HAL (platform_spe_mailbox.c).               *)
(*                                                                         *)
(* The mailbox partition initialises the queue from a struct mailbox_init_t *)
(* whose address the NSPE sends through the IPC channel, then enters and   *)
(* leaves the critical section of the shared queue through a hardware IPC  *)
(* lock, and notifies the NSPE of replies.  The NSPE runs on another core: *)
(* it may rewrite its init struct, take and release the IPC lock and       *)
(* consume notifications at any moment, and it may send any address.       *)
(* tfm_hal_memory_check of the mailbox boundary is abstracted to "the      *)
(* range lies in NS read-write memory".                                    *)
(***************************************************************************)
EXTENDS Integers

CONSTANTS
    Ptrs,         \* the addresses the NSPE may send or store in its struct
    NsMem,        \* the NS read-write memory the mailbox partition may use
    NumSlots,     \* NUM_MAILBOX_QUEUE_SLOT
    Counts,       \* the slot_count values the NSPE may write
    InitSize,     \* sizeof(struct mailbox_init_t)
    StatusSize,   \* sizeof(*ns_init_s.status)
    SlotSize,     \* sizeof(*ns_init_s.slots)
    Debug         \* NDEBUG is not defined

ASSUME MailboxAssumption ==
    /\ Ptrs \subseteq Nat /\ NsMem \subseteq Nat
    /\ NumSlots \in Nat \ {0} /\ Counts \subseteq Nat
    /\ {InitSize, StatusSize, SlotSize} \subseteq Nat \ {0}
    /\ Debug \in BOOLEAN

InitRec == [status : Ptrs, slots : Ptrs, slot_count : Counts]

\* The static ns_init_s and s_queue fields before they are written.
ZeroInit == [status |-> 0, slots |-> 0, slot_count |-> 0]

VARIABLES
    spc,       \* where the mailbox partition is
    msg,       \* the pointer in the IPC message register; 0 before the NSPE sends
    nsinit,    \* the NSPE's struct mailbox_init_t, at the address it sent
    ptr,       \* ns_init: the address the SPE fetched
    copy,      \* ns_init_s: the SPE's copy of the struct
    squeue,    \* ns_status, ns_slots, ns_slot_count of s_queue (static, zero before)
    lock,      \* the IPC lock channel: "free", "spe" or "ns"
    incrit,    \* in_critical_section (debug builds)
    chan       \* the TF-M to NS notify channel: "empty" or "full"

vars == <<spc, msg, nsinit, ptr, copy, squeue, lock, incrit, chan>>

SpcVals == {"enable", "wait", "check_init", "copy", "check_count",
            "check_status", "check_slots", "store", "idle", "spin", "crit",
            "error", "panic"}

TypeOK ==
    /\ spc \in SpcVals
    /\ msg \in Ptrs \cup {0}
    /\ nsinit \in InitRec
    /\ ptr \in Ptrs \cup {0}
    /\ copy \in InitRec \cup {ZeroInit}
    /\ squeue \in InitRec \cup {ZeroInit}
    /\ lock \in {"free", "spe", "ns"}
    /\ incrit \in BOOLEAN
    /\ chan \in {"empty", "full"}

\* tfm_hal_memory_check(boundary, p, len, READWRITE | NS) succeeds.
RangeOk(p, len) == len > 0 /\ p .. p + len - 1 \subseteq NsMem

Init ==
    /\ spc = "enable"
    /\ msg = 0
    /\ nsinit \in InitRec
    /\ ptr = 0
    /\ copy = ZeroInit
    /\ squeue = ZeroInit
    /\ lock = "free"
    /\ incrit = FALSE
    /\ chan = "empty"

-----------------------------------------------------------------------------
(* tfm_mailbox_hal_init, one step per call that the NSPE can interleave with *)

\* ifx_mailbox_send_msg_data(IFX_NS_MAILBOX_INIT_ENABLE).
SendEnable ==
    /\ spc = "enable"
    /\ spc' = "wait"
    /\ UNCHANGED <<msg, nsinit, ptr, copy, squeue, lock, incrit, chan>>

\* ifx_mailbox_wait_for_notify and ifx_mailbox_fetch_msg_ptr.
Fetch ==
    /\ spc = "wait" /\ msg # 0
    /\ ptr' = msg
    /\ spc' = "check_init"
    /\ UNCHANGED <<msg, nsinit, copy, squeue, lock, incrit, chan>>

\* The memory check of the struct itself; a failure panics.
CheckInit ==
    /\ spc = "check_init"
    /\ spc' = IF RangeOk(ptr, InitSize) THEN "copy" ELSE "panic"
    /\ UNCHANGED <<msg, nsinit, ptr, copy, squeue, lock, incrit, chan>>

\* memcpy(&ns_init_s, ns_init, sizeof(*ns_init)).
Copy ==
    /\ spc = "copy"
    /\ copy' = nsinit
    /\ spc' = "check_count"
    /\ UNCHANGED <<msg, nsinit, ptr, squeue, lock, incrit, chan>>

\* slot_count must be 1 .. NUM_MAILBOX_QUEUE_SLOT, else MAILBOX_INIT_ERROR.
CheckCount ==
    /\ spc = "check_count"
    /\ spc' = IF copy.slot_count = 0 \/ copy.slot_count > NumSlots
              THEN "error" ELSE "check_status"
    /\ UNCHANGED <<msg, nsinit, ptr, copy, squeue, lock, incrit, chan>>

CheckStatus ==
    /\ spc = "check_status"
    /\ spc' = IF RangeOk(copy.status, StatusSize) THEN "check_slots" ELSE "panic"
    /\ UNCHANGED <<msg, nsinit, ptr, copy, squeue, lock, incrit, chan>>

CheckSlots ==
    /\ spc = "check_slots"
    /\ spc' = IF RangeOk(copy.slots, SlotSize * copy.slot_count)
              THEN "store" ELSE "panic"
    /\ UNCHANGED <<msg, nsinit, ptr, copy, squeue, lock, incrit, chan>>

StoreRefetch ==
    /\ spc = "store"
    /\ squeue' = nsinit
    /\ spc' = "idle"
    /\ UNCHANGED <<msg, nsinit, ptr, copy, lock, incrit, chan>>

\* The queue takes the checked copy; ifx_mailbox_ipc_config and
\* IFX_S_MAILBOX_READY leave no modelled state.
Store ==
    /\ spc = "store"
    /\ squeue' = copy
    /\ spc' = "idle"
    /\ UNCHANGED <<msg, nsinit, ptr, copy, lock, incrit, chan>>

-----------------------------------------------------------------------------
(* The critical section and the notification, once the service runs        *)

\* tfm_mailbox_hal_enter_critical up to the spin loop: a debug build panics
\* on a nested entry.
EnterCritical ==
    /\ spc = "idle"
    /\ IF Debug /\ incrit
       THEN /\ spc' = "panic" /\ UNCHANGED incrit
       ELSE /\ spc' = "spin" /\ incrit' = Debug
    /\ UNCHANGED <<msg, nsinit, ptr, copy, squeue, lock, chan>>

\* One Cy_IPC_Drv_LockAcquire that succeeds (a failed one changes nothing).
LockAcquire ==
    /\ spc = "spin" /\ lock = "free"
    /\ lock' = "spe"
    /\ spc' = "crit"
    /\ UNCHANGED <<msg, nsinit, ptr, copy, squeue, incrit, chan>>

\* tfm_mailbox_hal_exit_critical.
ExitCritical ==
    /\ spc = "crit"
    /\ lock' = "free"
    /\ incrit' = FALSE
    /\ spc' = "idle"
    /\ UNCHANGED <<msg, nsinit, ptr, copy, squeue, chan>>

\* tfm_mailbox_hal_notify_peer: Cy_IPC_Drv_SendMsgWord fails while the
\* channel still holds the previous notification (MAILBOX_CHAN_BUSY).
NotifyPeer ==
    /\ spc \in {"idle", "crit"}
    /\ chan' = "full"
    /\ UNCHANGED <<spc, msg, nsinit, ptr, copy, squeue, lock, incrit>>

-----------------------------------------------------------------------------
(* The NSPE core                                                           *)

\* The NSPE sends the address of its init struct, after INIT_ENABLE.
NsSend ==
    /\ spc # "enable" /\ msg = 0
    /\ \E p \in Ptrs : msg' = p
    /\ UNCHANGED <<spc, nsinit, ptr, copy, squeue, lock, incrit, chan>>

\* The NSPE rewrites its init struct at any time.
NsWrite ==
    /\ \E v \in InitRec : v # nsinit /\ nsinit' = v
    /\ UNCHANGED <<spc, msg, ptr, copy, squeue, lock, incrit, chan>>

NsLock ==
    /\ lock = "free"
    /\ lock' = "ns"
    /\ UNCHANGED <<spc, msg, nsinit, ptr, copy, squeue, incrit, chan>>

NsUnlock ==
    /\ lock = "ns"
    /\ lock' = "free"
    /\ UNCHANGED <<spc, msg, nsinit, ptr, copy, squeue, incrit, chan>>

NsReceive ==
    /\ chan = "full"
    /\ chan' = "empty"
    /\ UNCHANGED <<spc, msg, nsinit, ptr, copy, squeue, lock, incrit>>

Next ==
    \/ SendEnable \/ Fetch \/ CheckInit \/ Copy \/ CheckCount
    \/ CheckStatus \/ CheckSlots \/ Store
    \/ EnterCritical \/ LockAcquire \/ ExitCritical \/ NotifyPeer
    \/ NsSend \/ NsWrite \/ NsLock \/ NsUnlock \/ NsReceive

Spec == Init /\ [][Next]_vars

-----------------------------------------------------------------------------
(* Properties *)

(***************************************************************************)
(* The queue the mailbox service uses is the one that was checked: its     *)
(* status word and its slot_count slots lie in NS read-write memory and    *)
(* slot_count is 1 .. NUM_MAILBOX_QUEUE_SLOT, however the NSPE rewrites    *)
(* its init struct between the checks and the store (the memcpy into      *)
(* ns_init_s, tfm_mailbox_hal_init lines 90-112).                          *)
(***************************************************************************)
QueueChecked ==
    squeue # ZeroInit =>
        /\ squeue.slot_count \in 1 .. NumSlots
        /\ RangeOk(squeue.status, StatusSize)
        /\ RangeOk(squeue.slots, SlotSize * squeue.slot_count)

=============================================================================
