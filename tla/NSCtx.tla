------------------------------- MODULE NSCtx -------------------------------
(***************************************************************************)
(* The NS context manager of the SPM (spm/ns_client_ext/tfm_ns_ctx.c and   *)
(* get_nsid_from_active_ns_ctx of tfm_ns_ctx_s.c).                         *)
(*                                                                         *)
(* The NSPE calls acquire, release, load and save through the NS client    *)
(* extension with arguments it chooses: the model lets every call carry    *)
(* any group ID, thread ID, NSID and context index of small sets, the      *)
(* out-of-range index included.  Every function runs with IRQs disabled,   *)
(* so each call is one step.  The SPM reads the NSID of the active context *)
(* with get_nsid_from_active_ns_ctx to attribute a secure call to an NS    *)
(* client.                                                                 *)
(***************************************************************************)
EXTENDS Integers

CONSTANTS
    CtxMax,     \* TFM_NS_CONTEXT_MAX: the number of context slots
    MaxTid,     \* TFM_NS_CONTEXT_MAX_TID: the most threads of one group
    Gids,       \* group IDs the NSPE passes (uint8_t)
    Tids,       \* thread IDs the NSPE passes (uint8_t)
    Nsids       \* NS client IDs the NSPE passes to load (int32_t)

ASSUME NSCtxAssumption ==
    /\ CtxMax \in 1 .. 255
    /\ MaxTid \in 1 .. 255
    /\ Gids \subseteq 0 .. 255 /\ Tids \subseteq 0 .. 255
    /\ Nsids \subseteq Int

VARIABLES
    ctx,      \* ns_ctx_data[]: nsid, gid, tid and ref_cnt of each slot
    active    \* active_ns_ctx_index; CtxMax when no context is active

vars == <<ctx, active>>

Slots == 0 .. CtxMax - 1

\* The index argument is a uint8_t the NSPE chooses: every slot, and the
\* first invalid index.
Indexes == 0 .. CtxMax

Byte == 0 .. 255

\* TFM_NS_CLIENT_INVALID_ID (tfm_nspm.h:21).
InvalidId == 0

\* struct tfm_ns_ctx_t.
CtxRec == [nsid : Nsids \cup {0}, gid : Gids \cup {0},
           tid : Tids \cup {0}, ref_cnt : Byte]

TypeOK ==
    /\ ctx \in [Slots -> CtxRec]
    /\ active \in Indexes

\* ns_ctx_data = {0} and active_ns_ctx_index = TFM_NS_CONTEXT_MAX.
Init ==
    /\ ctx = [i \in Slots |-> [nsid |-> 0, gid |-> 0, tid |-> 0, ref_cnt |-> 0]]
    /\ active = CtxMax

Taken(i) == ctx[i].ref_cnt > 0

\* The least index of a nonempty set of slots: the slot the loop meets first.
FirstSlot(S) == CHOOSE i \in S : \A j \in S : i <= j

\* ref_cnt is a uint8_t.
Inc(n) == (n + 1) % 256

Dec(n) == (n - 1) % 256

(***************************************************************************)
(* acquire_ns_ctx: the loop looks for a taken slot of the group, which it  *)
(* reuses unless MaxTid threads share it already, and remembers the first  *)
(* empty slot, which it takes when no slot of the group exists.            *)
(***************************************************************************)
AcquireFirstFit(gid) ==
    LET Fit == {i \in Slots : ~Taken(i) \/ ctx[i].gid = gid}
    IN  /\ Fit # {}
        /\ IF Taken(FirstSlot(Fit))
           THEN /\ ctx[FirstSlot(Fit)].ref_cnt < MaxTid
                /\ ctx' = [ctx EXCEPT ![FirstSlot(Fit)].ref_cnt = Inc(@)]
           ELSE ctx' = [ctx EXCEPT ![FirstSlot(Fit)].ref_cnt = Inc(@),
                                   ![FirstSlot(Fit)].gid = gid]

AcquireNsCtx(gid) ==
    LET Empty == {i \in Slots : ~Taken(i)}
        Mine  == {i \in Slots : Taken(i) /\ ctx[i].gid = gid}
    IN  IF Mine # {}
        THEN /\ ctx[FirstSlot(Mine)].ref_cnt < MaxTid
             /\ ctx' = [ctx EXCEPT ![FirstSlot(Mine)].ref_cnt = Inc(@)]
        ELSE /\ Empty # {}
             /\ ctx' = [ctx EXCEPT ![FirstSlot(Empty)].ref_cnt = Inc(@),
                                   ![FirstSlot(Empty)].gid = gid]

Acquire(gid) ==
    /\ AcquireNsCtx(gid)
    /\ UNCHANGED active

ReleaseNoFloor(gid, tid, idx) ==
    /\ idx < CtxMax
    /\ ctx[idx].gid = gid
    /\ ctx' = IF ctx[idx].ref_cnt > 0
              THEN [ctx EXCEPT ![idx].ref_cnt = Dec(@)] ELSE ctx
    /\ active' = IF idx = active /\ ctx[idx].tid = tid THEN CtxMax ELSE active

(***************************************************************************)
(* release_ns_ctx: the active context loses its active thread only when    *)
(* that thread is released; another thread of the active context leaves   *)
(* at least one reference behind.                                          *)
(***************************************************************************)
Release(gid, tid, idx) ==
    /\ idx < CtxMax
    /\ ctx[idx].gid = gid
    /\ IF idx = active
       THEN IF ctx[idx].tid = tid
            THEN /\ ctx' = IF ctx[idx].ref_cnt > 0
                           THEN [ctx EXCEPT ![idx].ref_cnt = Dec(@)] ELSE ctx
                 /\ active' = CtxMax
            ELSE /\ ctx' = IF ctx[idx].ref_cnt > 1
                           THEN [ctx EXCEPT ![idx].ref_cnt = Dec(@)] ELSE ctx
                 /\ UNCHANGED active
       ELSE /\ ctx' = IF ctx[idx].ref_cnt > 0
                      THEN [ctx EXCEPT ![idx].ref_cnt = Dec(@)] ELSE ctx
            /\ UNCHANGED active

LoadSwapped(gid, tid, nsid, idx) ==
    /\ idx < CtxMax
    /\ ctx[idx].gid = gid /\ ctx[idx].ref_cnt # 0
    /\ ctx' = [ctx EXCEPT ![idx].tid = nsid, ![idx].nsid = tid]
    /\ active' = idx

\* load_ns_ctx: a live context of the group becomes the active one.
Load(gid, tid, nsid, idx) ==
    /\ idx < CtxMax
    /\ ctx[idx].gid = gid /\ ctx[idx].ref_cnt # 0
    /\ ctx' = [ctx EXCEPT ![idx].tid = tid, ![idx].nsid = nsid]
    /\ active' = idx

\* save_ns_ctx: the active thread of the active context switches out.
Save(gid, tid, idx) ==
    /\ idx = active /\ idx < CtxMax
    /\ ctx[idx].gid = gid /\ ctx[idx].tid = tid /\ ctx[idx].ref_cnt # 0
    /\ active' = CtxMax
    /\ UNCHANGED ctx

(***************************************************************************)
(* A call whose checks fail returns false and changes nothing; each of the *)
(* four operations is a disjunct of its own, with every argument the NSPE  *)
(* may pass.                                                               *)
(***************************************************************************)
Next ==
    \/ \E g \in Gids : Acquire(g)
    \/ \E g \in Gids, t \in Tids, i \in Indexes : Release(g, t, i)
    \/ \E g \in Gids, t \in Tids, n \in Nsids, i \in Indexes : Load(g, t, n, i)
    \/ \E g \in Gids, t \in Tids, i \in Indexes : Save(g, t, i)

Spec == Init /\ [][Next]_vars

(***************************************************************************)
(* get_nsid_from_active_ns_ctx (without TFM_NSID_IN_SHARED_DATA): the NSID *)
(* of the active context, and the invalid ID when no context is active or  *)
(* the NSID is not negative.                                               *)
(***************************************************************************)
GetNsid ==
    IF active < CtxMax /\ ctx[active].nsid < 0 THEN ctx[active].nsid
    ELSE InvalidId

-----------------------------------------------------------------------------
(* Properties *)

(***************************************************************************)
(* Whatever the NSPE calls in whatever order, an NSID that                 *)
(* get_nsid_from_active_ns_ctx hands to the SPM comes from a context some  *)
(* thread still holds: the release of the last reference, by the active   *)
(* thread or another, never leaves a dead context active, and ref_cnt     *)
(* never wraps at MaxTid.                                                  *)
(***************************************************************************)
NsidFromLiveContext ==
    GetNsid # InvalidId => ctx[active].ref_cnt > 0

(***************************************************************************)
(* A group never holds two slots at once: acquire_ns_ctx scans every slot  *)
(* for the group before it takes an empty one (tfm_ns_ctx.c:75-78).        *)
(***************************************************************************)
OneSlotPerGroup ==
    \A i, j \in Slots :
        Taken(i) /\ Taken(j) /\ ctx[i].gid = ctx[j].gid => i = j

=============================================================================
