---------------------------- MODULE NSCtx_proofs ----------------------------
(***************************************************************************)
(* Proofs about the NS context manager, for every number of slots, every   *)
(* thread limit and every set of arguments the NSPE may pass: the NSID the *)
(* SPM reads always comes from a live context, and no group holds two      *)
(* slots.                                                                  *)
(***************************************************************************)
EXTENDS NSCtx, WellFoundedInduction, TLAPS

LEMMA ConstFacts ==
    /\ CtxMax \in 1 .. 255
    /\ MaxTid \in 1 .. 255
    /\ Gids \subseteq 0 .. 255 /\ Tids \subseteq 0 .. 255
    /\ Nsids \subseteq Int
BY NSCtxAssumption DEF NSCtxAssumption

\* The slot the loop of acquire_ns_ctx meets first exists and is least.
LEMMA FirstSlotLeast ==
    ASSUME NEW S \in SUBSET Nat, S # {}
    PROVE  /\ FirstSlot(S) \in S
           /\ \A j \in S : FirstSlot(S) <= j
<1>1. \E x \in S : \A y \in S : ~(<<y, x>> \in OpToRel(<, Nat))
    BY WFMin, NatLessThanWellFounded
<1>2. \E x \in S : \A y \in S : x <= y
    <2>1. PICK x \in S : \A y \in S : ~(<<y, x>> \in OpToRel(<, Nat))
        BY <1>1
    <2>2. ASSUME NEW y \in S PROVE x <= y
        <3>1. ~(y < x)
            BY <2>1, Zenon DEF OpToRel
        <3>2. QED
            BY <3>1
    <2>3. QED
        BY <2>2
<1>3. QED
    BY <1>2 DEF FirstSlot

(***************************************************************************)
(* The inductive invariant: the types, the active context is live, and no  *)
(* group holds two slots.                                                  *)
(***************************************************************************)
ActiveLive == active < CtxMax => ctx[active].ref_cnt > 0

NSCtxInv == TypeOK /\ ActiveLive /\ OneSlotPerGroup

(***************************************************************************)
(* What the updates of the model do to a context record and to the table. *)
(***************************************************************************)
LEMMA RefUpdate ==
    ASSUME NEW A, NEW B, NEW C, NEW D,
           NEW r \in [nsid : A, gid : B, tid : C, ref_cnt : D], NEW v \in D
    PROVE  /\ [r EXCEPT !.ref_cnt = v] \in [nsid : A, gid : B, tid : C, ref_cnt : D]
           /\ [r EXCEPT !.ref_cnt = v].ref_cnt = v
           /\ [r EXCEPT !.ref_cnt = v].gid = r.gid
BY Zenon

LEMMA RefGidUpdate ==
    ASSUME NEW A, NEW B, NEW C, NEW D,
           NEW r \in [nsid : A, gid : B, tid : C, ref_cnt : D],
           NEW v \in D, NEW w \in B
    PROVE  /\ [r EXCEPT !.ref_cnt = v, !.gid = w]
                 \in [nsid : A, gid : B, tid : C, ref_cnt : D]
           /\ [r EXCEPT !.ref_cnt = v, !.gid = w].ref_cnt = v
           /\ [r EXCEPT !.ref_cnt = v, !.gid = w].gid = w
BY Zenon

LEMMA TidNsidUpdate ==
    ASSUME NEW A, NEW B, NEW C, NEW D,
           NEW r \in [nsid : A, gid : B, tid : C, ref_cnt : D],
           NEW x \in C, NEW y \in A
    PROVE  /\ [r EXCEPT !.tid = x, !.nsid = y]
                 \in [nsid : A, gid : B, tid : C, ref_cnt : D]
           /\ [r EXCEPT !.tid = x, !.nsid = y].ref_cnt = r.ref_cnt
           /\ [r EXCEPT !.tid = x, !.nsid = y].gid = r.gid
BY Zenon

LEMMA SlotUpdate ==
    ASSUME NEW S, NEW R, NEW f \in [S -> R], NEW k \in S, NEW x \in R
    PROVE  /\ [f EXCEPT ![k] = x] \in [S -> R]
           /\ [f EXCEPT ![k] = x][k] = x
           /\ \A j \in S \ {k} : [f EXCEPT ![k] = x][j] = f[j]
BY Zenon

LEMMA InitNSCtxInv == Init => NSCtxInv
BY ConstFacts DEF Init, NSCtxInv, TypeOK, CtxRec, ActiveLive, OneSlotPerGroup,
                  Taken, Slots, Indexes, Byte

(***************************************************************************)
(* acquire_ns_ctx either adds a thread to the group's live slot, below the *)
(* thread limit, or gives the group the first free slot.                   *)
(***************************************************************************)
\* The two sets the loop of acquire_ns_ctx looks for.
EmptySlots == {i \in Slots : ~Taken(i)}

MineOf(g) == {i \in Slots : Taken(i) /\ ctx[i].gid = g}

LEMMA AcquireCases ==
    ASSUME NEW g, Acquire(g)
    PROVE  /\ active' = active
           /\ MineOf(g) # {} =>
                 /\ ctx[FirstSlot(MineOf(g))].ref_cnt < MaxTid
                 /\ ctx' = [ctx EXCEPT ![FirstSlot(MineOf(g))].ref_cnt = Inc(@)]
           /\ MineOf(g) = {} =>
                 /\ EmptySlots # {}
                 /\ ctx' = [ctx EXCEPT ![FirstSlot(EmptySlots)].ref_cnt = Inc(@),
                                       ![FirstSlot(EmptySlots)].gid = g]
BY Zenon DEF Acquire, AcquireNsCtx, MineOf, EmptySlots

(***************************************************************************)
(* A step that changes one slot k, keeps its group, and leaves it taken,   *)
(* or takes it for a group with no other slot, keeps the invariant.        *)
(***************************************************************************)
LEMMA OneSlotKept ==
    ASSUME OneSlotPerGroup, TypeOK, NEW k \in Slots,
           ctx' \in [Slots -> CtxRec],
           \A j \in Slots \ {k} : ctx'[j] = ctx[j],
           \/ ctx'[k].gid = ctx[k].gid /\ (Taken(k)' => Taken(k))
           \/ \A j \in Slots \ {k} : Taken(j) => ctx[j].gid # ctx'[k].gid
    PROVE  OneSlotPerGroup'
BY DEF OneSlotPerGroup, Taken, TypeOK

LEMMA AcquireStep ==
    ASSUME NSCtxInv, NEW g \in Gids, Acquire(g)
    PROVE  NSCtxInv'
<1>0. /\ CtxMax \in 1 .. 255 /\ MaxTid \in 1 .. 255
      /\ Slots \subseteq Nat /\ g \in 0 .. 255
    BY ConstFacts DEF Slots
<1>a. active' = active /\ active \in Indexes /\ ctx \in [Slots -> CtxRec]
    BY AcquireCases DEF NSCtxInv, TypeOK
<1>b. active < CtxMax => active \in Slots /\ ctx[active].ref_cnt > 0
    BY <1>0, <1>a DEF NSCtxInv, ActiveLive, Indexes, Slots
<1>1. CASE MineOf(g) # {}
    <2>p. MineOf(g) \in SUBSET Nat
        BY <1>0 DEF MineOf
    <2>0. FirstSlot(MineOf(g)) \in MineOf(g)
        BY <2>p, <1>1, FirstSlotLeast
    <2>1. PICK k \in MineOf(g) : k = FirstSlot(MineOf(g))
        BY <2>0
    <2>a. /\ k \in Slots /\ ctx[k] \in CtxRec /\ ctx[k].ref_cnt \in Byte
          /\ ctx[k].ref_cnt > 0
        BY <1>a, <2>1 DEF MineOf, Taken, CtxRec
    <2>2. /\ ctx[k].ref_cnt < MaxTid
          /\ ctx' = [ctx EXCEPT ![k].ref_cnt = Inc(@)]
        BY <1>1, <2>1, AcquireCases
    <2>3. Inc(ctx[k].ref_cnt) \in 1 .. 255
        BY <1>0, <2>a, <2>2 DEF Byte, Inc
    <2>4. /\ [ctx[k] EXCEPT !.ref_cnt = Inc(ctx[k].ref_cnt)] \in CtxRec
          /\ [ctx[k] EXCEPT !.ref_cnt = Inc(ctx[k].ref_cnt)].ref_cnt
                = Inc(ctx[k].ref_cnt)
          /\ [ctx[k] EXCEPT !.ref_cnt = Inc(ctx[k].ref_cnt)].gid = ctx[k].gid
        BY <2>a, <2>3, RefUpdate DEF CtxRec, Byte
    <2>5. /\ ctx' \in [Slots -> CtxRec]
          /\ ctx'[k].ref_cnt = Inc(ctx[k].ref_cnt)
          /\ ctx'[k].gid = ctx[k].gid
          /\ \A j \in Slots \ {k} : ctx'[j] = ctx[j]
        BY <1>a, <2>a, <2>2, <2>4, SlotUpdate
    <2>6. TypeOK'
        BY <1>a, <2>5 DEF TypeOK
    <2>7. ActiveLive'
        BY <1>a, <1>b, <2>3, <2>5 DEF ActiveLive
    <2>8. OneSlotPerGroup'
        BY <2>3, <2>5, <2>a, OneSlotKept DEF NSCtxInv, Taken
    <2>9. QED
        BY <2>6, <2>7, <2>8 DEF NSCtxInv
<1>2. CASE MineOf(g) = {}
    <2>0. EmptySlots # {}
        BY <1>2, AcquireCases
    <2>p. EmptySlots \in SUBSET Nat
        BY <1>0 DEF EmptySlots
    <2>q. FirstSlot(EmptySlots) \in EmptySlots
        BY <2>p, <2>0, FirstSlotLeast
    <2>1. PICK k \in EmptySlots : k = FirstSlot(EmptySlots)
        BY <2>q
    <2>a. k \in Slots /\ ctx[k] \in CtxRec /\ ctx[k].ref_cnt = 0
        BY <1>a, <2>1 DEF EmptySlots, Taken, CtxRec, Byte
    <2>2. ctx' = [ctx EXCEPT ![k].ref_cnt = Inc(@), ![k].gid = g]
        BY <1>2, <2>1, AcquireCases
    <2>3. Inc(ctx[k].ref_cnt) = 1 /\ Inc(ctx[k].ref_cnt) \in Byte
        BY <2>a DEF Inc, Byte
    <2>4. /\ [ctx[k] EXCEPT !.ref_cnt = Inc(ctx[k].ref_cnt), !.gid = g] \in CtxRec
          /\ [ctx[k] EXCEPT !.ref_cnt = Inc(ctx[k].ref_cnt), !.gid = g].ref_cnt
                = Inc(ctx[k].ref_cnt)
          /\ [ctx[k] EXCEPT !.ref_cnt = Inc(ctx[k].ref_cnt), !.gid = g].gid = g
        BY <2>a, <2>3, RefGidUpdate DEF CtxRec
    <2>5. /\ ctx' \in [Slots -> CtxRec]
          /\ ctx'[k].ref_cnt = 1
          /\ ctx'[k].gid = g
          /\ \A j \in Slots \ {k} : ctx'[j] = ctx[j]
        BY <1>a, <2>a, <2>2, <2>3, <2>4, SlotUpdate
    <2>6. TypeOK'
        BY <1>a, <2>5 DEF TypeOK
    <2>7. ActiveLive'
        BY <1>a, <1>b, <2>a, <2>5 DEF ActiveLive
    <2>8. OneSlotPerGroup'
        <3>1. \A j \in Slots \ {k} : Taken(j) => ctx[j].gid # ctx'[k].gid
            BY <1>2, <2>5 DEF MineOf
        <3>2. QED
            BY <2>a, <2>5, <3>1, OneSlotKept DEF NSCtxInv
    <2>9. QED
        BY <2>6, <2>7, <2>8 DEF NSCtxInv
<1>3. QED
    BY <1>1, <1>2

(***************************************************************************)
(* release_ns_ctx only lowers reference counts, and never the count of the *)
(* active context below one unless it drops the active index.              *)
(***************************************************************************)
LEMMA ReleaseStep ==
    ASSUME NSCtxInv, NEW g \in Gids, NEW t \in Tids, NEW i \in Indexes,
           Release(g, t, i)
    PROVE  NSCtxInv'
<1>0. /\ i \in Slots /\ ctx[i].gid = g /\ CtxMax \in 1 .. 255
      /\ ctx \in [Slots -> CtxRec] /\ ctx[i] \in CtxRec
      /\ ctx[i].ref_cnt \in Byte /\ active \in Indexes
    <2>1. i \in Slots /\ ctx[i].gid = g /\ CtxMax \in 1 .. 255
        BY ConstFacts DEF Release, Slots, Indexes
    <2>2. ctx \in [Slots -> CtxRec] /\ active \in Indexes
        BY DEF NSCtxInv, TypeOK
    <2>3. QED
        BY <2>1, <2>2 DEF CtxRec
<1>1. /\ ctx' \in {ctx, [ctx EXCEPT ![i].ref_cnt = Dec(@)]}
      /\ ctx[i].ref_cnt = 0 => ctx' = ctx
      /\ active' \in {active, CtxMax}
      /\ (active' = active /\ i = active) => (ctx[i].ref_cnt > 1 \/ ctx' = ctx)
    BY <1>0 DEF Release
<1>b. active < CtxMax => active \in Slots /\ ctx[active].ref_cnt > 0
    BY <1>0 DEF NSCtxInv, ActiveLive, Indexes, Slots
<1>c. active' \in Indexes /\ (active' < CtxMax => active' = active)
    BY <1>0, <1>1 DEF Indexes
<1>2. CASE ctx' = ctx
    BY <1>b, <1>c, <1>2 DEF NSCtxInv, TypeOK, ActiveLive, OneSlotPerGroup, Taken
<1>3. CASE ctx' # ctx
    <2>1. ctx' = [ctx EXCEPT ![i].ref_cnt = Dec(@)] /\ ctx[i].ref_cnt > 0
        BY <1>0, <1>1, <1>3 DEF Byte
    <2>2. Dec(ctx[i].ref_cnt) = ctx[i].ref_cnt - 1
          /\ Dec(ctx[i].ref_cnt) \in Byte
        BY <1>0, <2>1 DEF Byte, Dec
    <2>3. /\ [ctx[i] EXCEPT !.ref_cnt = Dec(ctx[i].ref_cnt)] \in CtxRec
          /\ [ctx[i] EXCEPT !.ref_cnt = Dec(ctx[i].ref_cnt)].ref_cnt
                = Dec(ctx[i].ref_cnt)
          /\ [ctx[i] EXCEPT !.ref_cnt = Dec(ctx[i].ref_cnt)].gid = ctx[i].gid
        BY <1>0, <2>2, RefUpdate DEF CtxRec
    <2>4. /\ ctx' \in [Slots -> CtxRec]
          /\ ctx'[i].ref_cnt = ctx[i].ref_cnt - 1
          /\ ctx'[i].gid = ctx[i].gid
          /\ \A j \in Slots \ {i} : ctx'[j] = ctx[j]
        BY <1>0, <2>1, <2>2, <2>3, SlotUpdate
    <2>5. TypeOK'
        BY <1>c, <2>4 DEF TypeOK
    <2>6. ActiveLive'
        <3>1. CASE active' < CtxMax /\ active = i
            <4>1. active' = active /\ active' = i
                BY <1>c, <3>1
            <4>2. ctx[i].ref_cnt > 1
                BY <1>1, <1>3, <4>1
            <4>3. QED
                BY <1>0, <2>4, <4>1, <4>2 DEF Byte, ActiveLive
        <3>2. CASE active' < CtxMax /\ active # i
            BY <1>b, <1>c, <2>4, <3>2 DEF ActiveLive
        <3>3. QED
            BY <3>1, <3>2 DEF ActiveLive
    <2>7. OneSlotPerGroup'
        BY <1>0, <2>4, OneSlotKept DEF NSCtxInv, Taken, CtxRec, Byte
    <2>8. QED
        BY <2>5, <2>6, <2>7 DEF NSCtxInv
<1>4. QED
    BY <1>2, <1>3

(***************************************************************************)
(* load_ns_ctx makes only a live context active and changes no count or   *)
(* group.                                                                  *)
(***************************************************************************)
LEMMA LoadStep ==
    ASSUME NSCtxInv, NEW g \in Gids, NEW t \in Tids, NEW n \in Nsids,
           NEW i \in Indexes, Load(g, t, n, i)
    PROVE  NSCtxInv'
<1>0. /\ i \in Slots /\ ctx[i].ref_cnt # 0 /\ active' = i
      /\ ctx' = [ctx EXCEPT ![i].tid = t, ![i].nsid = n]
      /\ ctx \in [Slots -> CtxRec] /\ ctx[i] \in CtxRec
    <2>1. i \in Slots /\ ctx[i].ref_cnt # 0 /\ active' = i
          /\ ctx' = [ctx EXCEPT ![i].tid = t, ![i].nsid = n]
        BY ConstFacts DEF Load, Slots, Indexes
    <2>2. ctx \in [Slots -> CtxRec]
        BY DEF NSCtxInv, TypeOK
    <2>3. QED
        BY <2>1, <2>2
<1>1. /\ [ctx[i] EXCEPT !.tid = t, !.nsid = n] \in CtxRec
      /\ [ctx[i] EXCEPT !.tid = t, !.nsid = n].ref_cnt = ctx[i].ref_cnt
      /\ [ctx[i] EXCEPT !.tid = t, !.nsid = n].gid = ctx[i].gid
    BY <1>0, TidNsidUpdate DEF CtxRec
<1>2. /\ ctx' \in [Slots -> CtxRec]
      /\ ctx'[i].ref_cnt = ctx[i].ref_cnt
      /\ ctx'[i].gid = ctx[i].gid
      /\ \A j \in Slots \ {i} : ctx'[j] = ctx[j]
    BY <1>0, <1>1, SlotUpdate
<1>3. ctx[i].ref_cnt > 0
    BY <1>0 DEF CtxRec, Byte
<1>4. TypeOK'
    BY <1>0, <1>2, ConstFacts DEF TypeOK, Indexes, Slots
<1>5. ActiveLive'
    BY <1>0, <1>2, <1>3 DEF ActiveLive
<1>6. OneSlotPerGroup'
    BY <1>0, <1>2, OneSlotKept DEF NSCtxInv, Taken
<1>7. QED
    BY <1>4, <1>5, <1>6 DEF NSCtxInv

LEMMA StepNSCtxInv == NSCtxInv /\ [Next]_vars => NSCtxInv'
<1> SUFFICES ASSUME NSCtxInv, [Next]_vars PROVE NSCtxInv'
    OBVIOUS
<1>1. ASSUME NEW g \in Gids, Acquire(g) PROVE NSCtxInv'
    BY <1>1, AcquireStep
<1>2. ASSUME NEW g \in Gids, NEW t \in Tids, NEW i \in Indexes,
             Release(g, t, i)
      PROVE  NSCtxInv'
    BY <1>2, ReleaseStep
<1>3. ASSUME NEW g \in Gids, NEW t \in Tids, NEW n \in Nsids,
             NEW i \in Indexes, Load(g, t, n, i)
      PROVE  NSCtxInv'
    BY <1>3, LoadStep
<1>4. ASSUME NEW g \in Gids, NEW t \in Tids, NEW i \in Indexes,
             Save(g, t, i)
      PROVE  NSCtxInv'
    BY <1>4, ConstFacts
    DEF Save, NSCtxInv, TypeOK, ActiveLive, OneSlotPerGroup, Taken, Indexes
<1>5. CASE UNCHANGED vars
    BY <1>5 DEF vars, NSCtxInv, TypeOK, ActiveLive, OneSlotPerGroup, Taken
<1>6. QED
    BY <1>1, <1>2, <1>3, <1>4, <1>5 DEF Next

THEOREM NSCtxInvariant == Spec => []NSCtxInv
BY InitNSCtxInv, StepNSCtxInv, PTL DEF Spec

(***************************************************************************)
(* The ns_ctx_data table and active_ns_ctx_index written by               *)
(* acquire_ns_ctx, release_ns_ctx and load_ns_ctx keep their types (the    *)
(* index stays in 0..TFM_NS_CONTEXT_MAX) for every number of slots.        *)
(***************************************************************************)
THEOREM TypeOKHolds == Spec => []TypeOK
<1>1. NSCtxInv => TypeOK
    BY DEF NSCtxInv
<1>2. QED
    BY <1>1, NSCtxInvariant, PTL

(***************************************************************************)
(* Whatever the NSPE calls, the NSID get_nsid_from_active_ns_ctx hands to  *)
(* the SPM comes from a context some NS thread still holds.                *)
(***************************************************************************)
THEOREM NsidFromLiveContextHolds == Spec => []NsidFromLiveContext
<1>1. NSCtxInv => NsidFromLiveContext
    BY DEF NSCtxInv, ActiveLive, NsidFromLiveContext, GetNsid
<1>2. QED
    BY <1>1, NSCtxInvariant, PTL

(***************************************************************************)
(* acquire_ns_ctx never gives one group two context slots, for any number  *)
(* of slots.                                                               *)
(***************************************************************************)
THEOREM OneSlotPerGroupHolds == Spec => []OneSlotPerGroup
<1>1. NSCtxInv => OneSlotPerGroup
    BY DEF NSCtxInv
<1>2. QED
    BY <1>1, NSCtxInvariant, PTL

=============================================================================
