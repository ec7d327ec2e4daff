--------------------------- MODULE TZCheck_proofs ---------------------------
(***************************************************************************)
(* Proof that ifx_tz_memory_check under the high FIH profile grants only   *)
(* ranges every byte of which the caller may access, for every address    *)
(* width, alignment unit, request and MPU and SAU layout that respects the *)
(* rules the check relies on.                                              *)
(***************************************************************************)
EXTENDS TZCheck, FiniteSetTheorems, TLAPS

\* A region of [lo, hi] that starts and ends on an alignment unit.
Aligned(rg) == rg.lo % Granule = 0 /\ (rg.hi + 1) % Granule = 0

\* An MPU of the platform: aligned regions that do not overlap, and a
\* privileged default map only beside regions that grant what it grants.
MpuOk(m) ==
    /\ m.enable \in BOOLEAN /\ m.privdef \in BOOLEAN
    /\ \A i \in DOMAIN m.regions :
          /\ m.regions[i].lo \in Int /\ m.regions[i].hi \in Int
          /\ m.regions[i].rw \in BOOLEAN /\ m.regions[i].up \in BOOLEAN
          /\ Aligned(m.regions[i])
    /\ \A i, j \in DOMAIN m.regions :
          i # j => m.regions[i].hi < m.regions[j].lo \/ m.regions[j].hi < m.regions[i].lo
    /\ m.enable /\ m.privdef => \A i \in DOMAIN m.regions : m.regions[i].rw

\* Aligned SAU regions.
SauOk(s) ==
    \A j \in DOMAIN s : s[j].lo \in Int /\ s[j].hi \in Int /\ Aligned(s[j])

\* The layouts the platform boots with.
LayoutsOk ==
    \A l \in Layouts : MpuOk(l.smpu) /\ MpuOk(l.nsmpu) /\ SauOk(l.sau)

-----------------------------------------------------------------------------
(* The TT result as a function of the regions an address hits. *)

Mpu(ns) == IF ns THEN layout.nsmpu ELSE layout.smpu

Hits(m, a) == {i \in DOMAIN m.regions : m.regions[i].lo <= a /\ a <= m.regions[i].hi}

SHits(a) == {j \in DOMAIN layout.sau : layout.sau[j].lo <= a /\ a <= layout.sau[j].hi}

One(m, a) == m.enable /\ Cardinality(Hits(m, a)) = 1

Reg(m, a) == CHOOSE i \in Hits(m, a) : TRUE

MpuRead(m, a, up) ==
    IF One(m, a) THEN ~up \/ m.regions[Reg(m, a)].up
    ELSE ~m.enable \/ (Hits(m, a) = {} /\ m.privdef /\ ~up)

MpuReadWrite(m, a, up) == MpuRead(m, a, up) /\ (One(m, a) => m.regions[Reg(m, a)].rw)

LEMMA TTFields ==
    ASSUME NEW a, NEW ns, NEW up
    PROVE  LET t == TT(layout, a, ns, up)
               m == Mpu(ns)
           IN  /\ t.mrvalid = One(m, a)
               /\ t.mregion = IF One(m, a) THEN Reg(m, a) ELSE 0
               /\ t.srvalid = (SHits(a) # {})
               /\ t.sregion = IF SHits(a) # {} THEN CHOOSE j \in SHits(a) : TRUE ELSE 0
               /\ t.read_ok = MpuRead(m, a, up)
               /\ t.readwrite_ok = MpuReadWrite(m, a, up)
               /\ t.secure = (SHits(a) = {})
               /\ t.nonsecure_read_ok = (MpuRead(m, a, up) /\ SHits(a) # {})
               /\ t.nonsecure_readwrite_ok = (MpuReadWrite(m, a, up) /\ SHits(a) # {})
BY DEF TT, Mpu, Hits, SHits, One, Reg, MpuRead, MpuReadWrite

-----------------------------------------------------------------------------
(* The flags of lines 151-179 and what the second switch grants with them. *)

\* Whether the caller is the TrustZone agent, unprivileged, and writing.
IsNs(r) == r.kind = "tz_agent"
IsUp(r) == IF IsNs(r) THEN r.npriv ELSE ~r.priv
IsWr(r) == {"R", "W"} \subseteq r.access

LEMMA FlagsKnown ==
    ASSUME NEW r \in Requests
    PROVE  /\ FlagsOf(r) \ Known = {}
           /\ ("MPU_NS" \in FlagsOf(r)) = IsNs(r)
           /\ ("UNPRIV" \in FlagsOf(r)) = IsUp(r)
BY DEF FlagsOf, Known, NonSecure, IsNs, IsUp, Requests

\* The second switch grants exactly what the reference asks of one byte.
LEMMA GrantedRef ==
    ASSUME NEW r \in Requests, NEW t,
           t.nonsecure_read_ok = (t.read_ok /\ ~t.secure),
           t.nonsecure_readwrite_ok = (t.readwrite_ok /\ ~t.secure)
    PROVE  Granted(t, FlagsOf(r) \ KnownSecureLevel)
             <=> (IF IsWr(r) THEN t.readwrite_ok ELSE t.read_ok) /\ (IsNs(r) => ~t.secure)
<1>1. CASE IsNs(r) /\ IsWr(r)
  <2>1. FlagsOf(r) \ KnownSecureLevel = {"READWRITE", "AU_NS"}
    BY <1>1 DEF FlagsOf, IsNs, IsWr, NonSecure, KnownSecureLevel
  <2>2. Granted(t, {"READWRITE", "AU_NS"}) = t.nonsecure_readwrite_ok
    <3>1. /\ {"READWRITE", "AU_NS"} # {"READ", "AU_NS"}
          /\ {"READWRITE", "AU_NS"} # {"AU_NS"}
          /\ {"READWRITE", "AU_NS"} # {"READ", "READWRITE"}
          /\ {"READWRITE", "AU_NS"} # {"READWRITE"}
          /\ {"READWRITE", "AU_NS"} # {"READ"}
      BY "READ" \notin {"READWRITE", "AU_NS"}, "AU_NS" \notin {"READ", "READWRITE"},
         "AU_NS" \notin {"READWRITE"}, "AU_NS" \notin {"READ"}
    <3>. QED  BY <3>1 DEF Granted
  <2>. QED  BY <1>1, <2>1, <2>2
<1>2. CASE IsNs(r) /\ ~IsWr(r)
  <2>1. FlagsOf(r) \ KnownSecureLevel = {"READ", "AU_NS"}
    BY <1>2 DEF FlagsOf, IsNs, IsWr, NonSecure, KnownSecureLevel
  <2>2. /\ {"READ", "AU_NS"} # {"READ", "READWRITE", "AU_NS"}
        /\ {"READ", "AU_NS"} # {"READWRITE", "AU_NS"}
        /\ {"READ", "AU_NS"} # {"AU_NS"}
        /\ {"READ", "AU_NS"} # {"READ", "READWRITE"}
        /\ {"READ", "AU_NS"} # {"READWRITE"}
        /\ {"READ", "AU_NS"} # {"READ"}
    BY "READWRITE" \notin {"READ", "AU_NS"}, "READ" \notin {"READWRITE", "AU_NS"},
       "READ" \notin {"AU_NS"}, "AU_NS" \notin {"READ", "READWRITE"},
       "AU_NS" \notin {"READWRITE"}, "AU_NS" \notin {"READ"}
  <2>3. Granted(t, {"READ", "AU_NS"}) = t.nonsecure_read_ok
    BY <2>2 DEF Granted
  <2>. QED  BY <1>2, <2>1, <2>3
<1>3. CASE ~IsNs(r) /\ IsWr(r)
  <2>1. FlagsOf(r) \ KnownSecureLevel = {"READWRITE"}
    BY <1>3 DEF FlagsOf, IsNs, IsWr, NonSecure, KnownSecureLevel
  <2>. QED  BY <1>3, <2>1 DEF Granted
<1>4. CASE ~IsNs(r) /\ ~IsWr(r)
  <2>1. FlagsOf(r) \ KnownSecureLevel = {"READ"}
    BY <1>4 DEF FlagsOf, IsNs, IsWr, NonSecure, KnownSecureLevel
  <2>. QED  BY <1>4, <2>1 DEF Granted
<1>. QED  BY <1>1, <1>2, <1>3, <1>4


-----------------------------------------------------------------------------
(* Regions and the bytes between two ends. *)

\* Regions that do not overlap: an address hits at most one.
LEMMA HitsSingle ==
    ASSUME NEW m, MpuOk(m), NEW a \in Int, NEW i \in Hits(m, a)
    PROVE  /\ Hits(m, a) = {i}
           /\ One(m, a) = m.enable
           /\ Reg(m, a) = i
<1>1. Hits(m, a) = {i}
  BY SMT DEF MpuOk, Hits
<1>2. Cardinality({i}) = 1
  BY FS_Singleton
<1>3. m.enable \in BOOLEAN
  BY DEF MpuOk
<1>. QED  BY <1>1, <1>2, <1>3 DEF One, Reg

LEMMA HitsNone ==
    ASSUME NEW m, NEW a, Hits(m, a) = {}
    PROVE  ~One(m, a)
BY FS_EmptySet DEF One

\* The MPU grants every byte between two ends that have the same region
\* (or both none) when it grants the first end.
LEMMA MpuBetween ==
    ASSUME NEW m, MpuOk(m), NEW up \in BOOLEAN,
           NEW p \in Int, NEW q \in Int, NEW a \in Int, p <= a, a <= q,
           One(m, p) = One(m, q), One(m, p) => Reg(m, p) = Reg(m, q),
           MpuRead(m, p, up)
    PROVE  /\ MpuRead(m, a, up)
           /\ MpuReadWrite(m, p, up) => MpuReadWrite(m, a, up)
<1>1. CASE One(m, p)
  <2>1. Hits(m, p) # {} /\ Hits(m, q) # {}
    BY <1>1, HitsNone
  <2>2. Reg(m, p) \in Hits(m, p) /\ Reg(m, p) \in Hits(m, q)
    BY <1>1, <2>1 DEF Reg
  <2>3. Reg(m, p) \in Hits(m, a)
    BY <2>2, SMT DEF Hits, MpuOk
  <2>4. One(m, a) = m.enable /\ Reg(m, a) = Reg(m, p) /\ One(m, p) = m.enable
    BY <2>2, <2>3, HitsSingle
  <2>. QED  BY <1>1, <2>4 DEF MpuRead, MpuReadWrite
<1>2. CASE ~One(m, p)
  <2>1. ~m.enable \/ (m.privdef /\ ~up /\ m.enable)
    BY <1>2 DEF MpuRead
  <2>2. CASE ~m.enable
    BY <2>2 DEF MpuRead, MpuReadWrite, One
  <2>3. CASE m.privdef /\ ~up /\ m.enable
    <3>1. CASE Hits(m, a) = {}
      BY <2>3, <3>1, HitsNone DEF MpuRead, MpuReadWrite
    <3>2. CASE Hits(m, a) # {}
      <4>1. PICK i \in Hits(m, a) : TRUE
        BY <3>2
      <4>2. One(m, a) /\ Reg(m, a) = i
        BY <2>3, <4>1, HitsSingle
      <4>3. m.regions[i].rw
        BY <2>3, <4>1 DEF MpuOk, Hits
      <4>. QED  BY <2>3, <4>2, <4>3 DEF MpuRead, MpuReadWrite
    <3>. QED  BY <3>1, <3>2
  <2>. QED  BY <2>1, <2>2, <2>3
<1>. QED  BY <1>1, <1>2

\* Two ends in the same SAU region enclose only bytes of that region.
LEMMA SauBetween ==
    ASSUME SauOk(layout.sau), NEW p \in Int, NEW q \in Int, NEW a \in Int,
           p <= a, a <= q, SHits(p) # {}, SHits(q) # {},
           (CHOOSE j \in SHits(p) : TRUE) = (CHOOSE j \in SHits(q) : TRUE)
    PROVE  SHits(a) # {}
<1>1. PICK j \in SHits(p) : j = CHOOSE k \in SHits(p) : TRUE
  OBVIOUS
<1>2. j \in SHits(q)
  BY <1>1
<1>. QED  BY <1>1, <1>2, SMT DEF SHits, SauOk

\* An aligned region holds every byte of an alignment unit or none.
LEMMA GranuleSame ==
    ASSUME NEW lo \in Int, NEW hi \in Int, lo % Granule = 0, (hi + 1) % Granule = 0,
           NEW a \in Int, NEW p \in Int, a \div Granule = p \div Granule
    PROVE  (lo <= a /\ a <= hi) <=> (lo <= p /\ p <= hi)
<1>1. Granule \in Nat \ {0}
  BY TZCheckAssumption
<1>. QED  BY <1>1, SMT


-----------------------------------------------------------------------------
(* One check without a fault. *)

\* What the reference asks of byte a for the caller of r.
RefOk(a, r) ==
    LET t == TT(layout, a, IsNs(r), IsUp(r))
    IN  (IF IsWr(r) THEN t.readwrite_ok ELSE t.read_ok) /\ (IsNs(r) => ~t.secure)

LEMMA RefOkIs ==
    ASSUME NEW a, NEW r
    PROVE  RefOk(a, r) <=>
             /\ IF IsWr(r) THEN MpuReadWrite(Mpu(IsNs(r)), a, IsUp(r))
                ELSE MpuRead(Mpu(IsNs(r)), a, IsUp(r))
             /\ IsNs(r) => SHits(a) # {}
BY TTFields DEF RefOk

LEMMA LayoutFacts ==
    ASSUME LayoutsOk, layout \in Layouts, NEW ns \in BOOLEAN
    PROVE  MpuOk(Mpu(ns)) /\ SauOk(layout.sau)
BY DEF LayoutsOk, Mpu

\* Two addresses of one alignment unit have the same TT result.
LEMMA SameUnit ==
    ASSUME LayoutsOk, layout \in Layouts, NEW r \in Requests,
           NEW a \in Int, NEW p \in Int, a \div Granule = p \div Granule
    PROVE  RefOk(a, r) = RefOk(p, r)
<1> DEFINE m == Mpu(IsNs(r))
<1>1. MpuOk(m) /\ SauOk(layout.sau)
  BY LayoutFacts DEF IsNs
<1>2. Hits(m, a) = Hits(m, p)
  <2>1. ASSUME NEW i \in DOMAIN m.regions
        PROVE  (m.regions[i].lo <= a /\ a <= m.regions[i].hi)
                 <=> (m.regions[i].lo <= p /\ p <= m.regions[i].hi)
    BY <1>1, GranuleSame DEF MpuOk, Aligned
  <2>. QED  BY <2>1 DEF Hits
<1>3. SHits(a) = SHits(p)
  <2>1. ASSUME NEW j \in DOMAIN layout.sau
        PROVE  (layout.sau[j].lo <= a /\ a <= layout.sau[j].hi)
                 <=> (layout.sau[j].lo <= p /\ p <= layout.sau[j].hi)
    BY <1>1, GranuleSame DEF SauOk, Aligned
  <2>. QED  BY <2>1 DEF SHits
<1>4. /\ MpuRead(m, a, IsUp(r)) = MpuRead(m, p, IsUp(r))
      /\ MpuReadWrite(m, a, IsUp(r)) = MpuReadWrite(m, p, IsUp(r))
  BY <1>2 DEF MpuRead, MpuReadWrite, One, Reg
<1>. QED  BY <1>3, <1>4, RefOkIs


\* The last byte ifx_cmse_check_address_range looks up.
PEnd(r) == (r.base + r.size - 1) % Word

\* What a check without a fault establishes when it returns success: the
\* range does not wrap, TT agrees at the two ends (or they share a unit),
\* and the second switch grants the first end.
LEMMA CleanSuccess ==
    ASSUME NEW r \in Requests,
           CheckAddressRange(r.base, r.size, FlagsOf(r), "none") = "SUCCESS"
    PROVE  /\ r.base + r.size <= Word - 1
           /\ ~SameGranule(r.base, PEnd(r))
                => TT(layout, r.base, IsNs(r), IsUp(r)) = TT(layout, PEnd(r), IsNs(r), IsUp(r))
           /\ RefOk(r.base, r)
<1>1. r.base \in 0 .. Word - 1 /\ r.size \in 0 .. Word /\ Word \in Nat
  BY TZCheckAssumption DEF Requests, Addr
<1>2. ~(Word - 1 - r.base < r.size)
  BY FlagsKnown DEF CheckAddressRange
<1>3. /\ ~SameGranule(r.base, PEnd(r))
           => TT(layout, r.base, IsNs(r), IsUp(r)) = TT(layout, PEnd(r), IsNs(r), IsUp(r))
      /\ Granted(TT(layout, r.base, IsNs(r), IsUp(r)), FlagsOf(r) \ KnownSecureLevel)
  BY <1>2, FlagsKnown DEF CheckAddressRange, PEnd
<1>4. RefOk(r.base, r)
  <2>1. /\ TT(layout, r.base, IsNs(r), IsUp(r)).nonsecure_read_ok
             = (TT(layout, r.base, IsNs(r), IsUp(r)).read_ok /\ ~TT(layout, r.base, IsNs(r), IsUp(r)).secure)
        /\ TT(layout, r.base, IsNs(r), IsUp(r)).nonsecure_readwrite_ok
             = (TT(layout, r.base, IsNs(r), IsUp(r)).readwrite_ok /\ ~TT(layout, r.base, IsNs(r), IsUp(r)).secure)
    <3>1. /\ TT(layout, r.base, IsNs(r), IsUp(r)).read_ok = MpuRead(Mpu(IsNs(r)), r.base, IsUp(r))
          /\ TT(layout, r.base, IsNs(r), IsUp(r)).readwrite_ok = MpuReadWrite(Mpu(IsNs(r)), r.base, IsUp(r))
          /\ TT(layout, r.base, IsNs(r), IsUp(r)).secure = (SHits(r.base) = {})
          /\ TT(layout, r.base, IsNs(r), IsUp(r)).nonsecure_read_ok
               = (MpuRead(Mpu(IsNs(r)), r.base, IsUp(r)) /\ SHits(r.base) # {})
          /\ TT(layout, r.base, IsNs(r), IsUp(r)).nonsecure_readwrite_ok
               = (MpuReadWrite(Mpu(IsNs(r)), r.base, IsUp(r)) /\ SHits(r.base) # {})
      BY TTFields
    <3>. QED  BY <3>1
  <2>. QED  BY <1>3, <2>1, GrantedRef DEF RefOk
<1>. QED  BY <1>1, <1>2, <1>3, <1>4, SMT

\* A check without a fault that returns success grants only a range every
\* byte of which the caller may access, on a layout the rules hold for.
LEMMA CleanSound ==
    ASSUME LayoutsOk, layout \in Layouts, NEW r \in Requests,
           CheckAddressRange(r.base, r.size, FlagsOf(r), "none") = "SUCCESS"
    PROVE  RefAllowed(r)
<1> DEFINE p == r.base
           m == Mpu(IsNs(r))
           up == IsUp(r)
<1>1. /\ p + r.size <= Word - 1
      /\ ~SameGranule(p, PEnd(r))
           => TT(layout, p, IsNs(r), up) = TT(layout, PEnd(r), IsNs(r), up)
      /\ RefOk(p, r)
  BY CleanSuccess
<1>2. SUFFICES ASSUME NEW a \in p .. p + r.size - 1 PROVE RefOk(a, r)
  BY DEF RefAllowed, RefOk, IsNs, IsUp, IsWr
<1>3. /\ p \in 0 .. Word - 1 /\ r.size \in 0 .. Word /\ Granule \in Nat \ {0}
      /\ Word \in Nat /\ up \in BOOLEAN /\ IsNs(r) \in BOOLEAN
  BY TZCheckAssumption DEF Requests, Addr, IsUp, IsNs
<1>9. PEnd(r) = p + r.size - 1 /\ p <= a /\ a <= PEnd(r)
  <2>1. p + r.size - 1 \in 0 .. Word - 1
    BY <1>1, <1>3, SMT
  <2>2. (p + r.size - 1) % Word = p + r.size - 1
    BY <1>3, <2>1, SMT
  <2>. QED  BY <1>3, <2>2, SMT DEF PEnd
<1>4. CASE SameGranule(p, PEnd(r))
  <2>1. a \div Granule = p \div Granule
    BY <1>3, <1>9, <1>4, SMT DEF SameGranule
  <2>. QED  BY <1>1, <1>3, <2>1, SameUnit
<1>5. CASE ~SameGranule(p, PEnd(r))
  <2>1. TT(layout, p, IsNs(r), up) = TT(layout, PEnd(r), IsNs(r), up)
    BY <1>1, <1>5
  <2>2. /\ One(m, p) = One(m, PEnd(r))
        /\ One(m, p) => Reg(m, p) = Reg(m, PEnd(r))
        /\ (SHits(p) # {}) = (SHits(PEnd(r)) # {})
        /\ SHits(p) # {} => (CHOOSE j \in SHits(p) : TRUE) = (CHOOSE j \in SHits(PEnd(r)) : TRUE)
    <3>1. LET tp == TT(layout, p, IsNs(r), up)
              te == TT(layout, PEnd(r), IsNs(r), up)
          IN  /\ tp.mrvalid = te.mrvalid /\ tp.mregion = te.mregion
              /\ tp.srvalid = te.srvalid /\ tp.sregion = te.sregion
      BY <2>1
    <3>. QED  BY <3>1, TTFields
  <2>3. MpuOk(m) /\ SauOk(layout.sau)
    BY <1>3, LayoutFacts
  <2>4. /\ IF IsWr(r) THEN MpuReadWrite(m, p, up) ELSE MpuRead(m, p, up)
        /\ IsNs(r) => SHits(p) # {}
    BY <1>1, RefOkIs
  <2>5. MpuRead(m, p, up)
    BY <2>4 DEF MpuReadWrite
  <2>6. /\ MpuRead(m, a, up)
        /\ MpuReadWrite(m, p, up) => MpuReadWrite(m, a, up)
    BY <1>3, <1>9, <2>2, <2>3, <2>5, MpuBetween
  <2>7. IsNs(r) => SHits(a) # {}
    BY <1>3, <1>9, <2>2, <2>3, <2>4, SauBetween
  <2>. QED  BY <2>4, <2>6, <2>7, RefOkIs
<1>. QED  BY <1>4, <1>5


-----------------------------------------------------------------------------
(* The FIH pair and the specification. *)

\* With the second check of the high profile, one fault leaves one of the
\* two checks clean, and that one must have returned success.
LEMMA TzSound ==
    ASSUME FihHigh, LayoutsOk, layout \in Layouts,
           NEW r \in Requests, NEW g \in Glitches,
           TzMemoryCheck(r, g) = "SUCCESS", ~MailboxCarveOut(r)
    PROVE  RefAllowed(r)
<1>1. ~Rejects(CallCheck(r, g, 1), g, 1) /\ ~Rejects(CallCheck(r, g, 2), g, 2)
  BY DEF TzMemoryCheck
<1>2. g.call \in {1, 2}
  BY DEF Glitches
<1>3. CASE g.call = 1
  <2>1. CallCheck(r, g, 2) = CheckAddressRange(r.base, r.size, FlagsOf(r), "none")
    BY <1>3 DEF CallCheck
  <2>2. CallCheck(r, g, 2) = "SUCCESS"
    BY <1>1, <1>3 DEF Rejects
  <2>. QED  BY <2>1, <2>2, CleanSound
<1>4. CASE g.call = 2
  <2>1. CallCheck(r, g, 1) = CheckAddressRange(r.base, r.size, FlagsOf(r), "none")
    BY <1>4 DEF CallCheck
  <2>2. CallCheck(r, g, 1) = "SUCCESS"
    BY <1>1, <1>4 DEF Rejects
  <2>. QED  BY <2>1, <2>2, CleanSound
<1>. QED  BY <1>2, <1>3, <1>4

\* The TT results depend on the booted layout only.
LEMMA TTUnchanged ==
    ASSUME layout' = layout, NEW a, NEW ns, NEW up
    PROVE  TT(layout, a, ns, up)' = TT(layout, a, ns, up)
OBVIOUS

\* A call returns what ifx_tz_memory_check computes for its arguments.
TzInv ==
    /\ layout \in Layouts /\ req \in Requests /\ glitch \in Glitches
    /\ result = "none" \/ result = TzMemoryCheck(req, glitch)

LEMMA TzInvariant == Spec => []TzInv
<1>1. Init => TzInv
  BY DEF Init, TzInv
<1>2. TzInv /\ [Next]_vars => TzInv'
  <2> SUFFICES ASSUME TzInv, [Next]_vars PROVE TzInv'
    OBVIOUS
  <2>1. UNCHANGED <<layout, req, glitch>>
    BY DEF Next, Call, vars
  <2>2. result' = "none" \/ result' = TzMemoryCheck(req, glitch)
    BY DEF TzInv, Next, Call, vars
  <2>3. \A a, ns, up : TT(layout, a, ns, up)' = TT(layout, a, ns, up)
    <3>1. layout' = layout
      BY <2>1
    <3>. QED  BY <3>1, TTUnchanged
  <2>4. \A c \in {1, 2} : CallCheck(req, glitch, c)' = CallCheck(req, glitch, c)
    BY <2>1, <2>3 DEF CallCheck, CheckAddressRange
  <2>5. TzMemoryCheck(req, glitch)' = TzMemoryCheck(req, glitch)
    BY <2>1, <2>4 DEF TzMemoryCheck, Rejects, MailboxCarveOut
  <2>. QED  BY <2>1, <2>2, <2>5 DEF TzInv
<1>. QED  BY <1>1, <1>2, PTL DEF Spec

(***************************************************************************)
(* Under the high FIH profile, ifx_tz_memory_check returns TFM_HAL_SUCCESS *)
(* outside the mailbox carve-out only for a range every byte of which the  *)
(* caller may access with the security state and privilege of its         *)
(* boundary, even with one branch skipped by a fault, for every address    *)
(* width, request and MPU and SAU layout whose regions are aligned, whose  *)
(* MPU regions do not overlap and whose privileged default map lies only  *)
(* beside read-write regions: then TT at the two ends of the range speaks *)
(* for every byte between them.                                            *)
(***************************************************************************)
THEOREM CheckSoundHolds == FihHigh /\ LayoutsOk => (Spec => []CheckSound)
<1> SUFFICES ASSUME FihHigh, LayoutsOk PROVE Spec => []CheckSound
  OBVIOUS
<1>1. TzInv => CheckSound
  BY TzSound DEF TzInv, CheckSound
<1>. QED  BY <1>1, TzInvariant, PTL

-----------------------------------------------------------------------------
(***************************************************************************)
(* The interval helpers of utils/ifx_regions.c, which the platform code    *)
(* offers for the same question of a range lying in a region.             *)
(***************************************************************************)
Rg == INSTANCE Regions

\* ifx_is_region_inside_other returns SPM_SUCCESS exactly when both ranges
\* are nonempty (start not above the inclusive limit) and the first lies
\* within the second, for every argument value and so every address width.
THEOREM InsideCorrect ==
    ASSUME NEW fs \in Int, NEW fl \in Int, NEW ss \in Int, NEW sl \in Int
    PROVE  (Rg!IsRegionInsideOther(fs, fl, ss, sl) = "SPM_SUCCESS")
               <=> Rg!InsideRef(fs, fl, ss, sl)
BY DEF Rg!IsRegionInsideOther, Rg!InsideRef

\* ifx_is_region_overlap_other returns SPM_SUCCESS exactly when both ranges
\* are nonempty and share an address, for every argument value.
THEOREM OverlapCorrect ==
    ASSUME NEW fs \in Int, NEW fl \in Int, NEW ss \in Int, NEW sl \in Int
    PROVE  (Rg!IsRegionOverlapOther(fs, fl, ss, sl) = "SPM_SUCCESS")
               <=> Rg!OverlapRef(fs, fl, ss, sl)
BY DEF Rg!IsRegionOverlapOther, Rg!OverlapRef
=============================================================================
