----------------------------- MODULE Sau_proofs -----------------------------
(***************************************************************************)
(* Proof that a passed ifx_sau_verify_static_boundaries means the SAU      *)
(* grants non-secure or non-secure-callable attribution only as            *)
(* SAU_config[] and the veneer do, for every region count, table and       *)
(* address width, whatever an earlier boot stage left in the SAU (ALLNS    *)
(* clear), when one register write or branch of the boot may be skipped.   *)
(***************************************************************************)
EXTENDS Sau, FiniteSetTheorems, TLAPS

\* The fault model the audit is designed against, and the SAU states an
\* earlier boot stage may leave: any regions, with ALLNS at its reset value.
SauHyp ==
    /\ MaxFaults <= 1
    /\ BootStates \subseteq SauState
    /\ \A s \in BootStates : ~s.allns

CfgPcs == {"regions", "veneer", "unused", "enable"}

VerifyPcs == {"v_regions", "v_veneer", "v_unused"}

\* Region r of st attributes as region r of the tables: enabled exactly
\* when intended, and then with the intended base, limit and NSC.
MatchOf(st, r) ==
    /\ st.rlar[r].en = Intended.rlar[r].en
    /\ Intended.rlar[r].en =>
          st.rbar[r] = Intended.rbar[r] /\ st.rlar[r] = Intended.rlar[r]

Match(r) == MatchOf(sau, r)

\* Every region the audit has passed so far matches the tables.
Checked == \A r \in Regions : r < idx => Match(r)

\* The pc and loop index of the two functions.
Shape ==
    /\ pc \notin {"check", "halt"} => Len(Config) + Reserved <= RegionNr
    /\ pc \in {"regions", "v_regions"} => idx <= Len(Config)
    /\ pc \in {"veneer", "v_veneer"} => UseTz /\ idx = Len(Config)
    /\ pc \in {"unused", "v_unused"} => Len(Config) + Reserved <= idx
    /\ pc = "enable" => idx = RegionNr
    /\ pc = "done" /\ vrc = "SUCCESS" => idx = RegionNr

\* While ifx_sau_cfg runs unfaulted, the SAU is disabled and the regions
\* written so far are the intended ones.
CfgOk == pc \in CfgPcs /\ faults = 0 => ~sau.enable /\ Checked

\* During and after the audit either ifx_sau_cfg ran unfaulted, so every
\* region is intended and the SAU enabled, or the one fault is spent, so
\* the audit runs as written and every region it passed is intended.
AuditOk ==
    pc \in VerifyPcs \cup {"done"} =>
        \/ sau.enable /\ \A r \in Regions : Match(r)
        \/ faults = MaxFaults /\ (pc \in VerifyPcs \/ vrc = "SUCCESS" => Checked)

\* What the boot has established at every step.
SauInv == TypeOK /\ ~sau.allns /\ Shape /\ CfgOk /\ AuditOk

-----------------------------------------------------------------------------
(* Lemmas on the operators of Sau *)

LEMMA LimitAddrType ==
    ASSUME NEW x \in Int
    PROVE  LimitAddr(x) \in Addr
BY SauAssumption DEF LimitAddr, Addr

\* The veneer size computed by the audit yields the limit ifx_sau_cfg wrote.
LEMMA VeneerLimitSame ==
    LimitOf(VeneerBase, VeneerLimit - VeneerBase) = LimitAddr(VeneerLimit - 1)
BY SauAssumption DEF LimitOf

LEMMA ReservedIs == Reserved \in {0, 1} /\ (Reserved = 1 <=> UseTz)
BY SauAssumption DEF Reserved

\* The table entry of region r.
LEMMA IntendedAt ==
    ASSUME NEW r \in Regions
    PROVE  /\ r < Len(Config) =>
                 /\ Intended.rbar[r] = Config[r + 1].base_addr
                 /\ Intended.rlar[r] =
                       Rlar(LimitOf(Config[r + 1].base_addr, Config[r + 1].size), FALSE, TRUE)
           /\ UseTz /\ r = Len(Config) =>
                 /\ Intended.rbar[r] = VeneerBase
                 /\ Intended.rlar[r] = Rlar(LimitAddr(VeneerLimit - 1), TRUE, TRUE)
           /\ Len(Config) + Reserved <= r => Intended.rlar[r] = RlarZero
<1>1. Len(Config) \in Nat /\ r \in Nat
  BY SauAssumption DEF Regions
<1>2. r < Len(Config) =>
        /\ Intended.rbar[r] = Config[r + 1].base_addr
        /\ Intended.rlar[r] =
              Rlar(LimitOf(Config[r + 1].base_addr, Config[r + 1].size), FALSE, TRUE)
  BY DEF Intended
<1>3. UseTz /\ r = Len(Config) =>
        /\ Intended.rbar[r] = VeneerBase
        /\ Intended.rlar[r] = Rlar(LimitAddr(VeneerLimit - 1), TRUE, TRUE)
  <2> SUFFICES ASSUME UseTz, r = Len(Config)
               PROVE  /\ Intended.rbar[r] = VeneerBase
                      /\ Intended.rlar[r] = Rlar(LimitAddr(VeneerLimit - 1), TRUE, TRUE)
    OBVIOUS
  <2>1. ~(r < Len(Config))
    BY <1>1
  <2>2. QED
    BY <2>1 DEF Intended
<1>4. Len(Config) + Reserved <= r => Intended.rlar[r] = RlarZero
  <2>1. Len(Config) + Reserved <= r => ~(r < Len(Config)) /\ ~(UseTz /\ r = Len(Config))
    BY <1>1, ReservedIs
  <2>2. QED
    BY <2>1 DEF Intended
<1>5. QED
  BY <1>2, <1>3, <1>4

\* A step that skips s counts it, and skips only while faults remain.
LEMMA SkipIs ==
    ASSUME NEW w, NEW s \in Skips(w)
    PROVE  s = "none" \/ (s \in w /\ faults < MaxFaults)
BY DEF Skips

\* The enabled regions of st that hold address a.
HitsOf(st, a) ==
    {r \in Regions : st.rlar[r].en /\ st.rbar[r] <= a
                     /\ a <= st.rlar[r].limit + Granule - 1}

LEMMA AttrIs ==
    ASSUME NEW st, NEW a
    PROVE  Attr(st, a) =
             IF ~st.enable THEN (IF st.allns THEN "NS" ELSE "S")
             ELSE IF Cardinality(HitsOf(st, a)) # 1 THEN "S"
             ELSE IF st.rlar[CHOOSE r \in HitsOf(st, a) : TRUE].nsc THEN "NSC" ELSE "NS"
BY DEF Attr, HitsOf

\* An enabled SAU whose regions all match the tables attributes every
\* address as the tables do: the same regions hold it, with the same NSC.
LEMMA AttrSame ==
    ASSUME NEW st, st.enable, \A r \in Regions : MatchOf(st, r), NEW a
    PROVE  Attr(st, a) = Attr(Intended, a)
<1> DEFINE H == HitsOf(st, a)
<1>1. H = HitsOf(Intended, a)
  BY DEF HitsOf, MatchOf
<1>2. \A r \in H : st.rlar[r] = Intended.rlar[r]
  BY DEF HitsOf, MatchOf
<1>3. Intended.enable /\ st.enable
  BY DEF Intended
<1>4. CASE Cardinality(H) # 1
  BY <1>1, <1>3, <1>4, AttrIs
<1>5. CASE Cardinality(H) = 1
  <2>1. H # {}
    BY <1>5, FS_EmptySet
  <2>2. (CHOOSE r \in H : TRUE) \in H
    BY <2>1
  <2>3. st.rlar[CHOOSE r \in H : TRUE].nsc = Intended.rlar[CHOOSE r \in H : TRUE].nsc
    BY <2>2, <1>2
  <2>4. QED
    BY <1>1, <1>3, <1>5, <2>3, AttrIs
<1>6. QED
  BY <1>4, <1>5

-----------------------------------------------------------------------------
(* The invariant, one lemma per step of the boot *)

RlarType == [limit : Addr, nsc : BOOLEAN, en : BOOLEAN]

\* A loop iteration of ifx_sau_cfg keeps the SAU registers well typed.
LEMMA WriteRegionType ==
    ASSUME sau \in SauState, NEW i \in Regions, NEW base \in Addr,
           NEW rl \in RlarType, NEW s, WriteRegion(i, base, rl, s)
    PROVE  sau' \in SauState
BY DEF WriteRegion, SauState, RlarType

LEMMA InitSauInv == SauHyp /\ Init => SauInv
<1> SUFFICES ASSUME SauHyp, Init PROVE SauInv
  OBVIOUS
<1>1. sau \in SauState /\ ~sau.allns
  BY DEF SauHyp, Init
<1>2. TypeOK
  BY <1>1, SauAssumption DEF Init, TypeOK, Rcs
<1>3. Shape /\ CfgOk /\ AuditOk
  BY DEF Init, Shape, CfgOk, AuditOk, CfgPcs, VerifyPcs
<1>4. QED
  BY <1>1, <1>2, <1>3 DEF SauInv

LEMMA CfgCheckStep ==
    ASSUME SauInv, CfgCheck
    PROVE  SauInv'
<1>1. TypeOK'
  BY DEF SauInv, TypeOK, CfgCheck, Rcs
<1>2. Shape'
  BY SauAssumption, ReservedIs DEF SauInv, Shape, CfgCheck
<1>3. QED
  BY <1>1, <1>2 DEF SauInv, CfgCheck, CfgOk, AuditOk, CfgPcs, VerifyPcs

LEMMA DisableStep ==
    ASSUME SauInv, Disable
    PROVE  SauInv'
<1>1. PICK s \in Skips({"ctrl"}) :
        /\ sau' = IF s = "none" THEN [sau EXCEPT !.enable = FALSE] ELSE sau
        /\ Faulted(s)
  BY DEF Disable
<1>2. faults' = 0 => s = "none"
  BY <1>1, SkipIs DEF SauInv, TypeOK, Faulted
<1>3. TypeOK'
  <2>1. sau' \in SauState
    BY <1>1 DEF SauInv, TypeOK, SauState
  <2>2. faults' \in 0 .. MaxFaults
    BY <1>1, SkipIs, SauAssumption DEF SauInv, TypeOK, Faulted
  <2>3. QED
    BY <2>1, <2>2, SauAssumption DEF SauInv, TypeOK, Disable
<1>4. Shape'
  BY SauAssumption DEF SauInv, Shape, Disable
<1>5. CfgOk'
  BY <1>1, <1>2 DEF CfgOk, Checked, Disable, SauInv, TypeOK, SauState, Regions
<1>6. QED
  BY <1>1, <1>3, <1>4, <1>5 DEF SauInv, Disable, AuditOk, VerifyPcs

\* Lines 51-71: an unfaulted iteration writes SAU_config[idx] as intended.
LEMMA CfgRegionStep ==
    ASSUME SauInv, CfgRegion
    PROVE  SauInv'
<1> DEFINE c  == Config[idx + 1]
           rl == Rlar(LimitOf(c.base_addr, c.size), FALSE, TRUE)
<1>1. /\ pc = "regions" /\ idx \in Nat /\ Len(Config) \in Nat /\ idx < Len(Config)
      /\ Len(Config) + Reserved <= RegionNr /\ idx \in Regions
      /\ faults \in Nat
  BY SauAssumption, ReservedIs DEF CfgRegion, SauInv, TypeOK, Shape, Regions
<1>2. c.base_addr \in Addr /\ rl \in RlarType
  <2>1. idx + 1 \in DOMAIN Config
    BY <1>1, SauAssumption
  <2>2. c.base_addr \in 0 .. Word - 1 /\ c.size \in 0 .. Word - 1
    BY <2>1, SauAssumption
  <2>3. LimitOf(c.base_addr, c.size) \in Addr
    BY <2>2, LimitAddrType DEF LimitOf
  <2>4. QED
    BY <2>2, <2>3 DEF Addr, RlarType, Rlar
<1>3. PICK s \in Skips({"rnr", "rbar", "rlar"}) :
        WriteRegion(idx, c.base_addr, rl, s) /\ Faulted(s)
  BY DEF CfgRegion
<1>4. TypeOK'
  <2>1. sau' \in SauState
    BY <1>1, <1>2, <1>3, WriteRegionType DEF SauInv, TypeOK
  <2>2. faults' \in 0 .. MaxFaults
    BY <1>1, <1>3, SkipIs, SauAssumption DEF SauInv, TypeOK, Faulted
  <2>3. idx' \in 0 .. RegionNr
    BY <1>1, ReservedIs, SauAssumption DEF CfgRegion
  <2>4. UNCHANGED <<pc, cfgrc, vrc>>
    BY DEF CfgRegion
  <2>5. QED
    BY <2>1, <2>2, <2>3, <2>4 DEF SauInv, TypeOK
<1>5. ~sau'.allns
  BY <1>3 DEF WriteRegion, SauInv
<1>6. Shape'
  BY <1>1 DEF CfgRegion, Shape
<1>7. CfgOk'
  <2> SUFFICES ASSUME faults' = 0 PROVE ~sau'.enable /\ Checked'
    BY DEF CfgOk
  <2>1. s = "none" /\ faults = 0
    BY <1>1, <1>3, SkipIs DEF Faulted
  <2>2. ~sau.enable /\ Checked
    BY <1>1, <2>1 DEF SauInv, CfgOk, CfgPcs
  <2>3. /\ sau'.enable = sau.enable
        /\ \A r \in Regions : r # idx => sau'.rbar[r] = sau.rbar[r] /\ sau'.rlar[r] = sau.rlar[r]
        /\ sau'.rbar[idx] = c.base_addr /\ sau'.rlar[idx] = rl
    <3>1. WriteRegion(idx, c.base_addr, rl, "none")
      BY <1>3, <2>1
    <3>2. sau \in SauState
      BY DEF SauInv, TypeOK
    <3>3. QED
      BY <1>1, <3>1, <3>2 DEF WriteRegion, SauState
  <2>4. MatchOf(sau', idx)
    BY <1>1, <2>3, IntendedAt DEF MatchOf
  <2>5. \A r \in Regions : r < idx => MatchOf(sau', r)
    BY <1>1, <2>2, <2>3 DEF Checked, Match, MatchOf, Regions
  <2>6. idx' = idx + 1
    BY DEF CfgRegion
  <2>7. QED
    BY <1>1, <2>2, <2>3, <2>4, <2>5, <2>6 DEF Checked, Match, Regions
<1>8. AuditOk'
  BY <1>1 DEF CfgRegion, AuditOk, VerifyPcs
<1>9. QED
  BY <1>4, <1>5, <1>6, <1>7, <1>8 DEF SauInv

LEMMA CfgRegionsDoneStep ==
    ASSUME SauInv, CfgRegionsDone
    PROVE  SauInv'
<1>1. TypeOK'
  BY DEF SauInv, TypeOK, CfgRegionsDone
<1>2. Shape'
  BY ReservedIs, SauAssumption DEF SauInv, TypeOK, Shape, CfgRegionsDone
<1>3. CfgOk'
  BY DEF SauInv, CfgOk, Checked, Match, CfgRegionsDone, CfgPcs
<1>4. QED
  BY <1>1, <1>2, <1>3 DEF SauInv, CfgRegionsDone, AuditOk, VerifyPcs

\* Lines 73-87: an unfaulted veneer write makes region idx the NSC region.
LEMMA CfgVeneerStep ==
    ASSUME SauInv, CfgVeneer
    PROVE  SauInv'
<1> DEFINE rl == Rlar(LimitAddr(VeneerLimit - 1), TRUE, TRUE)
<1>1. /\ pc = "veneer" /\ UseTz /\ idx = Len(Config) /\ idx \in Nat
      /\ Reserved = 1 /\ idx + 1 <= RegionNr /\ idx \in Regions
      /\ faults \in Nat
  BY SauAssumption, ReservedIs DEF CfgVeneer, SauInv, TypeOK, Shape, Regions
<1>2. VeneerBase \in Addr /\ rl \in RlarType
  <2>1. VeneerLimit - 1 \in Int
    BY SauAssumption
  <2>2. LimitAddr(VeneerLimit - 1) \in Addr
    BY <2>1, LimitAddrType
  <2>3. QED
    BY <2>2, SauAssumption DEF Addr, RlarType, Rlar
<1>3. PICK s \in Skips({"rnr", "rbar", "rlar"}) :
        WriteRegion(idx, VeneerBase, rl, s) /\ Faulted(s)
  BY DEF CfgVeneer
<1>4. TypeOK'
  <2>1. sau' \in SauState
    BY <1>1, <1>2, <1>3, WriteRegionType DEF SauInv, TypeOK
  <2>2. faults' \in 0 .. MaxFaults
    BY <1>1, <1>3, SkipIs, SauAssumption DEF SauInv, TypeOK, Faulted
  <2>3. idx' \in 0 .. RegionNr /\ pc' = "unused"
    BY <1>1 DEF CfgVeneer
  <2>4. UNCHANGED <<cfgrc, vrc>>
    BY DEF CfgVeneer
  <2>5. QED
    BY <2>1, <2>2, <2>3, <2>4 DEF SauInv, TypeOK
<1>5. ~sau'.allns
  BY <1>3 DEF WriteRegion, SauInv
<1>6. Shape'
  BY <1>1 DEF CfgVeneer, Shape
<1>7. CfgOk'
  <2> SUFFICES ASSUME faults' = 0 PROVE ~sau'.enable /\ Checked'
    BY DEF CfgOk
  <2>1. s = "none" /\ faults = 0
    BY <1>1, <1>3, SkipIs DEF Faulted
  <2>2. ~sau.enable /\ Checked
    BY <1>1, <2>1 DEF SauInv, CfgOk, CfgPcs
  <2>3. /\ sau'.enable = sau.enable
        /\ \A r \in Regions : r # idx => sau'.rbar[r] = sau.rbar[r] /\ sau'.rlar[r] = sau.rlar[r]
        /\ sau'.rbar[idx] = VeneerBase /\ sau'.rlar[idx] = rl
    <3>1. WriteRegion(idx, VeneerBase, rl, "none")
      BY <1>3, <2>1
    <3>2. sau \in SauState
      BY DEF SauInv, TypeOK
    <3>3. QED
      BY <1>1, <3>1, <3>2 DEF WriteRegion, SauState
  <2>4. MatchOf(sau', idx)
    BY <1>1, <2>3, IntendedAt DEF MatchOf
  <2>5. \A r \in Regions : r < idx => MatchOf(sau', r)
    BY <1>1, <2>2, <2>3 DEF Checked, Match, MatchOf, Regions
  <2>6. idx' = idx + 1
    BY DEF CfgVeneer
  <2>7. QED
    BY <1>1, <2>2, <2>3, <2>4, <2>5, <2>6 DEF Checked, Match, Regions
<1>8. AuditOk'
  BY DEF CfgVeneer, AuditOk, VerifyPcs
<1>9. QED
  BY <1>4, <1>5, <1>6, <1>7, <1>8 DEF SauInv

\* Lines 92-97: an unfaulted iteration disables region idx, which no
\* table entry uses.
LEMMA CfgUnusedStep ==
    ASSUME SauInv, CfgUnused
    PROVE  SauInv'
<1>1. /\ pc = "unused" /\ idx \in Nat /\ idx < RegionNr /\ idx \in Regions
      /\ Len(Config) + Reserved <= idx /\ faults \in Nat /\ sau \in SauState
  BY SauAssumption DEF CfgUnused, SauInv, TypeOK, Shape, Regions
<1>2. PICK s \in Skips({"rnr", "rlar"}) :
        /\ LET r == IF s = "rnr" THEN sau.rnr ELSE idx
           IN  sau' = [sau EXCEPT !.rnr = r,
                                  !.rlar[r] = IF s = "rlar" THEN @ ELSE RlarZero]
        /\ Faulted(s)
  BY DEF CfgUnused
<1>3. RlarZero \in RlarType /\ ~RlarZero.en
  BY SauAssumption DEF RlarZero, Rlar, RlarType, Addr
<1>4. TypeOK'
  <2>1. sau' \in SauState
    BY <1>1, <1>2, <1>3 DEF SauState, RlarType
  <2>2. faults' \in 0 .. MaxFaults
    BY <1>1, <1>2, SkipIs, SauAssumption DEF SauInv, TypeOK, Faulted
  <2>3. idx' \in 0 .. RegionNr
    BY <1>1, SauAssumption DEF CfgUnused
  <2>4. UNCHANGED <<pc, cfgrc, vrc>>
    BY DEF CfgUnused
  <2>5. QED
    BY <2>1, <2>2, <2>3, <2>4 DEF SauInv, TypeOK
<1>5. ~sau'.allns
  BY <1>1, <1>2 DEF SauInv, SauState
<1>6. Shape'
  BY <1>1, SauAssumption, ReservedIs DEF SauInv, CfgUnused, Shape
<1>7. CfgOk'
  <2> SUFFICES ASSUME faults' = 0 PROVE ~sau'.enable /\ Checked'
    BY DEF CfgOk
  <2>1. s = "none" /\ faults = 0
    BY <1>1, <1>2, SkipIs DEF Faulted
  <2>2. ~sau.enable /\ Checked
    BY <1>1, <2>1 DEF SauInv, CfgOk, CfgPcs
  <2>3. /\ sau'.enable = sau.enable
        /\ \A r \in Regions : r # idx => sau'.rbar[r] = sau.rbar[r] /\ sau'.rlar[r] = sau.rlar[r]
        /\ sau'.rlar[idx] = RlarZero
    BY <1>1, <1>2, <2>1 DEF SauState
  <2>4. MatchOf(sau', idx)
    BY <1>1, <1>3, <2>3, IntendedAt DEF MatchOf
  <2>5. \A r \in Regions : r < idx => MatchOf(sau', r)
    BY <1>1, <2>2, <2>3 DEF Checked, Match, MatchOf, Regions
  <2>6. idx' = idx + 1
    BY DEF CfgUnused
  <2>7. QED
    BY <1>1, <2>2, <2>3, <2>4, <2>5, <2>6 DEF Checked, Match, Regions
<1>8. AuditOk'
  BY DEF CfgUnused, AuditOk, VerifyPcs
<1>9. QED
  BY <1>4, <1>5, <1>6, <1>7, <1>8 DEF SauInv

LEMMA CfgUnusedDoneStep ==
    ASSUME SauInv, CfgUnusedDone
    PROVE  SauInv'
<1>1. TypeOK'
  BY DEF SauInv, TypeOK, CfgUnusedDone
<1>2. Shape'
  BY DEF SauInv, Shape, CfgUnusedDone
<1>3. CfgOk'
  BY DEF SauInv, CfgOk, Checked, Match, CfgUnusedDone, CfgPcs
<1>4. QED
  BY <1>1, <1>2, <1>3 DEF SauInv, CfgUnusedDone, AuditOk, VerifyPcs

(***************************************************************************)
(* TZ_SAU_Enable.  An unfaulted ifx_sau_cfg enables a SAU whose regions    *)
(* are all intended; a faulted one has spent the fault, so the audit that  *)
(* follows runs as written.                                                *)
(***************************************************************************)
LEMMA EnableStep ==
    ASSUME SauHyp, SauInv, Enable
    PROVE  SauInv'
<1>1. /\ pc = "enable" /\ idx = RegionNr /\ faults \in 0 .. MaxFaults
      /\ MaxFaults \in Nat /\ MaxFaults <= 1 /\ sau \in SauState
  BY SauAssumption DEF SauHyp, SauInv, TypeOK, Shape, Enable
<1>2. PICK s \in Skips({"ctrl"}) :
        /\ sau' = IF s = "none" THEN [sau EXCEPT !.enable = TRUE] ELSE sau
        /\ Faulted(s)
  BY DEF Enable
<1>3. /\ sau'.rbar = sau.rbar /\ sau'.rlar = sau.rlar /\ sau'.allns = sau.allns
      /\ sau' \in SauState
  BY <1>1, <1>2 DEF SauState
<1>4. /\ pc' = "v_regions" /\ idx' = 0 /\ vrc' = "GENERIC" /\ cfgrc' = "SUCCESS"
  BY DEF Enable
<1>5. faults' \in 0 .. MaxFaults
  BY <1>1, <1>2, SkipIs DEF Faulted
<1>6. TypeOK'
  BY <1>3, <1>4, <1>5, SauAssumption DEF TypeOK, Rcs
<1>7. ~sau'.allns /\ Shape' /\ CfgOk'
  <2>1. Len(Config) \in Nat
    BY SauAssumption
  <2>2. QED
    BY <1>1, <1>3, <1>4, <2>1 DEF SauInv, Shape, CfgOk, CfgPcs
<1>8. \A r \in Regions : Match(r)' = Match(r)
  BY <1>3 DEF Match, MatchOf
<1>9. Checked'
  BY <1>4 DEF Checked, Regions
<1>10. AuditOk'
  <2>1. CASE s = "none" /\ faults = 0
    <3>1. \A r \in Regions : Match(r)
      BY <1>1, <2>1, SauAssumption DEF SauInv, CfgOk, CfgPcs, Checked, Regions
    <3>2. sau'.enable
      BY <1>1, <1>2, <2>1 DEF SauState
    <3>3. QED
      BY <3>1, <3>2, <1>8 DEF AuditOk
  <2>2. CASE s # "none"
    <3>1. faults = 0 /\ MaxFaults = 1 /\ faults' = 1
      BY <1>1, <1>2, <2>2, SkipIs DEF Faulted
    <3>2. QED
      BY <3>1, <1>9 DEF AuditOk
  <2>3. CASE s = "none" /\ faults # 0
    <3>1. faults' = MaxFaults
      BY <1>1, <1>2, <2>3 DEF Faulted
    <3>2. QED
      BY <3>1, <1>9 DEF AuditOk
  <2>4. QED
    BY <2>1, <2>2, <2>3
<1>11. QED
  BY <1>6, <1>7, <1>10 DEF SauInv

(***************************************************************************)
(* ifx_sau_verify_region on region idx against the table entry for it.     *)
(* It reads only; after a spent fault it compares region idx itself and   *)
(* either returns GENERIC or lets the loop go on past a matching region.   *)
(***************************************************************************)
LEMMA VerifyRegionAudit ==
    ASSUME SauInv, NEW base, NEW rl, NEW next \in VerifyPcs,
           pc \in VerifyPcs, idx \in Regions,
           Intended.rbar[idx] = base, Intended.rlar[idx] = rl, rl.en,
           VerifyRegion(idx, base, rl, next), idx' = idx + 1
    PROVE  /\ AuditOk'
           /\ sau' \in SauState /\ sau'.allns = sau.allns
           /\ faults' \in 0 .. MaxFaults /\ vrc' \in Rcs
           /\ pc' \in {next, "done"} /\ (pc' = "done" => vrc' = "GENERIC")
<1>1. PICK s \in Skips({"rnr", "if"}) :
        LET r  == IF s = "rnr" THEN sau.rnr ELSE idx
            ok == sau.rbar[r] = base /\ sau.rlar[r] = rl
        IN  /\ sau' = [sau EXCEPT !.rnr = r]
            /\ vrc' = IF ok THEN "SUCCESS" ELSE "GENERIC"
            /\ pc' = IF ~ok /\ s # "if" THEN "done" ELSE next
            /\ Faulted(s)
  BY DEF VerifyRegion
<1>2. sau \in SauState /\ faults \in 0 .. MaxFaults /\ MaxFaults \in Nat
  BY SauAssumption DEF SauInv, TypeOK
<1>3. /\ sau' \in SauState /\ sau'.allns = sau.allns /\ sau'.enable = sau.enable
      /\ sau'.rbar = sau.rbar /\ sau'.rlar = sau.rlar
  BY <1>1, <1>2 DEF SauState
<1>4. /\ faults' \in 0 .. MaxFaults /\ vrc' \in Rcs
      /\ pc' \in {next, "done"} /\ (pc' = "done" => vrc' = "GENERIC")
  <2>1. faults' \in 0 .. MaxFaults
    BY <1>1, <1>2, SkipIs DEF Faulted
  <2>2. next # "done"
    BY DEF VerifyPcs
  <2>3. QED
    BY <1>1, <2>1, <2>2 DEF Rcs
<1>5. \A r \in Regions : Match(r)' = Match(r)
  BY <1>3 DEF Match, MatchOf
<1>6. AuditOk'
  <2>1. CASE sau.enable /\ \A r \in Regions : Match(r)
    BY <1>3, <1>5, <2>1 DEF AuditOk
  <2>2. CASE faults = MaxFaults /\ Checked
    <3>1. s = "none" /\ faults' = MaxFaults
      BY <1>1, <1>2, <2>2, SkipIs DEF Faulted
    <3>2. /\ sau.rbar[idx] = base /\ sau.rlar[idx] = rl => pc' = next /\ Match(idx)
          /\ ~(sau.rbar[idx] = base /\ sau.rlar[idx] = rl) => pc' = "done" /\ vrc' = "GENERIC"
      BY <1>1, <3>1 DEF Match, MatchOf
    <3>3. (pc' \in VerifyPcs \/ vrc' = "SUCCESS") => \A r \in Regions : r < idx + 1 => Match(r)
      BY <2>2, <3>2, SauAssumption DEF Checked, Regions, VerifyPcs
    <3>4. QED
      BY <3>1, <3>3, <1>5 DEF AuditOk, Checked
  <2>3. QED
    BY <2>1, <2>2 DEF SauInv, AuditOk
<1>7. QED
  BY <1>3, <1>4, <1>6

\* Lines 155-162.
LEMMA VRegionStep ==
    ASSUME SauInv, VRegion
    PROVE  SauInv'
<1> DEFINE c  == Config[idx + 1]
           rl == Rlar(LimitOf(c.base_addr, c.size), FALSE, TRUE)
<1>1. /\ pc = "v_regions" /\ idx \in Nat /\ Len(Config) \in Nat /\ idx < Len(Config)
      /\ Len(Config) + Reserved <= RegionNr /\ idx \in Regions
  BY SauAssumption, ReservedIs DEF VRegion, SauInv, TypeOK, Shape, Regions
<1>2. Intended.rbar[idx] = c.base_addr /\ Intended.rlar[idx] = rl /\ rl.en
  BY <1>1, IntendedAt DEF Rlar
<1>3. /\ VerifyRegion(idx, c.base_addr, rl, "v_regions")
      /\ idx' = idx + 1 /\ UNCHANGED cfgrc
  BY DEF VRegion
<1>4. /\ AuditOk'
      /\ sau' \in SauState /\ sau'.allns = sau.allns
      /\ faults' \in 0 .. MaxFaults /\ vrc' \in Rcs
      /\ pc' \in {"v_regions", "done"} /\ (pc' = "done" => vrc' = "GENERIC")
  <2>1. "v_regions" \in VerifyPcs /\ pc \in VerifyPcs
    BY <1>1 DEF VerifyPcs
  <2>2. QED
    BY <1>1, <1>2, <1>3, <2>1, VerifyRegionAudit
<1>5. TypeOK'
  <2>1. idx' \in 0 .. RegionNr
    BY <1>1, <1>3, SauAssumption, ReservedIs
  <2>2. cfgrc' \in Rcs
    BY <1>3 DEF SauInv, TypeOK
  <2>3. QED
    BY <1>4, <2>1, <2>2 DEF TypeOK
<1>6. ~sau'.allns /\ Shape' /\ CfgOk'
  BY <1>1, <1>3, <1>4 DEF SauInv, Shape, CfgOk, CfgPcs
<1>7. QED
  BY <1>4, <1>5, <1>6 DEF SauInv

LEMMA VRegionsDoneStep ==
    ASSUME SauInv, VRegionsDone
    PROVE  SauInv'
<1>1. TypeOK'
  BY DEF SauInv, TypeOK, VRegionsDone
<1>2. Shape'
  BY ReservedIs, SauAssumption DEF SauInv, TypeOK, Shape, VRegionsDone
<1>3. AuditOk'
  BY DEF SauInv, AuditOk, Checked, Match, VRegionsDone, VerifyPcs
<1>4. QED
  BY <1>1, <1>2, <1>3 DEF SauInv, VRegionsDone, CfgOk, CfgPcs

\* Lines 164-173.
LEMMA VVeneerStep ==
    ASSUME SauInv, VVeneer
    PROVE  SauInv'
<1> DEFINE rl == Rlar(LimitOf(VeneerBase, VeneerLimit - VeneerBase), TRUE, TRUE)
<1>1. /\ pc = "v_veneer" /\ UseTz /\ idx = Len(Config) /\ idx \in Nat
      /\ Reserved = 1 /\ idx + 1 <= RegionNr /\ idx \in Regions
  BY SauAssumption, ReservedIs DEF VVeneer, SauInv, TypeOK, Shape, Regions
<1>2. Intended.rbar[idx] = VeneerBase /\ Intended.rlar[idx] = rl /\ rl.en
  BY <1>1, IntendedAt, VeneerLimitSame DEF Rlar
<1>3. /\ VerifyRegion(idx, VeneerBase, rl, "v_unused")
      /\ idx' = idx + 1 /\ UNCHANGED cfgrc
  BY DEF VVeneer
<1>4. /\ AuditOk'
      /\ sau' \in SauState /\ sau'.allns = sau.allns
      /\ faults' \in 0 .. MaxFaults /\ vrc' \in Rcs
      /\ pc' \in {"v_unused", "done"} /\ (pc' = "done" => vrc' = "GENERIC")
  <2>1. "v_unused" \in VerifyPcs /\ pc \in VerifyPcs
    BY <1>1 DEF VerifyPcs
  <2>2. QED
    BY <1>1, <1>2, <1>3, <2>1, VerifyRegionAudit
<1>5. TypeOK'
  <2>1. idx' \in 0 .. RegionNr
    BY <1>1, <1>3, SauAssumption, ReservedIs
  <2>2. cfgrc' \in Rcs
    BY <1>3 DEF SauInv, TypeOK
  <2>3. QED
    BY <1>4, <2>1, <2>2 DEF TypeOK
<1>6. ~sau'.allns /\ Shape' /\ CfgOk'
  BY <1>1, <1>3, <1>4 DEF SauInv, Shape, CfgOk, CfgPcs
<1>7. QED
  BY <1>4, <1>5, <1>6 DEF SauInv
\* Lines 176-188: ifx_sau_verify_static_boundaries reads RNR and RLAR only.
LEMMA VUnusedStep ==
    ASSUME SauInv, VUnused
    PROVE  SauInv'
<1>1. /\ pc = "v_unused" /\ idx \in Regions /\ idx \in Nat
      /\ Len(Config) + Reserved <= idx
      /\ sau \in SauState /\ faults \in 0 .. MaxFaults /\ MaxFaults \in Nat
  BY SauAssumption DEF VUnused, SauInv, TypeOK, Shape, Regions
<1>2. PICK s \in Skips({"rnr", "if"}) :
        LET r == IF s = "rnr" THEN sau.rnr ELSE idx
        IN  /\ sau' = [sau EXCEPT !.rnr = r]
            /\ IF sau.rlar[r].en /\ s # "if"
               THEN pc' = "done" /\ vrc' = "GENERIC"
               ELSE UNCHANGED <<pc, vrc>>
            /\ Faulted(s)
  BY DEF VUnused
<1>3. /\ idx' = idx + 1 /\ UNCHANGED cfgrc
  BY DEF VUnused
<1>4. /\ sau' \in SauState /\ sau'.allns = sau.allns /\ sau'.enable = sau.enable
      /\ sau'.rbar = sau.rbar /\ sau'.rlar = sau.rlar
  BY <1>1, <1>2 DEF SauState
<1>5. /\ faults' \in 0 .. MaxFaults
      /\ pc' \in {"v_unused", "done"} /\ (pc' = "done" => vrc' = "GENERIC")
      /\ vrc' \in Rcs
  <2>1. faults' \in 0 .. MaxFaults
    BY <1>1, <1>2, SkipIs DEF Faulted
  <2>2. pc' \in {"v_unused", "done"} /\ (pc' = "done" => vrc' = "GENERIC")
    BY <1>1, <1>2
  <2>3. vrc \in Rcs
    BY DEF SauInv, TypeOK
  <2>4. vrc' \in Rcs
    BY <1>2, <2>3 DEF Rcs
  <2>5. QED
    BY <2>1, <2>2, <2>4
<1>6. \A r \in Regions : Match(r)' = Match(r)
  BY <1>4 DEF Match, MatchOf
<1>7. TypeOK'
  <2>1. idx' \in 0 .. RegionNr
    BY <1>1, <1>3, SauAssumption DEF Regions
  <2>2. cfgrc' \in Rcs
    BY <1>3 DEF SauInv, TypeOK
  <2>3. pc' \in {"check", "disable", "regions", "veneer", "unused", "enable",
                 "v_regions", "v_veneer", "v_unused", "done", "halt"}
    BY <1>5
  <2>4. QED
    BY <1>4, <1>5, <2>1, <2>2, <2>3 DEF TypeOK
<1>8. ~sau'.allns /\ Shape' /\ CfgOk'
  <2>1. ~sau'.allns
    BY <1>4 DEF SauInv
  <2>2. Len(Config) \in Nat /\ Reserved \in Nat /\ Len(Config) + Reserved <= RegionNr
    BY <1>1, ReservedIs, SauAssumption DEF SauInv, Shape
  <2>3. Len(Config) + Reserved <= idx'
    BY <1>1, <1>3, <2>2
  <2>4. ~(pc' = "done" /\ vrc' = "SUCCESS")
    BY <1>5
  <2>5. Shape'
    BY <1>5, <2>2, <2>3, <2>4 DEF Shape
  <2>6. CfgOk'
    BY <1>5 DEF CfgOk, CfgPcs
  <2>7. QED
    BY <2>1, <2>5, <2>6
<1>9. AuditOk'
  <2>1. CASE sau.enable /\ \A r \in Regions : Match(r)
    BY <1>4, <1>5, <1>6, <2>1 DEF AuditOk, VerifyPcs
  <2>2. CASE faults = MaxFaults /\ Checked
    <3>1. s = "none" /\ faults' = MaxFaults
      BY <1>1, <1>2, <2>2, SkipIs DEF Faulted
    <3>2. Intended.rlar[idx] = RlarZero
      BY <1>1, IntendedAt
    <3>3. ~sau.rlar[idx].en => Match(idx)
      <4>1. sau.rlar[idx].en \in BOOLEAN
        BY <1>1 DEF SauState
      <4>2. Intended.rlar[idx].en = FALSE
        BY <3>2 DEF RlarZero, Rlar
      <4>3. QED
        BY <4>1, <4>2 DEF Match, MatchOf
    <3>4. /\ sau.rlar[idx].en => pc' = "done" /\ vrc' = "GENERIC"
          /\ ~sau.rlar[idx].en => pc' = "v_unused"
      BY <1>1, <1>2, <3>1
    <3>5. (pc' \in VerifyPcs \/ vrc' = "SUCCESS") => \A r \in Regions : r < idx + 1 => Match(r)
      BY <1>1, <2>2, <3>3, <3>4, SauAssumption DEF Checked, Regions, VerifyPcs
    <3>6. QED
      BY <1>3, <1>6, <3>1, <3>5 DEF AuditOk, Checked
  <2>3. QED
    BY <1>1, <2>1, <2>2 DEF SauInv, AuditOk, VerifyPcs
<1>10. QED
  BY <1>7, <1>8, <1>9 DEF SauInv

LEMMA VUnusedDoneStep ==
    ASSUME SauInv, VUnusedDone
    PROVE  SauInv'
<1>1. TypeOK' /\ ~sau'.allns
  BY DEF SauInv, TypeOK, VUnusedDone
<1>2. Shape'
  BY DEF SauInv, Shape, VUnusedDone
<1>3. AuditOk'
  BY DEF SauInv, AuditOk, Checked, Match, VUnusedDone, VerifyPcs
<1>4. QED
  BY <1>1, <1>2, <1>3 DEF SauInv, VUnusedDone, CfgOk, CfgPcs
\* Every step of the boot, and a stutter, keeps the invariant.
LEMMA NextSauInv == SauHyp /\ SauInv /\ [Next]_vars => SauInv'
<1> SUFFICES ASSUME SauHyp, SauInv, [Next]_vars PROVE SauInv'
  OBVIOUS
<1>1. CASE CfgCheck        BY <1>1, CfgCheckStep
<1>2. CASE Disable         BY <1>2, DisableStep
<1>3. CASE CfgRegion       BY <1>3, CfgRegionStep
<1>4. CASE CfgRegionsDone  BY <1>4, CfgRegionsDoneStep
<1>5. CASE CfgVeneer       BY <1>5, CfgVeneerStep
<1>6. CASE CfgUnused       BY <1>6, CfgUnusedStep
<1>7. CASE CfgUnusedDone   BY <1>7, CfgUnusedDoneStep
<1>8. CASE Enable          BY <1>8, EnableStep
<1>9. CASE VRegion         BY <1>9, VRegionStep
<1>10. CASE VRegionsDone   BY <1>10, VRegionsDoneStep
<1>11. CASE VVeneer        BY <1>11, VVeneerStep
<1>12. CASE VUnused        BY <1>12, VUnusedStep
<1>13. CASE VUnusedDone    BY <1>13, VUnusedDoneStep
<1>14. CASE UNCHANGED vars
  BY <1>14 DEF vars, SauInv, TypeOK, Shape, CfgOk, AuditOk, Checked, Match, MatchOf
<1>15. QED
  BY <1>1, <1>2, <1>3, <1>4, <1>5, <1>6, <1>7, <1>8, <1>9, <1>10, <1>11,
     <1>12, <1>13, <1>14 DEF Next

\* A passed audit leaves every region as the tables describe it.
LEMMA AuditedMatch ==
    ASSUME SauInv, Audited
    PROVE  \A r \in Regions : Match(r)
<1>1. idx = RegionNr
  BY DEF SauInv, Shape, Audited
<1>2. CASE sau.enable /\ \A r \in Regions : Match(r)
  BY <1>2
<1>3. CASE faults = MaxFaults /\ (pc \in VerifyPcs \/ vrc = "SUCCESS" => Checked)
  BY <1>1, <1>3, SauAssumption DEF Audited, Checked, Regions
<1>4. QED
  BY <1>2, <1>3 DEF SauInv, AuditOk, Audited

-----------------------------------------------------------------------------
(***************************************************************************)
(* When ifx_sau_verify_static_boundaries returns FIH_SUCCESS after         *)
(* ifx_sau_cfg (protection_sau.c), no address is NS or NSC that SAU_config *)
(* and the veneer do not make so, for every region count, table and       *)
(* address width, whichever single register write or branch is skipped:   *)
(* an enabled SAU matches the tables region by region, and a disabled one  *)
(* attributes every address secure as ALLNS is clear.                      *)
(***************************************************************************)
THEOREM SauNeverWiderHolds == SauHyp => (Spec => []SauNeverWider)
<1> SUFFICES ASSUME SauHyp PROVE Spec => []SauNeverWider
  OBVIOUS
<1>1. Init => SauInv
  BY InitSauInv
<1>2. SauInv /\ [Next]_vars => SauInv'
  BY NextSauInv
<1>3. SauInv => SauNeverWider
  <2> SUFFICES ASSUME SauInv, Audited, NEW a \in Addr, Attr(sau, a) # "S"
               PROVE  Attr(sau, a) = Attr(Intended, a)
    BY DEF SauNeverWider
  <2>1. \A r \in Regions : MatchOf(sau, r)
    BY AuditedMatch DEF Match
  <2>2. CASE sau.enable
    BY <2>1, <2>2, AttrSame
  <2>3. CASE ~sau.enable
    <3>1. ~sau.allns
      BY DEF SauInv
    <3>2. Attr(sau, a) = "S"
      BY <2>3, <3>1, AttrIs
    <3>3. QED
      BY <3>2
  <2>4. QED
    BY <2>2, <2>3
<1>4. QED
  BY <1>1, <1>2, <1>3, PTL DEF Spec
=============================================================================
