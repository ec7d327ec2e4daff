-------------------------------- MODULE Sau --------------------------------
(***************************************************************************)
(* SAU programming and its FIH verification (protection_sau.c).            *)
(*                                                                         *)
(* ifx_sau_cfg disables the SAU, writes the SAU_config[] regions as        *)
(* non-secure and the veneer region as non-secure callable through the     *)
(* RNR/RBAR/RLAR register window, clears every remaining region and        *)
(* enables the SAU.  ifx_sau_verify_static_boundaries later reads the same *)
(* registers back.  An earlier boot stage may have left the SAU in any     *)
(* state.  Boot runs on one core, so each register access is one step; a   *)
(* fault injection may skip up to MaxFaults of them (a write, or a branch  *)
(* of the verification).                                                   *)
(***************************************************************************)
EXTENDS Integers, Sequences, FiniteSets

CONSTANTS
    Word,       \* 2^32 in the code
    Granule,    \* 32: SAU_RBAR_BADDR_Msk and SAU_RLAR_LADDR_Msk clear the low bits
    RegionNr,   \* CPUSS_CM33_0_SAU_REGION_NR
    Config,     \* SAU_config[]: a sequence of [base_addr, size]
    UseTz,      \* CONFIG_TFM_USE_TRUSTZONE
    VeneerBase, \* Image$$ER_VENEER$$Base
    VeneerLimit,\* Image$$VENEER_ALIGN$$Limit
    BootStates, \* the SAU register states an earlier boot stage may leave
    MaxFaults   \* how many steps a fault injection may skip

\* SAU_config[] is an array, the veneer symbols are uint32_t addresses, and
\* the SPM_ASSERTs of lines 53-57 and 76-77 hold for the shipped tables.
ASSUME SauAssumption ==
    /\ Granule \in Nat \ {0} /\ Word \in Nat \ {0} /\ Word % Granule = 0
    /\ RegionNr \in Nat \ {0} /\ UseTz \in BOOLEAN /\ MaxFaults \in Nat
    /\ Config \in Seq([base_addr : Nat, size : Nat])
    /\ VeneerBase \in 0 .. Word - 1 /\ VeneerLimit \in Nat
    /\ \A i \in DOMAIN Config :
          /\ Config[i].base_addr \in 0 .. Word - 1 /\ Config[i].base_addr % Granule = 0
          /\ Config[i].size \in 0 .. Word - 1 /\ Config[i].size % Granule = 0
    /\ VeneerBase % Granule = 0 /\ VeneerLimit % Granule = 0

Regions == 0 .. RegionNr - 1

Addr == 0 .. Word - 1

\* IFX_SAU_RESERVED_REGION_COUNT: the veneer region.
Reserved == IF UseTz THEN 1 ELSE 0

\* An RLAR value: the limit field, NSC and ENABLE.
Rlar(limit, nsc, en) == [limit |-> limit, nsc |-> nsc, en |-> en]

RlarZero == Rlar(0, FALSE, FALSE)

\* (last & SAU_RLAR_LADDR_Msk), with last computed in uint32_t.
LimitAddr(last) == ((last % Word) \div Granule) * Granule

LimitOf(base, size) == LimitAddr(base + size - 1)

VARIABLES
    sau,      \* CTRL.ENABLE, CTRL.ALLNS, RNR and the RBAR/RLAR of each region
    pc,       \* the step of ifx_sau_cfg or ifx_sau_verify_static_boundaries
    idx,      \* the loop index of the running function
    faults,   \* the steps skipped so far
    cfgrc,    \* what ifx_sau_cfg returned
    vrc       \* fih_rc of ifx_sau_verify_static_boundaries

vars == <<sau, pc, idx, faults, cfgrc, vrc>>

SauState ==
    [enable : BOOLEAN, allns : BOOLEAN, rnr : Regions,
     rbar : [Regions -> Addr],
     rlar : [Regions -> [limit : Addr, nsc : BOOLEAN, en : BOOLEAN]]]

Rcs == {"none", "SUCCESS", "INVALID_INPUT", "GENERIC"}

TypeOK ==
    /\ sau \in SauState
    /\ pc \in {"check", "disable", "regions", "veneer", "unused", "enable",
               "v_regions", "v_veneer", "v_unused", "done", "halt"}
    /\ idx \in 0 .. RegionNr
    /\ faults \in 0 .. MaxFaults
    /\ cfgrc \in Rcs /\ vrc \in Rcs

Init ==
    /\ sau \in BootStates
    /\ pc = "check"
    /\ idx = 0
    /\ faults = 0
    /\ cfgrc = "none" /\ vrc = "none"

\* The steps a fault may skip in the current step: none, or one of what.
Skips(what) == {"none"} \cup (IF faults < MaxFaults THEN what ELSE {})

Faulted(s) == faults' = faults + (IF s = "none" THEN 0 ELSE 1)

\* One loop iteration of ifx_sau_cfg: RNR = i, then RBAR and RLAR.
WriteRegion(i, base, rlar, s) ==
    LET r == IF s = "rnr" THEN sau.rnr ELSE i
    IN  sau' = [sau EXCEPT !.rnr = r,
                           !.rbar[r] = IF s = "rbar" THEN @ ELSE base,
                           !.rlar[r] = IF s = "rlar" THEN @ ELSE rlar]

-----------------------------------------------------------------------------
(* ifx_sau_cfg                                                             *)

\* Line 36: too many regions for the SAU leaves it untouched.
CfgCheck ==
    /\ pc = "check"
    /\ IF Len(Config) > RegionNr - Reserved
       THEN pc' = "halt" /\ cfgrc' = "INVALID_INPUT"
       ELSE pc' = "disable" /\ UNCHANGED cfgrc
    /\ UNCHANGED <<sau, idx, faults, vrc>>

\* TZ_SAU_Disable.
Disable ==
    /\ pc = "disable"
    /\ \E s \in Skips({"ctrl"}) :
          /\ sau' = IF s = "none" THEN [sau EXCEPT !.enable = FALSE] ELSE sau
          /\ Faulted(s)
    /\ pc' = "regions" /\ idx' = 0
    /\ UNCHANGED <<cfgrc, vrc>>

\* Lines 51-71: SAU_config[idx] as an enabled non-secure region.
CfgRegion ==
    /\ pc = "regions" /\ idx < Len(Config)
    /\ LET c == Config[idx + 1]
       IN  \E s \in Skips({"rnr", "rbar", "rlar"}) :
              /\ WriteRegion(idx, c.base_addr,
                             Rlar(LimitOf(c.base_addr, c.size), FALSE, TRUE), s)
              /\ Faulted(s)
    /\ idx' = idx + 1
    /\ UNCHANGED <<pc, cfgrc, vrc>>

CfgRegionsDone ==
    /\ pc = "regions" /\ idx = Len(Config)
    /\ pc' = IF UseTz THEN "veneer" ELSE "unused"
    /\ UNCHANGED <<sau, idx, faults, cfgrc, vrc>>

\* Lines 73-87: the veneer region, non-secure callable.
CfgVeneer ==
    /\ pc = "veneer"
    /\ \E s \in Skips({"rnr", "rbar", "rlar"}) :
          /\ WriteRegion(idx, VeneerBase, Rlar(LimitAddr(VeneerLimit - 1), TRUE, TRUE), s)
          /\ Faulted(s)
    /\ idx' = idx + 1 /\ pc' = "unused"
    /\ UNCHANGED <<cfgrc, vrc>>

\* Lines 92-97: RNR = idx, RLAR = 0.
CfgUnused ==
    /\ pc = "unused" /\ idx < RegionNr
    /\ \E s \in Skips({"rnr", "rlar"}) :
          /\ LET r == IF s = "rnr" THEN sau.rnr ELSE idx
             IN  sau' = [sau EXCEPT !.rnr = r,
                                    !.rlar[r] = IF s = "rlar" THEN @ ELSE RlarZero]
          /\ Faulted(s)
    /\ idx' = idx + 1
    /\ UNCHANGED <<pc, cfgrc, vrc>>

CfgUnusedDone ==
    /\ pc = "unused" /\ idx = RegionNr
    /\ pc' = "enable"
    /\ UNCHANGED <<sau, idx, faults, cfgrc, vrc>>

\* TZ_SAU_Enable and FIH_RET(TFM_HAL_SUCCESS); the audit follows.
Enable ==
    /\ pc = "enable"
    /\ \E s \in Skips({"ctrl"}) :
          /\ sau' = IF s = "none" THEN [sau EXCEPT !.enable = TRUE] ELSE sau
          /\ Faulted(s)
    /\ cfgrc' = "SUCCESS"
    /\ pc' = "v_regions" /\ idx' = 0 /\ vrc' = "GENERIC"

-----------------------------------------------------------------------------
(* ifx_sau_verify_static_boundaries; fih_rc starts as TFM_HAL_ERROR_GENERIC *)

(***************************************************************************)
(* ifx_sau_verify_region(i, base, size, nsc) and the fih_not_eq after it:  *)
(* RNR = i, RBAR and RLAR compared; a mismatch returns GENERIC unless the  *)
(* fault skips the branch, and the loop goes on at next.                   *)
(***************************************************************************)
VerifyRegion(i, base, rlar, next) ==
    \E s \in Skips({"rnr", "if"}) :
        LET r  == IF s = "rnr" THEN sau.rnr ELSE i
            ok == sau.rbar[r] = base /\ sau.rlar[r] = rlar
        IN  /\ sau' = [sau EXCEPT !.rnr = r]
            /\ vrc' = IF ok THEN "SUCCESS" ELSE "GENERIC"
            /\ pc' = IF ~ok /\ s # "if" THEN "done" ELSE next
            /\ Faulted(s)

\* Lines 155-162.
VRegion ==
    /\ pc = "v_regions" /\ idx < Len(Config)
    /\ LET c == Config[idx + 1]
       IN  VerifyRegion(idx, c.base_addr,
                        Rlar(LimitOf(c.base_addr, c.size), FALSE, TRUE), "v_regions")
    /\ idx' = idx + 1
    /\ UNCHANGED cfgrc

VRegionsDone ==
    /\ pc = "v_regions" /\ idx = Len(Config)
    /\ pc' = IF UseTz THEN "v_veneer" ELSE "v_unused"
    /\ UNCHANGED <<sau, idx, faults, cfgrc, vrc>>

\* Lines 164-173: the size is the difference of the two linker symbols.
VVeneer ==
    /\ pc = "v_veneer"
    /\ VerifyRegion(idx, VeneerBase,
                    Rlar(LimitOf(VeneerBase, VeneerLimit - VeneerBase), TRUE, TRUE),
                    "v_unused")
    /\ idx' = idx + 1
    /\ UNCHANGED cfgrc

VUnusedNoCheck ==
    /\ pc = "v_unused" /\ idx < RegionNr
    /\ sau' = [sau EXCEPT !.rnr = idx]
    /\ idx' = idx + 1
    /\ UNCHANGED <<pc, faults, cfgrc, vrc>>

\* Lines 178-186: a region left enabled returns GENERIC.
VUnused ==
    /\ pc = "v_unused" /\ idx < RegionNr
    /\ \E s \in Skips({"rnr", "if"}) :
          LET r == IF s = "rnr" THEN sau.rnr ELSE idx
          IN  /\ sau' = [sau EXCEPT !.rnr = r]
              /\ IF sau.rlar[r].en /\ s # "if"
                 THEN pc' = "done" /\ vrc' = "GENERIC"
                 ELSE UNCHANGED <<pc, vrc>>
              /\ Faulted(s)
    /\ idx' = idx + 1
    /\ UNCHANGED cfgrc

\* Line 190: FIH_RET(fih_rc), the result of the last region compared.
VUnusedDone ==
    /\ pc = "v_unused" /\ idx = RegionNr
    /\ pc' = "done"
    /\ UNCHANGED <<sau, idx, faults, cfgrc, vrc>>

\* The boot ends after the audit, or after a failed ifx_sau_cfg.
Next ==
    \/ CfgCheck \/ Disable \/ CfgRegion \/ CfgRegionsDone \/ CfgVeneer
    \/ CfgUnused \/ CfgUnusedDone \/ Enable
    \/ VRegion \/ VRegionsDone \/ VVeneer \/ VUnused \/ VUnusedDone

Spec == Init /\ [][Next]_vars

-----------------------------------------------------------------------------
(***************************************************************************)
(* The security attribution of address a by the SAU (the IDAU left out):  *)
(* with the SAU disabled ALLNS decides; otherwise an address in exactly    *)
(* one enabled region takes that region's NS or NSC, and every other       *)
(* address, in none or in several regions, is secure.                      *)
(***************************************************************************)
Attr(st, a) ==
    LET hits == {r \in Regions : st.rlar[r].en /\ st.rbar[r] <= a
                                 /\ a <= st.rlar[r].limit + Granule - 1}
    IN  IF ~st.enable THEN (IF st.allns THEN "NS" ELSE "S")
        ELSE IF Cardinality(hits) # 1 THEN "S"
        ELSE IF st.rlar[CHOOSE r \in hits : TRUE].nsc THEN "NSC" ELSE "NS"

\* The SAU as SAU_config[] and the veneer region describe it.
Intended ==
    [enable |-> TRUE, allns |-> FALSE, rnr |-> 0,
     rbar |-> [r \in Regions |->
                 IF r < Len(Config) THEN Config[r + 1].base_addr
                 ELSE IF UseTz /\ r = Len(Config) THEN VeneerBase ELSE 0],
     rlar |-> [r \in Regions |->
                 IF r < Len(Config)
                 THEN Rlar(LimitOf(Config[r + 1].base_addr, Config[r + 1].size), FALSE, TRUE)
                 ELSE IF UseTz /\ r = Len(Config)
                 THEN Rlar(LimitAddr(VeneerLimit - 1), TRUE, TRUE) ELSE RlarZero]]

Audited == pc = "done" /\ vrc = "SUCCESS"

-----------------------------------------------------------------------------
(* Properties *)

(***************************************************************************)
(* A passed audit means no address is non-secure or non-secure callable    *)
(* that SAU_config[] and the veneer do not make so, whatever an earlier    *)
(* boot stage left in the SAU and whichever single register write or      *)
(* verification branch a fault skips: a stale region the clearing loop of  *)
(* ifx_sau_cfg missed is caught by the unused-region check.                *)
(***************************************************************************)
SauNeverWider ==
    Audited => \A a \in Addr : Attr(sau, a) # "S" => Attr(sau, a) = Attr(Intended, a)

(***************************************************************************)
(* The audit is the self-check that the configuration took effect: when    *)
(* it passes, every address has the attribution the tables give it.        *)
(***************************************************************************)
SauVerified ==
    Audited => \A a \in Addr : Attr(sau, a) = Attr(Intended, a)

=============================================================================
