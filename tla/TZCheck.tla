------------------------------ MODULE TZCheck ------------------------------
(***************************************************************************)
(* The TrustZone half of tfm_hal_memory_check: ifx_tz_memory_check and     *)
(* ifx_cmse_check_address_range (protection_tz.c).                         *)
(*                                                                         *)
(* The hardware is configured at boot and fixed afterwards: a secure and a *)
(* non-secure MPU (regions, ENABLE, PRIVDEFENA) and the SAU, whose regions *)
(* mark memory non-secure (the IDAU is folded into the SAU layer).  The TT *)
(* instruction family is modelled by what it returns for one address: the *)
(* region numbers with their valid bits and the permission flags.  Each    *)
(* step is one call of ifx_tz_memory_check with any boundary, range and   *)
(* access type, in which a single fault injection may skip one branch;    *)
(* the calls share no state, so a behaviour is one call.                   *)
(***************************************************************************)
EXTENDS Integers, FiniteSets

CONSTANTS
    Word,       \* UINTPTR_MAX + 1
    Granule,    \* 32: the alignment unit of MPU and SAU regions
    Layouts,    \* the MPU and SAU configurations the platform may boot with
    Sizes,      \* the sizes a caller may pass
    Accesses,   \* the access_type values a caller may pass
    FihHigh     \* TFM_FIH_PROFILE_ON && !TFM_FIH_PROFILE_LOW

ASSUME TZCheckAssumption ==
    /\ Word \in Nat /\ Granule \in Nat \ {0} /\ Word % Granule = 0
    /\ Sizes \subseteq 0 .. Word
    /\ Accesses \subseteq SUBSET {"R", "W", "NS"}
    /\ FihHigh \in BOOLEAN

VARIABLES
    layout,   \* the booted MPU and SAU configuration
    req,      \* the arguments of the last call
    glitch,   \* the fault injected into it
    result    \* what it returned

vars == <<layout, req, glitch, result>>

Addr == 0 .. Word - 1

\* Boundaries: a secure partition, the TrustZone NS agent, the mailbox agent.
Kinds == {"secure", "tz_agent", "mailbox"}

Requests ==
    [base : Addr, size : Sizes, access : Accesses, kind : Kinds,
     priv : BOOLEAN,   \* IFX_IS_PARTITION_PRIVILEGED(p_info)
     npriv : BOOLEAN]  \* CONTROL_NS.nPRIV at the time of the call

\* The branch a fault skips in the first or the second FIH call:
\* "cross" the comparison of line 87, "perm" the permission test of lines
\* 100-127 (taken as granted), "ret" the fih_not_eq of line 184 or 192.
Glitches == [at : {"none", "cross", "perm", "ret"}, call : {1, 2}]

NoGlitch == [at |-> "none", call |-> 1]

Results == {"SUCCESS", "MEM_FAULT", "INVALID_INPUT", "none"}

TypeOK ==
    /\ layout \in Layouts
    /\ req \in Requests
    /\ glitch \in Glitches
    /\ result \in Results

-----------------------------------------------------------------------------
(***************************************************************************)
(* The TT instruction for address a, through the non-secure MPU when ns    *)
(* (TTA, TTAT) and with unprivileged permissions when up (TTT, TTAT).  An  *)
(* address in no region of an enabled MPU has the default map only when    *)
(* PRIVDEFENA is set and the access is privileged; an address in several   *)
(* regions has no permission.  Region numbers are 0 when not valid.  lay  *)
(* is the MPU and SAU programming the instruction reads.                   *)
(***************************************************************************)
TT(lay, a, ns, up) ==
    LET mpu   == IF ns THEN lay.nsmpu ELSE lay.smpu
        hits  == {i \in DOMAIN mpu.regions :
                     mpu.regions[i].lo <= a /\ a <= mpu.regions[i].hi}
        one   == mpu.enable /\ Cardinality(hits) = 1
        reg   == CHOOSE i \in hits : TRUE
        shits == {j \in DOMAIN lay.sau :
                     lay.sau[j].lo <= a /\ a <= lay.sau[j].hi}
        nsec  == shits # {}
        r  == IF one THEN ~up \/ mpu.regions[reg].up
              ELSE ~mpu.enable \/ (hits = {} /\ mpu.privdef /\ ~up)
        rw == r /\ (one => mpu.regions[reg].rw)
    IN  [mregion |-> IF one THEN reg ELSE 0, mrvalid |-> one,
         sregion |-> IF nsec THEN CHOOSE j \in shits : TRUE ELSE 0,
         srvalid |-> nsec,
         read_ok |-> r, readwrite_ok |-> rw, secure |-> ~nsec,
         nonsecure_read_ok |-> r /\ nsec, nonsecure_readwrite_ok |-> rw /\ nsec]

\* The cmse.h flags as sets of names; CMSE_NONSECURE is both NS flags.  The
\* image is built for the secure state, so __ARM_FEATURE_CMSE & 2 holds.
NonSecure == {"MPU_NS", "AU_NS"}

Known == {"UNPRIV", "READWRITE", "READ"} \cup NonSecure

KnownSecureLevel == {"UNPRIV", "MPU_NS"}

\* ((uintptr_t)pb ^ (uintptr_t)pe) < 32: the two addresses agree on every
\* bit above the alignment unit.
SameGranule(pb, pe) == pb \div Granule = pe \div Granule

\* The second switch of ifx_cmse_check_address_range: the TT flag that
\* grants the access flags acc.
Granted(t, acc) ==
    CASE acc \in {{"READ", "READWRITE", "AU_NS"}, {"READWRITE", "AU_NS"}}
            -> t.nonsecure_readwrite_ok
      [] acc = {"READ", "AU_NS"}            -> t.nonsecure_read_ok
      [] acc = {"AU_NS"}                    -> ~t.secure
      [] acc \in {{"READ", "READWRITE"}, {"READWRITE"}} -> t.readwrite_ok
      [] acc = {"READ"}                     -> t.read_ok
      [] OTHER                              -> FALSE

(***************************************************************************)
(* ifx_cmse_check_address_range(p, size, flags): the wrap check, the       *)
(* unknown-flag check, TT of the first and the last byte (one TT when they *)
(* share an alignment unit), the boundary comparison and the permission.   *)
(* at is the branch a fault skips in this call.                            *)
(***************************************************************************)
CheckAddressRange(p, size, flags, at) ==
    IF Word - 1 - p < size \/ flags \ Known # {} THEN "INVALID_INPUT"
    ELSE LET pe    == (p + size - 1) % Word
             ns    == "MPU_NS" \in flags
             up    == "UNPRIV" \in flags
             permb == TT(layout, p, ns, up)
             perme == IF SameGranule(p, pe) THEN permb ELSE TT(layout, pe, ns, up)
         IN  IF permb # perme /\ at # "cross" THEN "MEM_FAULT"
             ELSE IF Granted(permb, flags \ KnownSecureLevel) \/ at = "perm"
                  THEN "SUCCESS" ELSE "MEM_FAULT"

\* Lines 151-179: the CMSE flags of a request.
FlagsOf(r) ==
    LET acc == IF {"R", "W"} \subseteq r.access THEN {"READWRITE"} ELSE {"READ"}
    IN  IF r.kind = "tz_agent"
        THEN acc \cup (IF r.npriv THEN {"UNPRIV"} ELSE {}) \cup NonSecure
        ELSE acc \cup (IF r.priv THEN {} ELSE {"UNPRIV"})

\* The mailbox agent asking for non-secure access (lines 147-149).
MailboxCarveOut(r) == r.kind = "mailbox" /\ "NS" \in r.access

\* The check of call c of the FIH pair, with the fault if it hits call c.
CallCheck(r, g, c) ==
    CheckAddressRange(r.base, r.size, FlagsOf(r),
                      IF g.call = c THEN g.at ELSE "none")

\* Line 184 or 192: fih_rc is not SUCCESS and the branch is not skipped.
Rejects(rc, g, c) == rc # "SUCCESS" /\ ~(g.at = "ret" /\ g.call = c)

TzMemoryCheckNoRecheck(r, g) ==
    IF MailboxCarveOut(r) THEN "SUCCESS"
    ELSE IF r.access \cap {"R"} = {} THEN "INVALID_INPUT"
    ELSE IF Rejects(CallCheck(r, g, 1), g, 1) THEN "MEM_FAULT"
    ELSE CallCheck(r, g, 1)

(***************************************************************************)
(* ifx_tz_memory_check: the mailbox carve-out, the access type (write-only *)
(* is invalid), the flags of the boundary, the check, and under the high   *)
(* FIH profile the same check again; FIH_RET(fih_rc) returns the code of   *)
(* the last check.                                                         *)
(***************************************************************************)
TzMemoryCheck(r, g) ==
    IF MailboxCarveOut(r) THEN "SUCCESS"
    ELSE IF r.access \cap {"R"} = {} THEN "INVALID_INPUT"
    ELSE IF Rejects(CallCheck(r, g, 1), g, 1) THEN "MEM_FAULT"
    ELSE IF ~FihHigh THEN CallCheck(r, g, 1)
    ELSE IF Rejects(CallCheck(r, g, 2), g, 2) THEN "MEM_FAULT"
    ELSE CallCheck(r, g, 2)

-----------------------------------------------------------------------------
\* The arguments of a call, and at most one fault injected into it; the
\* second FIH call exists only under the high profile.
Init ==
    /\ layout \in Layouts
    /\ req \in Requests
    /\ glitch \in {g \in Glitches : FihHigh \/ g.call = 1}
    /\ result = "none"

\* The call of ifx_tz_memory_check returns.
Call ==
    /\ result = "none"
    /\ result' = TzMemoryCheck(req, glitch)
    /\ UNCHANGED <<layout, req, glitch>>

Next == Call

Spec == Init /\ [][Next]_vars

-----------------------------------------------------------------------------
(* Properties *)

\* The reference: every byte of the range may be accessed as asked by the
\* caller's security state and privilege, read by read_ok or readwrite_ok
\* of TT at that byte.
RefAllowed(r) ==
    LET ns == r.kind = "tz_agent"
        up == IF ns THEN r.npriv ELSE ~r.priv
        wr == {"R", "W"} \subseteq r.access
    IN  \A a \in r.base .. r.base + r.size - 1 :
            LET t == TT(layout, a, ns, up)
            IN  (IF wr THEN t.readwrite_ok ELSE t.read_ok) /\ (ns => ~t.secure)

(***************************************************************************)
(* ifx_tz_memory_check returns TFM_HAL_SUCCESS only for a range every byte *)
(* of which the caller may access, even with one branch skipped by a fault *)
(* (except through the documented mailbox carve-out): comparing TT at the  *)
(* two ends is enough when no background region grants what a region in   *)
(* the middle denies, and the FIH re-check catches a skipped branch.       *)
(***************************************************************************)
CheckSound ==
    result = "SUCCESS" /\ ~MailboxCarveOut(req) => RefAllowed(req)

=============================================================================
