------------------------------ MODULE Regions ------------------------------
(***************************************************************************)
(* The interval helpers of utils/ifx_regions.c, which place a range        *)
(* [start, limit] (limit inclusive) in another. They are pure functions of *)
(* four uintptr_t arguments; they are given here as operators beside the   *)
(* set-theoretic meaning of "inside" and "overlap", and TZCheck_proofs     *)
(* proves the two equal for every integer argument, hence for every       *)
(* address width.                                                          *)
(***************************************************************************)
EXTENDS Integers

\* ifx_is_region_inside_other.
IsRegionInsideOther(fs, fl, ss, sl) ==
    IF fs > fl \/ ss > sl THEN "SPM_ERROR_GENERIC"
    ELSE IF fs >= ss /\ fl <= sl THEN "SPM_SUCCESS" ELSE "SPM_ERROR_GENERIC"

\* ifx_is_region_overlap_other.
IsRegionOverlapOther(fs, fl, ss, sl) ==
    IF fs > fl \/ ss > sl THEN "SPM_ERROR_GENERIC"
    ELSE IF fs <= sl /\ fl >= ss THEN "SPM_SUCCESS" ELSE "SPM_ERROR_GENERIC"

-----------------------------------------------------------------------------
(* The reference: the two ranges as sets of addresses, each nonempty.      *)

InsideRef(fs, fl, ss, sl) ==
    fs .. fl # {} /\ ss .. sl # {} /\ fs .. fl \subseteq ss .. sl

OverlapRef(fs, fl, ss, sl) ==
    fs .. fl # {} /\ ss .. sl # {} /\ (fs .. fl) \cap (ss .. sl) # {}
=============================================================================
