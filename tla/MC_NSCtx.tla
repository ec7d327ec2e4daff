------------------------------ MODULE MC_NSCtx ------------------------------
(* The NS context manager as built: one context slot and up to 0xff       *)
(* threads per group, under arbitrary calls of two groups and two threads. *)
EXTENDS NSCtx

MCNsids == {-1, -2, 5}
=============================================================================
