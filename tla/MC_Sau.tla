------------------------------- MODULE MC_Sau -------------------------------
(* Four SAU regions over a 32-byte address space in units of 4 bytes: two  *)
(* SAU_config[] entries, the veneer in the third region, one left unused.  *)
EXTENDS Sau

MCConfig == << [base_addr |-> 8, size |-> 8], [base_addr |-> 20, size |-> 4] >>

\* The reset state, and an earlier stage that left the SAU enabled with a
\* whole-memory NS region in the unused slot 3 and an NSC region in slot 0.
MCBootStates ==
    LET reset == [enable |-> FALSE, allns |-> FALSE, rnr |-> 0,
                  rbar |-> [r \in Regions |-> 0],
                  rlar |-> [r \in Regions |-> RlarZero]]
        stale(n) == [enable |-> TRUE, allns |-> FALSE, rnr |-> n,
                     rbar |-> [r \in Regions |-> 0],
                     rlar |-> [r \in Regions |->
                                 CASE r = 3 -> Rlar(28, FALSE, TRUE)
                                   [] r = 0 -> Rlar(4, TRUE, TRUE)
                                   [] OTHER -> RlarZero]]
    IN  {reset, stale(0), stale(3)}
=============================================================================
