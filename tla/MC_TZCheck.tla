---------------------------- MODULE MC_TZCheck ----------------------------
(***************************************************************************)
(* A 16-byte address space in alignment units of 4 bytes.  The secure MPU  *)
(* has an unprivileged read-write, an unprivileged read-only and a         *)
(* privileged-only region and no default map, or is disabled; the NS MPU  *)
(* has two regions; the SAU marks one or two stretches non-secure.         *)
(***************************************************************************)
EXTENDS TZCheck

Rgn(l, h, w, u) == [lo |-> l, hi |-> h, rw |-> w, up |-> u]

MCSecureMpus ==
    { [regions |-> <<Rgn(0, 3, TRUE, TRUE), Rgn(4, 7, FALSE, TRUE),
                     Rgn(8, 11, TRUE, FALSE)>>,
       enable |-> TRUE, privdef |-> FALSE],
      [regions |-> <<>>, enable |-> FALSE, privdef |-> FALSE] }

MCNsMpu ==
    [regions |-> <<Rgn(0, 7, TRUE, TRUE), Rgn(8, 11, FALSE, FALSE)>>,
     enable |-> TRUE, privdef |-> FALSE]

MCSaus == { << [lo |-> 8, hi |-> 15] >>,
            << [lo |-> 4, hi |-> 7], [lo |-> 12, hi |-> 15] >> }

MCLayouts == [smpu : MCSecureMpus, nsmpu : {MCNsMpu}, sau : MCSaus]

\* A secure MPU with PRIVDEFENA set and one read-only region in the middle
\* of privileged default-map memory.
MCGapLayouts ==
    [smpu : {[regions |-> <<Rgn(4, 7, FALSE, TRUE)>>,
              enable |-> TRUE, privdef |-> TRUE]},
     nsmpu : {MCNsMpu}, sau : MCSaus]

MCAccesses == {{"R"}, {"R", "W"}, {"W"}, {"R", "NS"}, {"R", "W", "NS"}}
=============================================================================
