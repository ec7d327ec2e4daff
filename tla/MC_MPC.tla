------------------------------ MODULE MC_MPC ------------------------------
(* A small device for MPC: one native MPC (2 blocks) and the RRAM gated   *)
(* by the SE RT service (2 blocks), PCs 0..2 with the SPM at PC 1.        *)
EXTENDS MPC

Cfg(a, s, pcs, ns, r, w) == [addr |-> a, size |-> s, pcs |-> pcs, ns |-> ns, r |-> r, w |-> w]

MCMems == {"sram", "rram"}
MCMemCfg ==
    [m \in MCMems |->
        IF m = "sram" THEN [base |-> 0, blocks |-> 2, bsize |-> 2, delegated |-> FALSE]
                      ELSE [base |-> 4, blocks |-> 2, bsize |-> 2, delegated |-> TRUE]]

\* tables the TZ configurator may generate: whole memories, single blocks,
\* and one range that crosses from SRAM into RRAM
MCStaticTables ==
    { << Cfg(0, 4, {0, 1, 2}, {}, {0, 1, 2}, {1, 2}),
         Cfg(4, 4, {1, 2}, {2}, {1, 2}, {1, 2}) >>,
      << Cfg(0, 2, {1, 2}, {2}, {1, 2}, {1}),
         Cfg(6, 2, {2}, {}, {2}, {2}) >>,
      << Cfg(2, 4, {1}, {}, {1}, {1}) >>,
      << Cfg(0, 3, {0, 1}, {0}, {0, 1}, {0, 1}),
         Cfg(4, 3, {1, 2}, {}, {1, 2}, {}),
         Cfg(7, 1, {2}, {2}, {2}, {2}) >> }

\* the veneer and unprivileged code: read-only for the SPM PC only
MCFixedCfgs == << Cfg(0, 2, {1}, {}, {1}, {}), Cfg(4, 1, {1}, {}, {1}, {}) >>

\* MMIO assets of three partitions sharing SRAM block 1 and RRAM block 1
MCAssets == { [start |-> 2, limit |-> 4, rw |-> TRUE, pcs |-> {1, 2}, ns |-> {}],
              [start |-> 2, limit |-> 4, rw |-> FALSE, pcs |-> {1}, ns |-> {}],
              [start |-> 3, limit |-> 4, rw |-> TRUE, pcs |-> {0, 1}, ns |-> {0}],
              [start |-> 6, limit |-> 8, rw |-> FALSE, pcs |-> {1}, ns |-> {}],
              [start |-> 6, limit |-> 8, rw |-> TRUE, pcs |-> {1, 2}, ns |-> {2}] }

MCGateReset == [sec |-> "S", acc |-> "RW"]
MCGateResets == {[sec |-> "S", acc |-> "RW"], [sec |-> "NS", acc |-> "D"]}
MCCacheDefault == [pc \in 0 .. 2 |-> [ns |-> FALSE, r |-> TRUE, w |-> TRUE]]

MCParts == {"spm", "nsagent", "broken"}
MCSecurePC == [p \in MCParts |-> IF p = "broken" THEN InvalidPC ELSE 1]
MCNonSecurePC == [p \in MCParts |-> IF p = "nsagent" THEN 2 ELSE InvalidPC]
MCNsAgent == [p \in MCParts |-> p = "nsagent"]

MCGlitchVals == {[sec |-> "S", acc |-> "RW"], [sec |-> "NS", acc |-> "RW"]}
=============================================================================
