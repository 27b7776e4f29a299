------------------------ MODULE MCMinerDistributor ------------------------
(* Small instances of MinerDistributor for TLC: three recipients in batches *)
(* of two make one full and one partial batch; two miners make a fail-over. *)
EXTENDS MinerDistributor, TLC

CONSTANTS m1, m2

MCMiners == {m1, m2}
MCNoBroken == {}
MCFirstBroken == {1}
MCAllFaults == FaultKinds
MCReadableFaults == FaultKinds \ {"read"}
MCNoFaults == {}

\* The two miners play the same part: no action tells them apart.
MinerSymmetry == Permutations(MCMiners)

===========================================================================
