------------------------- MODULE MCAutonomousMiner -------------------------
(* Instances of AutonomousMiner for model checking. *)
EXTENDS AutonomousMiner

MCGaps == {0, 3}
MCWaits == {2}
MCDaemons == {{"generateblocks"}, {"start_mining"}}
MCAllFaults == MinerFaults
MCNoFaults == {}

=============================================================================
