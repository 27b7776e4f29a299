------------------------ MODULE MCSimulationMonitor ------------------------
(* Instances of SimulationMonitor for model checking. *)
EXTENDS SimulationMonitor

MCStyle == <<"rpc", "mined">>
MCAllFaults == FaultKinds
=============================================================================
