---------------------------- MODULE MCUserWallet ----------------------------
(* Instances of UserWallet for model checking. *)
EXTENDS UserWallet

MCUser == {"user"}

MCAllStages == Stages
MCWaiting == {"waiting"}

MCAllFaults == FaultKinds
MCNoFaults == {}

=============================================================================
