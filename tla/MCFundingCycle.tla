--------------------------- MODULE MCFundingCycle ---------------------------
(* Instances of FundingCycle for model checking. *)
EXTENDS FundingCycle

CONSTANTS m1, m2

MCMiners == {m1, m2}

MCAllFaults == FaultKinds
MCNoFaults == {}

\* Every miner can pay a whole batch of two.
MCFullFits == {2}

\* Every miner has one matured coinbase: enough for one recipient.
MCOneFits == {1}

=============================================================================
