--------------------------- MODULE FundingLedger ---------------------------
(***************************************************************************)
(* What initial_funding_status.json promises its readers: each eligible    *)
(* recipient is open until it is decided once, for good, as funded or as   *)
(* given up, and the ledger closes, for good, only when nobody is open.    *)
(* It is the abstract specification that MinerDistributor implements.      *)
(***************************************************************************)
CONSTANT Recipients

VARIABLES outcome, closed

ledger == <<outcome, closed>>

Outcomes == {"open", "funded", "givenup"}

Init ==
    /\ outcome = [r \in Recipients |-> "open"]
    /\ closed = FALSE

AllDecided(o) == \A r \in Recipients : o[r] # "open"

\* One write of the file decides any number of open recipients, and may close.
Write ==
    /\ ~closed
    /\ outcome' \in [Recipients -> Outcomes]
    /\ \A r \in Recipients : outcome[r] # "open" => outcome'[r] = outcome[r]
    /\ closed' \in BOOLEAN
    /\ closed' => AllDecided(outcome')

Next == Write

Spec == Init /\ [][Next]_ledger

=============================================================================
