---------------------------- MODULE Calibration ----------------------------
(***************************************************************************)
(* What the tools derive from the measured cost of a transaction           *)
(* (scripts/calibrate.py): the shortest interval between the transactions  *)
(* of a user, the distance between the users' first ones, and the interval *)
(* of agents that ask every node.  Times are in seconds.                   *)
(***************************************************************************)
EXTENDS SpawnBatches

CONSTANTS
    Cores,     \* cores of the machine
    VerifyUs   \* p95 of the verification of a transaction, in microseconds

ASSUME MachineAssumption == Cores \in Nat \ {0} /\ VerifyUs \in Nat

\* compute_min_safe_interval: three times the cost of the users' own
\* transactions, and of the events of a transaction on every node.
SafeMinimum(users, nodes, measured) ==
    IF ~measured \/ users = 0 THEN 0
    ELSE Greatest((users * VerifyUs * 3) \div 1000000, (users * nodes * 3) \div Cores)

\* compute_safe_interval: also an interval that was asked for is raised.
SafeInterval(users, nodes, measured, requested) ==
    Greatest(requested, SafeMinimum(users, nodes, measured))

\* compute_stagger
StaggerBetween(users, nodes, measured, interval) ==
    IF users = 0 THEN 0
    ELSE Greatest(1, SafeInterval(users, nodes, measured, interval) \div users)

\* compute_safe_poll_interval: 3 events a second on 256 cores.
SafePollInterval(nodes) == Greatest(300, (nodes * 256) \div (3 * Cores))

=============================================================================
