---------------------------- MODULE SpawnBatches ----------------------------
(***************************************************************************)
(* Waves in which many processes are started: the size of a wave doubles   *)
(* up to a limit (calculate_batch_sizes of scripts/config_generation and   *)
(* calculate_batched_schedule of scripts/scenario_parser.py).              *)
(***************************************************************************)
EXTENDS Integers

Least(a, b) == IF a < b THEN a ELSE b
Greatest(a, b) == IF a > b THEN a ELSE b

\* The size of each of n waves; one that has come to the limit stays there.
Sizes(n, first, limit) ==
    LET size[k \in 0..n] ==
            Least(IF k = 0 THEN first ELSE Greatest(2 * size[k - 1], 1), limit)
    IN  size

\* How many of n are started in the first k waves.
Started(n, first, limit) ==
    LET taken[k \in 0..n] ==
            IF k = 0 THEN 0
            ELSE Least(n, taken[k - 1] + Sizes(n, first, limit)[k - 1])
    IN  taken

\* The start of each of n, counted from 0, after the delay of the first wave.
WaveTimes(n, first, limit, delay, interval, within) ==
    LET taken == Started(n, first, limit)
        Wave(i) == CHOOSE k \in 1..n : taken[k - 1] <= i /\ i < taken[k]
    IN  [i \in 0..(n - 1) |->
            delay + (Wave(i) - 1) * interval + (i - taken[Wave(i) - 1]) * within]

=============================================================================
