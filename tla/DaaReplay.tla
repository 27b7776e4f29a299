------------------------------ MODULE DaaReplay ------------------------------
(***************************************************************************)
(* The synthetic difficulty adjustment of an autonomous miner              *)
(* (agents/autonomous_miner.py, _get_daa_multiplier_inner): a multiplier   *)
(* per block height is replayed from the block headers of the daemon, one  *)
(* RPC per header, with a cache of time stamps and of the series.  The     *)
(* daemon's chain grows and is rewritten while the miner asks.             *)
(*                                                                         *)
(* Multipliers are kept in units of 1/One and computed with integer        *)
(* division: what matters is that they are a function of the chain.        *)
(***************************************************************************)
EXTENDS Integers, FiniteSets, Functions

CONSTANTS
    Window,   \* DAA_WINDOW, in blocks
    Start,    \* DAA_START: the last height without a correction
    Target,   \* TARGET_BLOCK_TIME_SECS, in the unit of the time stamps
    One,      \* the multiplier 1.0
    MinD,     \* DAA_MIN
    MaxD,     \* DAA_MAX
    Gaps,     \* the times between two blocks that are considered
    MaxTop,   \* bound: the highest block
    MaxPops,  \* bound: how many blocks reorganisations remove
    Faults,   \* the kinds of deviation the environment may inject
    MaxFaults \* bound: how many deviations one behaviour has

\* info, header: get_info or get_block_header_by_height raises.
ReplayFaults == {"info", "header"}

ASSUME WindowAssumption == Window \in Nat \ {0}
ASSUME StartAssumption == Start \in Nat /\ Start >= Window
ASSUME MultiplierAssumption ==
    /\ Target \in Nat \ {0}
    /\ {One, MinD, MaxD} \subseteq Nat \ {0}
    /\ MinD <= One /\ One <= MaxD
ASSUME GapsAssumption == Gaps \subseteq Nat /\ Gaps # {}
ASSUME BoundsAssumption ==
    /\ MaxTop \in Nat /\ MaxTop >= Start
    /\ MaxPops \in Nat /\ MaxFaults \in Nat

VARIABLES
    chain,      \* time stamp of each block of the daemon's chain
    pops,       \* blocks removed so far
    query,      \* where the miner's question is: "none", "info" or "replay"
    top,        \* the height get_info has answered
    height,     \* k, the height whose multiplier is computed height
    stamps,     \* _daa_ts
    series,     \* _daa_d
    last,       \* _daa_last_height, NoHeight for None
    multiplier, \* _daa_last_multiplier, the answer to the last question
    stale,      \* history: a block whose stamp is cached has been removed, and
                \* get_info has not shown the miner a shorter chain since
    settled,    \* history: the answer of the last replay that ended, on these caches
    faults      \* deviations spent so far

daemon == <<chain, pops>>
replay == <<query, top, height, stamps, series, last, multiplier, stale, settled>>

NoHeight == -1

Top == Cardinality(DOMAIN chain) - 1

\* The blocks of the warm-up are on target.
ReplayInit ==
    /\ chain = [h \in 0..Start |-> h * Target] /\ pops = 0
    /\ query = "none" /\ top = 0 /\ height = 0
    /\ stamps = <<>> /\ series = <<>> /\ last = NoHeight
    /\ multiplier = One
    /\ stale = FALSE /\ settled = One
    /\ faults = 0

\* A function that has one more value, or another one.
Put(f, h, value) == [g \in DOMAIN f \cup {h} |-> IF g = h THEN value ELSE f[g]]

Fault(kind) ==
    /\ kind \in Faults
    /\ faults < MaxFaults
    /\ faults' = faults + 1

-----------------------------------------------------------------------------
(* The daemon. *)

\* The chain is extended, by whomever.
Extend ==
    /\ Top < MaxTop
    /\ \E gap \in Gaps : chain' = Put(chain, Top + 1, chain[Top] + gap)
    /\ UNCHANGED pops

\* A reorganisation (or pop_blocks) takes the last block off.
PopBlock ==
    /\ pops < MaxPops /\ pops' = pops + 1
    /\ Top > Window
    /\ chain' = [h \in 0..(Top - 1) |-> chain[h]]
    /\ stale' = (stale \/ Top \in DOMAIN stamps)
    /\ UNCHANGED <<query, top, height, stamps, series, last, multiplier, settled,
                   faults>>

-----------------------------------------------------------------------------
(* The replay. *)

\* _daa_d.get(h, 1.0)
SeriesAt(h) == IF h \in DOMAIN series THEN series[h] ELSE One

Clamp(m) == IF m > MaxD THEN MaxD ELSE IF m < MinD THEN MinD ELSE m

\* d[k] from the multipliers of the window before k and the time observed.
NextMultiplier(k, observed) ==
    IF observed <= 0 THEN SeriesAt(k - 1)
    ELSE Clamp((SumFunction([i \in (k - Window)..(k - 1) |-> SeriesAt(i)]) * Target) \div observed)

\* A question is answered; its locals are gone.
Answer(m) ==
    /\ multiplier' = m
    /\ query' = "none" /\ top' = 0 /\ height' = 0
    /\ UNCHANGED daemon

Ask ==
    /\ query = "none"
    /\ query' = "info"
    /\ UNCHANGED <<daemon, top, height, stamps, series, last, multiplier, stale,
                   settled, faults>>

\* get_info raises: the value at the last height replayed.
InfoRaises ==
    /\ query = "info" /\ Fault("info")
    /\ Answer(SeriesAt(IF last = NoHeight THEN 0 ELSE last))
    /\ UNCHANGED <<stamps, series, last, stale, settled>>

\* No correction in the warm-up; the caches are left as they are.
WarmUp ==
    /\ query = "info"
    /\ Top <= Start
    /\ Answer(One)
    /\ UNCHANGED <<stamps, series, last, stale, settled, faults>>

BugShortened == FALSE

\* The caches are dropped when the chain is shorter than the last one.
Shortened == last # NoHeight /\ Top < last

StartReplay ==
    /\ query = "info"
    /\ Top > Start
    /\ top' = Top
    /\ query' = "replay"
    /\ IF Shortened
       THEN stamps' = <<>> /\ series' = <<>> /\ last' = NoHeight /\ settled' = One
       ELSE UNCHANGED <<stamps, series, last, settled>>
    /\ stale' = (stale /\ ~(last # NoHeight /\ Top < last))
    /\ height' = (IF last' = NoHeight THEN Start ELSE last') + 1
    /\ UNCHANGED <<daemon, multiplier, faults>>

\* The stamps once the header at h has been read.
Known(s, h) == IF h \in DOMAIN s THEN s ELSE Put(s, h, chain[h])

Readable(h) == h \in DOMAIN stamps \/ h <= Top

\* The two headers d[height] needs.
Newest == height - 1
Oldest == height - 1 - Window

ReplayHeight ==
    /\ query = "replay" /\ height <= top + 1
    /\ Readable(Newest) /\ Readable(Oldest)
    /\ LET s == Known(Known(stamps, Newest), Oldest)
       IN  /\ stamps' = s
           /\ series' = Put(series, height, NextMultiplier(height, s[Newest] - s[Oldest]))
    /\ height' = height + 1
    /\ UNCHANGED <<daemon, query, top, last, multiplier, stale, settled, faults>>

BugHeld == IF last = NoHeight THEN One ELSE SeriesAt(last)

\* A header cannot be read: the multiplier of the last replay.
Held == IF last = NoHeight THEN One ELSE SeriesAt(last + 1)

HeaderRaises ==
    /\ query = "replay" /\ height <= top + 1
    /\ \/ /\ Newest \notin DOMAIN stamps
          /\ \/ Newest > Top /\ UNCHANGED faults
             \/ Newest <= Top /\ Fault("header")
          /\ UNCHANGED stamps
       \/ /\ Oldest \notin DOMAIN stamps
          /\ Readable(Newest)
          /\ \/ Oldest > Top /\ UNCHANGED faults
             \/ Oldest <= Top /\ Fault("header")
          /\ stamps' = Known(stamps, Newest)
    /\ Answer(Held)
    /\ UNCHANGED <<series, last, stale, settled>>

\* The heights the caches keep after a replay up to top.
Kept(cache) ==
    IF Cardinality(DOMAIN stamps) > 4 * Window
    THEN [h \in {g \in DOMAIN cache : g >= top - 2 * Window - 2} |-> cache[h]]
    ELSE cache

EndReplay ==
    /\ query = "replay" /\ height = top + 2
    /\ last' = top
    /\ stamps' = Kept(stamps) /\ series' = Kept(series)
    /\ Answer(SeriesAt(top + 1)) /\ settled' = SeriesAt(top + 1)
    /\ UNCHANGED <<stale, faults>>

ReplayStep ==
    \/ InfoRaises \/ WarmUp \/ StartReplay
    \/ ReplayHeight \/ HeaderRaises \/ EndReplay

-----------------------------------------------------------------------------
(* What the multiplier means. *)

\* The recurrence in the docstring, over a whole chain.
SeriesOf(c) ==
    LET d[k \in DOMAIN c \cup {Cardinality(DOMAIN c)}] ==
            IF k <= Start THEN One
            ELSE LET observed == c[k - 1] - c[k - 1 - Window]
                 IN  IF observed <= 0 THEN d[k - 1]
                     ELSE Clamp((SumFunction([i \in (k - Window)..(k - 1) |-> d[i]]) * Target)
                                    \div observed)
    IN  d

=============================================================================
