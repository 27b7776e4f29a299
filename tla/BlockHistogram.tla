--------------------------- MODULE BlockHistogram ---------------------------
(***************************************************************************)
(* The block-rate board of a running simulation (cmd_block_rate of         *)
(* scripts/run_sim_helpers.py): every call reads a tail of a daemon's log  *)
(* and adds the intervals between the blocks that are new to a histogram   *)
(* in a state file, while the daemon goes on logging.  The log holds a     *)
(* height again when a reorganisation replays it, and the tail may not     *)
(* reach back to the last call.                                            *)
(***************************************************************************)
EXTENDS Integers, FiniteSets, FiniteSetsExt, Sequences

CONSTANTS
    FirstWindow, LastWindow, \* the tail, in lines: 2 MB, up to 32 MB
    Columns,                 \* HIST_WIDTH
    RecentN,                 \* HIST_RECENT_N
    MaxLines,                \* bound: lines of the log
    NoState,                 \* a state file that is missing or torn
    Idle                     \* no call is at work

ASSUME HistogramAssumption ==
    /\ {FirstWindow, LastWindow, Columns, RecentN} \subseteq Nat \ {0}
    /\ MaxLines \in Nat

VARIABLES
    lines,  \* the log: blocks [height, time], and chatter at height 0
    chain,  \* height of the daemon's chain
    clock,  \* simulated time
    saved,  \* the state file
    board,  \* the call at work: the state so far, and the lines still to count
    known,  \* length of the log at the last call that was saved
    gapless \* every tail since the state is fresh reached back to it

histogram == <<lines, chain, clock, saved, board, known, gapless>>

HistogramInit ==
    /\ lines = <<>> /\ chain = 0 /\ clock = 0
    /\ saved = NoState /\ board = Idle /\ known = 0 /\ gapless = TRUE

-----------------------------------------------------------------------------
(* The daemon *)

BlockAdded ==
    /\ Len(lines) < MaxLines
    /\ chain' = chain + 1
    /\ \E t \in {1, 3} :
           /\ clock' = clock + t
           /\ lines' = Append(lines, [height |-> chain', time |-> clock'])
    /\ UNCHANGED <<saved, board, known, gapless>>

\* The blocks of the other branch are added again, and one more.
Reorganise(depth) ==
    /\ depth < chain /\ Len(lines) + depth < MaxLines
    /\ chain' = chain + 1 /\ clock' = clock + 1
    /\ lines' = lines \o [i \in 1..(depth + 1) |-> [height |-> chain - depth + i, time |-> clock']]
    /\ UNCHANGED <<saved, board, known, gapless>>

Chatter ==
    /\ Len(lines) < MaxLines
    /\ lines' = Append(lines, [height |-> 0, time |-> clock])
    /\ UNCHANGED <<chain, clock, saved, board, known, gapless>>

-----------------------------------------------------------------------------
(* A call *)

Within(window) == {i \in DOMAIN lines : i > Len(lines) - window}

\* parse_tail
Blocks(window) == {i \in Within(window) : lines[i].height > 0}

\* The window grows fourfold until there are two blocks in it.
Window ==
    LET wide[w \in Nat] ==
            IF Cardinality(Blocks(w)) < 2 /\ w < LastWindow /\ w < Len(lines)
            THEN wide[4 * w] ELSE w
    IN  wide[FirstWindow]

\* _histogram_bucket
Bucket(interval) ==
    IF interval < 0 THEN 0 ELSE IF interval >= Columns THEN Columns - 1 ELSE interval

Fresh == [height |-> -1, time |-> -1, buckets |-> [c \in 0..(Columns - 1) |-> 0], recent |-> <<>>]

State == IF saved = NoState THEN Fresh ELSE saved

BugFirstOf(state, seen) == {i \in seen : lines[i].height > state.height}

\* The earliest line of each height that is new.
FirstOf(state, seen) ==
    {i \in seen : /\ lines[i].height > state.height
                  /\ \A j \in seen : lines[j].height = lines[i].height => i <= j}

\* Nothing that has been logged since the state was saved is older than the tail.
Reaches == {i \in DOMAIN lines : saved # NoState => i > known} \subseteq Within(Window)

\* Without an event in the tail the board is skipped.
ReadTail ==
    /\ board = Idle /\ Blocks(Window) # {}
    /\ board' = [state |-> State, new |-> FirstOf(State, Blocks(Window)), length |-> Len(lines),
                 gapless |-> Reaches /\ (saved = NoState \/ gapless)]
    /\ UNCHANGED <<lines, chain, clock, saved, known, gapless>>

\* The first block that is ever seen has no interval.
Counted(state, i) ==
    LET interval == lines[i].time - state.time
        first == state.time = -1
    IN  [height |-> lines[i].height, time |-> lines[i].time,
         buckets |-> IF first THEN state.buckets
                     ELSE [state.buckets EXCEPT ![Bucket(interval)] = @ + 1],
         recent |-> IF first THEN state.recent ELSE Append(state.recent, interval)]

\* New blocks are counted in the order of their heights, and of their times.
CountBlock ==
    /\ board # Idle
    /\ \E i \in board.new :
           /\ \A j \in board.new : \/ lines[i].height < lines[j].height
                                   \/ lines[i].height = lines[j].height /\ i <= j
           /\ board' = [state |-> Counted(board.state, i), new |-> board.new \ {i},
                        length |-> board.length, gapless |-> board.gapless]
    /\ UNCHANGED <<lines, chain, clock, saved, known, gapless>>

LastN(s, n) == IF Len(s) > n THEN SubSeq(s, Len(s) - n + 1, Len(s)) ELSE s

Trimmed(state) ==
    [height |-> state.height, time |-> state.time, buckets |-> state.buckets,
     recent |-> LastN(state.recent, RecentN)]

\* A state that cannot be written is dropped; a call that is killed leaves a
\* torn file.
SaveState ==
    /\ board # Idle /\ board.new = {}
    /\ LET state == Trimmed(board.state)
       IN  /\ saved' \in {state, saved, NoState}
           /\ known' = IF saved' = state THEN board.length ELSE known
           /\ gapless' = IF saved' = state THEN board.gapless ELSE gapless
    /\ board' = Idle
    /\ UNCHANGED <<lines, chain, clock>>

HistogramNext ==
    \/ BlockAdded \/ Chatter \/ ReadTail \/ CountBlock \/ SaveState
    \/ \E depth \in 1..2 : Reorganise(depth)

HistogramSpec == HistogramInit /\ [][HistogramNext]_histogram

-----------------------------------------------------------------------------
(* Properties. *)

\* When the chain has first come to a height.
FirstTime(h) == Min({lines[i].time : i \in {j \in DOMAIN lines : lines[j].height = h}})

IntervalTo(h) == FirstTime(h) - FirstTime(h - 1)

\* The histogram that is kept call by call is that of the whole log up to its
\* last call: each block counts once, with the time since the block below it,
\* however often a reorganisation logs it; and the recent intervals are those
\* of the last blocks.  This holds as long as no tail misses a part of the log.
HistogramIsWhole ==
    saved # NoState /\ gapless =>
        LET heights == {h \in 2..chain : h <= saved.height}
        IN  /\ saved.buckets = [c \in 0..(Columns - 1) |->
                                   Cardinality({h \in heights : Bucket(IntervalTo(h)) = c})]
            /\ saved.recent = LastN([i \in 1..Cardinality(heights) |-> IntervalTo(i + 1)], RecentN)

=============================================================================
