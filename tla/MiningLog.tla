------------------------------ MODULE MiningLog ------------------------------
(***************************************************************************)
(* What a daemon's log says about the blocks it mined                      *)
(* (agents/simulation_monitor/log_parser.py, parse_mining_events).  A line *)
(* is its kind, as far as the patterns tell lines apart, and a height.     *)
(***************************************************************************)
EXTENDS Integers, Sequences, FiniteSets, FiniteSetsExt

CONSTANTS
    Back, \* how many lines before a marker are its context
    Ahead \* how many lines, the marker included, may hold its height

ASSUME ContextAssumption == Back \in Nat /\ Ahead \in Nat \ {0}

\* "mined new block ... height=N", a generateblocks call, an inbound block,
\* BLOCK SUCCESSFULLY ADDED, HEIGHT N
LineKinds == {"mined", "generateblocks", "notify", "added", "height"}

Line(kind, height) == [kind |-> kind, height |-> height]

\* The kinds of line in the context of the marker at i.
Context(lines, i) ==
    {lines[j].kind : j \in {j \in DOMAIN lines : i - Back <= j /\ j < i}}

BugLocallyAdded(lines, i) ==
    lines[i].kind = "added" /\ "notify" \notin Context(lines, i)

\* The marker is of a block this daemon was asked to generate, and none that
\* it received.
LocallyAdded(lines, i) ==
    /\ lines[i].kind = "added"
    /\ "generateblocks" \in Context(lines, i)
    /\ "notify" \notin Context(lines, i)

HeightLines(lines, i) ==
    {j \in DOMAIN lines : i <= j /\ j < i + Ahead /\ lines[j].kind = "height"}

\* The heights of the locally mined blocks in a chunk of log; the genesis
\* block is nobody's.
MinedHeights(lines) ==
    {lines[i].height : i \in {i \in DOMAIN lines : lines[i].kind = "mined"}}
    \cup
    ({lines[Min(HeightLines(lines, i))].height :
         i \in {i \in DOMAIN lines : /\ LocallyAdded(lines, i)
                                     /\ HeightLines(lines, i) # {}}} \ {0})

=============================================================================
