-------------------------- MODULE SimulationMonitor --------------------------
(***************************************************************************)
(* The simulation monitor (agents/simulation_monitor): in every cycle it   *)
(* looks for new daemon logs, reads what was appended to the known ones    *)
(* since the last cycle, credits the blocks mined there to their miners,   *)
(* polls the daemons that have a log, scans new blocks for transactions    *)
(* through one reference daemon and writes what it knows to files.         *)
(*                                                                         *)
(* Daemons are numbered in the order of their names.  Their side is the    *)
(* environment: they mine, receive each other's blocks, log both line by   *)
(* line, and may be down.  The chain starts with blocks 0 and 1.           *)
(***************************************************************************)
EXTENDS MiningLog

CONSTANTS
    NDaemons,  \* how many daemons there are
    MaxTop,    \* bound: the highest block
    Style,     \* how a daemon logs a block it mined: "mined" (one line), "rpc"
    Faults,    \* the kinds of deviation the environment may inject
    MaxFaults  \* bound: how many deviations one behaviour has

\* down: a daemon stops answering, for a while or for good; block: get_block
\* raises; read: a log cannot be read; save: the tracking file cannot be opened,
\* or not be written to its end; restart: the monitor is killed, and run again.
FaultKinds == {"down", "block", "read", "save", "restart"}

ASSUME DaemonsAssumption == NDaemons \in Nat \ {0}
ASSUME TopAssumption == MaxTop \in Nat \ {0}
ASSUME FaultsAssumption == Faults \subseteq FaultKinds /\ MaxFaults \in Nat

Daemons == 1..NDaemons

ASSUME StyleAssumption == Style \in [Daemons -> {"mined", "rpc"}]

VARIABLES
    top,      \* index of the last block of the chain
    tip,      \* ... and of each daemon's
    up,       \* the daemons that answer
    log,      \* the lines of each daemon's bitmonero.log
    pending,  \* the lines it is about to write
    mined,    \* history: who mined a block at which height, as <<daemon, height>>
    pc,       \* where run_iteration is
    files,    \* daemon_log_files, in its order
    position, \* log_file_positions
    size,     \* current_size of the log being read
    turn,     \* which of the files, or which daemon, is next
    credit,   \* blocks_mined_by_height
    total,    \* total_blocks_mined_by_agent
    reference,\* reference_daemon, Nobody for None
    highest,  \* current_max_height, a number of blocks
    scanned,  \* last_processed_height
    found,    \* tx_to_block_mapping: the heights whose transactions are known
    saved,    \* transaction_tracking.json
    told,     \* history: how far the last whole file of this run of the monitor goes
    faults    \* deviations spent so far

file == <<saved, told>>
daemons == <<top, tip, up, log, pending, mined>>
monitor == <<pc, files, position, size, turn, credit, total, reference,
             highest, scanned, found, file>>
vars == <<daemons, monitor, faults>>

Nobody == 0
Never == -1

\* What a reader has of a file that is not there, or that was cut short.
Unreadable == [scanned |-> Never, found |-> {}]

Init ==
    /\ top = 1 /\ tip = [d \in Daemons |-> 1]
    /\ up = Daemons
    /\ log = [d \in Daemons |-> <<>>] /\ pending = [d \in Daemons |-> <<>>]
    /\ mined = {}
    /\ pc = "discover" /\ files = <<>>
    /\ position = [d \in Daemons |-> 0] /\ size = 0 /\ turn = 1
    /\ credit = <<>> /\ total = [d \in Daemons |-> 0]
    /\ reference = Nobody
    /\ highest = 0 /\ scanned = 0 /\ found = {}
    /\ saved = Unreadable /\ told = Never
    /\ faults = 0

Fault(kind) ==
    /\ kind \in Faults
    /\ faults < MaxFaults
    /\ faults' = faults + 1

NoFault == UNCHANGED faults

-----------------------------------------------------------------------------
(* The daemons.  They run all the time; a step of theirs is told apart from  *)
(* the same step taken later only where the monitor looks at what it changes. *)

ChainMoves == pc = "poll"

Writes(d, lines) == pending' = [pending EXCEPT ![d] = lines]

\* A daemon mines on its own tip: at the top, or beside a block it has not
\* received yet.
MineBlock(d) ==
    /\ ChainMoves /\ d \in up /\ pending[d] = <<>> /\ tip[d] < MaxTop
    /\ LET h == tip[d] + 1
       IN  /\ tip' = [tip EXCEPT ![d] = h]
           /\ top' = IF h > top THEN h ELSE top
           /\ mined' = mined \cup {<<d, h>>}
           /\ Writes(d, IF Style[d] = "mined"
                        THEN <<Line("mined", h)>>
                        ELSE <<Line("generateblocks", 0), Line("added", 0),
                               Line("height", h)>>)
    /\ UNCHANGED <<up, log, monitor, faults>>

ReceiveBlock(d) ==
    /\ ChainMoves /\ d \in up /\ pending[d] = <<>> /\ tip[d] < top
    /\ tip' = [tip EXCEPT ![d] = @ + 1]
    /\ Writes(d, <<Line("notify", 0), Line("added", 0), Line("height", tip[d] + 1)>>)
    /\ UNCHANGED <<top, up, log, mined, monitor, faults>>

WriteLine(d) ==
    /\ pc = "discover" \/ (pc = "read" /\ files[turn] = d)
    /\ pending[d] # <<>>
    /\ log' = [log EXCEPT ![d] = Append(@, Head(pending[d]))]
    /\ Writes(d, Tail(pending[d]))
    /\ UNCHANGED <<top, tip, up, mined, monitor, faults>>

GoDown(d) ==
    /\ pc \in {"poll", "scan"} /\ d \in up /\ Fault("down")
    /\ up' = up \ {d}
    /\ UNCHANGED <<top, tip, log, pending, mined, monitor>>

ComeUp(d) ==
    /\ pc \in {"poll", "scan"} /\ d \notin up
    /\ up' = up \cup {d}
    /\ UNCHANGED <<top, tip, log, pending, mined, monitor, faults>>

-----------------------------------------------------------------------------
(* Logs: _discover_daemon_log_files, _parse_daemon_logs_for_mining. *)

Discovered == {files[i] : i \in DOMAIN files}

\* New logs go to the end of the list, in the order of their names.
NewLogs ==
    LET new == {d \in Daemons : log[d] # <<>>} \ Discovered
    IN  CHOOSE s \in [1..Cardinality(new) -> new] :
            \A i, j \in DOMAIN s : i < j => s[i] < s[j]

Discover ==
    /\ pc = "discover"
    /\ files' = files \o NewLogs
    /\ pc' = "size" /\ turn' = 1
    /\ UNCHANGED <<daemons, faults, position, size, credit, total,
                   reference, highest, scanned, found, file>>

NextLog == pc' = "size" /\ turn' = turn + 1 /\ size' = 0

\* The size is taken first, ...
GetSize ==
    /\ pc = "size" /\ turn <= Len(files)
    /\ LET d == files[turn]
       IN  IF Len(log[d]) <= position[d]
           THEN NextLog
           ELSE pc' = "read" /\ size' = Len(log[d]) /\ UNCHANGED turn
    /\ UNCHANGED <<daemons, faults, files, position, credit, total,
                   reference, highest, scanned, found, file>>

\* _record_block_mined: a height is credited once.
Fresh(heights) == heights \ DOMAIN credit

BugPositionAfter(d) == Len(log[d])

\* The position is the size, not the end of what was read.
PositionAfter(d) == size

\* ... then everything up to the end is read, and the log may have grown again
\* when the position is set.
ReadLog ==
    /\ pc = "read"
    /\ LET d == files[turn]
       IN  \E end \in size..Len(log[d]) :
               LET new == Fresh(MinedHeights(SubSeq(log[d], position[d] + 1, end)))
               IN  /\ position' = [position EXCEPT ![d] = PositionAfter(d)]
                   /\ credit' = [h \in DOMAIN credit \cup new |->
                                   IF h \in new THEN d ELSE credit[h]]
                   /\ total' = [total EXCEPT ![d] = @ + Cardinality(new)]
    /\ NextLog /\ NoFault
    /\ UNCHANGED <<daemons, files, reference, highest, scanned, found, file>>

\* The position stays, the log is read again in the next cycle.
ReadRaises ==
    /\ pc = "read" /\ Fault("read")
    /\ NextLog
    /\ UNCHANGED <<daemons, files, position, credit, total, reference,
                   highest, scanned, found, file>>

LogsDone ==
    /\ pc = "size" /\ turn = Len(files) + 1
    /\ pc' = "poll" /\ turn' = 1 /\ highest' = 0
    /\ UNCHANGED <<daemons, faults, files, position, size, credit, total,
                   reference, scanned, found, file>>

-----------------------------------------------------------------------------
(* Polling: _collect_node_data in the order of the registry, and the part  *)
(* of _track_transactions_and_blocks that goes through its result.         *)

\* A daemon that does not answer, or is not known yet, has no height.
HeightOf(d) == IF d \in up /\ d \in Discovered THEN tip[d] + 1 ELSE 0

\* The first daemon that is higher than those before it becomes the reference,
\* once and for all.
Refer(d) == IF reference = Nobody THEN d ELSE reference

PollDaemon ==
    /\ pc = "poll" /\ turn <= NDaemons
    /\ IF HeightOf(turn) > highest
       THEN highest' = HeightOf(turn) /\ reference' = Refer(turn)
       ELSE UNCHANGED <<highest, reference>>
    /\ turn' = turn + 1
    /\ UNCHANGED <<daemons, faults, pc, files, position, size, credit, total,
                   scanned, found, file>>

-----------------------------------------------------------------------------
(* Blocks: _extract_transactions_from_blocks. *)

BugStartHeight == IF scanned + 1 > 2 THEN scanned + 2 ELSE 2

StartHeight == IF scanned + 1 > 2 THEN scanned + 1 ELSE 2

PollDone ==
    /\ pc = "poll" /\ turn = NDaemons + 1
    /\ pc' = IF reference = Nobody THEN "save" ELSE "scan"
    /\ turn' = StartHeight
    /\ UNCHANGED <<daemons, faults, files, position, size, credit, total,
                   reference, highest, scanned, found, file>>

\* Every block from 2 on has a transaction.
ScanBlock ==
    /\ pc = "scan" /\ turn <= highest
    /\ reference \in up /\ turn <= tip[reference] /\ NoFault
    /\ found' = found \cup {turn}
    /\ scanned' = turn
    /\ turn' = turn + 1
    /\ UNCHANGED <<daemons, pc, files, position, size, credit, total,
                   reference, highest, file>>

BugAfterFailure == turn + 1

\* The scan ends at the first block that cannot be had, as after the last one.
AfterFailure == highest + 1

ScanRaises ==
    /\ pc = "scan" /\ turn <= highest
    /\ \/ (reference \notin up \/ turn > tip[reference]) /\ NoFault
       \/ reference \in up /\ turn <= tip[reference] /\ Fault("block")
    /\ turn' = AfterFailure
    /\ UNCHANGED <<daemons, pc, files, position, size, credit, total,
                   reference, highest, scanned, found, file>>

ScanDone ==
    /\ pc = "scan" /\ turn > highest
    /\ pc' = "save"
    /\ UNCHANGED <<daemons, faults, files, position, size, turn, credit, total,
                   reference, highest, scanned, found, file>>

\* _save_transaction_tracking_data; then the iteration sleeps.  The file is
\* opened for writing, which empties it, and dumped in place.
Save ==
    /\ pc = "save"
    /\ \/ NoFault /\ saved' = [scanned |-> scanned, found |-> found] /\ told' = scanned
       \/ Fault("save") /\ saved' \in {saved, Unreadable} /\ UNCHANGED told
    /\ pc' = "discover" /\ turn' = 1 /\ highest' = 0
    /\ UNCHANGED <<daemons, files, position, size, credit, total,
                   reference, scanned, found>>

\* A new run of the monitor reads nothing back: it begins where the first began.
\* The file stays as it was, or cut short by a kill in the middle of the dump.
Restart ==
    /\ Fault("restart")
    /\ pc' = "discover" /\ files' = <<>>
    /\ position' = [d \in Daemons |-> 0] /\ size' = 0 /\ turn' = 1
    /\ credit' = <<>> /\ total' = [d \in Daemons |-> 0]
    /\ reference' = Nobody
    /\ highest' = 0 /\ scanned' = 0 /\ found' = {}
    /\ saved' \in {saved} \cup {f \in {Unreadable} : pc = "save"} /\ told' = Never
    /\ UNCHANGED daemons

-----------------------------------------------------------------------------

MonitorStep ==
    \/ Discover \/ GetSize \/ ReadLog \/ ReadRaises \/ LogsDone
    \/ PollDaemon \/ PollDone \/ ScanBlock \/ ScanRaises \/ ScanDone \/ Save

DaemonStep(d) ==
    MineBlock(d) \/ ReceiveBlock(d) \/ WriteLine(d) \/ GoDown(d) \/ ComeUp(d)

Next == MonitorStep \/ Restart \/ \E d \in Daemons : DaemonStep(d)

Spec == Init /\ [][Next]_vars

\* The monitor is a loop.  Nothing is asked of the daemons.
FairSpec == Spec /\ WF_vars(MonitorStep)

-----------------------------------------------------------------------------
(* Properties. *)

\* Types of the chain, the scan and the tracking file.
TypeOK ==
    /\ top \in 1..MaxTop /\ tip \in [Daemons -> 1..MaxTop]
    /\ up \subseteq Daemons /\ mined \subseteq Daemons \X (2..MaxTop)
    /\ pc \in {"discover", "size", "read", "poll", "scan", "save"}
    /\ turn \in Nat \ {0}
    /\ reference \in Daemons \cup {Nobody}
    /\ highest \in 0..(MaxTop + 1) /\ scanned \in 0..MaxTop
    /\ found \subseteq 2..MaxTop
    /\ saved.scanned \in Never..MaxTop /\ saved.found \subseteq 2..MaxTop
    /\ told \in Never..MaxTop
    /\ faults \in 0..MaxFaults

\* Nobody is credited with a block it only received, wherever a chunk of the
\* log begins and ends; and a block counts once, although logs are read twice
\* where they grew between taking the size and reading, and two daemons may log
\* a block of one height: the totals of the miners add up to the credits.
CreditIsEarned ==
    /\ \A h \in DOMAIN credit : <<credit[h], h>> \in mined
    /\ \A d \in Daemons : total[d] = Cardinality({h \in DOMAIN credit : credit[h] = d})

\* Every whole file the monitor writes was true of one moment of its scan, without
\* a gap below the height it names, and none goes less far than an earlier one of
\* the same run, however many block queries and saves failed in between.
SavedMovesForward ==
    [][saved' \notin {saved, Unreadable} =>
           /\ saved'.scanned >= told
           /\ saved'.found = {h \in 2..MaxTop : h <= saved'.scanned}]_vars

\* A block announced by one line is counted in the end, although the log grows
\* while it is read.
OneLineBlocksCounted ==
    \A h \in 2..MaxTop :
        (\E d \in Daemons : \E i \in DOMAIN log[d] : log[d][i] = Line("mined", h))
            ~> h \in DOMAIN credit

\* With a reference daemon that is up and synchronised in the end, every block
\* is scanned, whatever failed before.
ScanCatchesUp ==
    <>[](reference \in up /\ tip[reference] = top) => <>[](scanned = top)

=============================================================================
