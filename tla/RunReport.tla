----------------------------- MODULE RunReport -----------------------------
(***************************************************************************)
(* From what the monitor sees to the verdict on a run: every cycle it      *)
(* stores the state of the nodes in memory and then rewrites               *)
(* final_report.json in place (agents/simulation_monitor/agent.py); when   *)
(* the run is over scripts/run_sim_helpers.py renders it as summary.txt    *)
(* into the archive, scripts/smoke_assertions.py holds that against a      *)
(* baseline, and scripts/append_run_history.py adds a row to the history   *)
(* of the scenario (scripts/smoke_test.sh).  The monitor may be killed,    *)
(* and a write may fail, at any time.                                      *)
(***************************************************************************)
EXTENDS Integers, FiniteSets, FiniteSetsExt, SequencesExt

CONSTANTS
    NodeIds, RegisteredIds, \* the nodes, and the registered miners
    HistoryLimit,           \* max_historical_entries
    MaxCycles,              \* bound: cycles of the monitor
    MaxAlerts, HeightRange, \* of the baseline
    NoFile, Torn            \* a file that is not there, or not whole

ASSUME ReportAssumption ==
    /\ RegisteredIds \subseteq NodeIds /\ IsFiniteSet(NodeIds)
    /\ HistoryLimit \in Nat \ {0} /\ MaxCycles \in Nat
    /\ MaxAlerts \in Nat /\ HeightRange \in Nat

\* The heights of a node that is behind and of one that is synchronised.
LowHeight == 2
TopHeight == 9

VARIABLES
    network, \* what happened: senders of transactions, their number in
             \* blocks, whether a wallet holds funds
    watch,   \* the monitor: cycle_count; of historical_data the alerts of every
             \* entry and the heights of the last; transaction_stats
    report,  \* final_report.json
    phase,   \* "running", "reporting" within a cycle, "over", "archived", "judged"
    archive, \* what is taken for the archive: whose run it is, and its summary.txt
    simExit, \* exit code of run_sim.sh
    rows,    \* the history of the scenario
    stored,  \* history: the alerts of every entry there ever was
    printed, \* history: what was stored when the last whole report was written
    lost     \* history: no whole report was written of what was stored since

paper == <<report, printed, lost>>
reporting == <<network, watch, stored, paper, phase, archive, simExit, rows>>

\* A summary of an earlier run that passed, if there was one.
Earlier ==
    [exit |-> 0,
     report |-> [marks |-> {"blocks_created", "blocks_propagated",
                            "transactions_created_broadcast", "transactions_in_blocks"},
                 created |-> 2, included |-> 2, alerts |-> 0,
                 heights |-> {TopHeight}, senders |-> NodeIds]]

\* The memory of a monitor that has just started, and of one that is no more.
Watch0 ==
    [cycle |-> 0, history |-> <<>>, last |-> {},
     stats |-> [blocks |-> FALSE, included |-> 0, senders |-> {}, funded |-> FALSE]]

ReportInit ==
    /\ network = [senders |-> {}, included |-> 0, funded |-> FALSE]
    /\ watch = Watch0
    /\ report = NoFile /\ phase = "running"
    /\ archive = [own |-> FALSE, summary |-> NoFile]
    /\ simExit = 0 /\ rows = <<>>
    /\ stored = <<>> /\ printed = <<>> /\ lost = FALSE

-----------------------------------------------------------------------------
(* The network, between two cycles *)

\* What happens after the last cycle is seen by nobody.
Happens ==
    /\ phase = "running" /\ watch.cycle < MaxCycles
    /\ UNCHANGED <<watch, stored, paper, phase, archive, simExit, rows>>

Send(n) ==
    /\ Happens /\ n \notin network.senders /\ network.funded
    /\ network' = [network EXCEPT !.senders = @ \cup {n}]

Include ==
    /\ Happens /\ network.included < Cardinality(network.senders)
    /\ network' = [network EXCEPT !.included = @ + 1]

Fund ==
    /\ Happens /\ ~network.funded
    /\ network' = [network EXCEPT !.funded = TRUE]

-----------------------------------------------------------------------------
(* A cycle of the monitor *)

\* What a node is to the monitor: one it has no connection to, one that has
\* stopped answering, or its height, and whether it is synchronised.
Answers == {[reached |-> FALSE, height |-> 0, synced |-> FALSE],
            [reached |-> TRUE, height |-> 0, synced |-> FALSE],
            [reached |-> TRUE, height |-> LowHeight, synced |-> FALSE],
            [reached |-> TRUE, height |-> TopHeight, synced |-> TRUE]}

HeightsOf(nodes) == {nodes[n].height : n \in DOMAIN nodes} \ {0}

\* _analyze_network_health: a node that is reached counts as an active miner if
\* it is registered, or if its log had a block of its own lately; the variance of
\* two heights that differ by d among k of n nodes is d * d * k * (n - k) / (n * n).
Synced(nodes) == {n \in DOMAIN nodes : nodes[n].synced}

Varied(nodes) ==
    LET up == {n \in DOMAIN nodes : nodes[n].height > 0}
        k == Cardinality({n \in up : nodes[n].height = TopHeight})
        d == TopHeight - LowHeight
    IN  d * d * k * (Cardinality(up) - k) > 10 * Cardinality(up) * Cardinality(up)

ActiveMiners(nodes, mining) ==
    {n \in DOMAIN nodes : nodes[n].reached /\ (n \in RegisteredIds \/ n \in mining)}

\* The conditions of _generate_summary for one entry.
AlertsOf(nodes, mining) ==
    Cardinality({c \in 1..3 :
        \/ c = 1 /\ (nodes = <<>> \/ Cardinality(Synced(nodes)) * 10 < Cardinality(DOMAIN nodes) * 9)
        \/ c = 2 /\ Varied(nodes)
        \/ c = 3 /\ ActiveMiners(nodes, mining) = {}})

\* What later readers take from an entry of historical_data.
Health(nodes, mining) == [alerts |-> AlertsOf(nodes, mining), heights |-> HeightsOf(nodes)]

Entries ==
    UNION {{Health(nodes, mining) : nodes \in [online -> Answers], mining \in SUBSET NodeIds} :
               online \in SUBSET NodeIds}

\* _track_transactions_and_blocks: there are blocks where a node
\* answers now; a transactions file that cannot be read changes nothing, a
\* daemon that does not answer leaves blocks to be read later, and the wallets
\* that are polled need not be those with funds.
Tracked(stats, heights, read, scanned, polled) ==
    [blocks |-> heights # {},
     included |-> IF scanned THEN network.included ELSE stats.included,
     senders |-> IF read THEN network.senders ELSE stats.senders,
     funded |-> stats.funded \/ (polled /\ network.funded)]

\* _store_historical_data
Stored(history, alerts) ==
    LET all == Append(history, alerts)
    IN  IF Len(all) > HistoryLimit THEN Tail(all) ELSE all

AlertsIn(history) == FoldSeq(+, 0, history)

\* _generate_summary: empty without history.
Summary(w) ==
    [marks |->
         IF w.history = <<>> THEN {}
         ELSE {c \in {"blocks_created", "blocks_propagated",
                      "transactions_created_broadcast", "transactions_in_blocks"} :
                  \/ c = "blocks_created" /\ w.stats.blocks
                  \/ c = "blocks_propagated" /\ w.stats.funded
                  \/ c = "transactions_created_broadcast" /\ w.stats.senders # {}
                  \/ c = "transactions_in_blocks" /\ w.stats.included > 0},
     alerts |-> AlertsIn(w.history),
     heights |-> w.last,
     created |-> IF w.history = <<>> THEN 0 ELSE Cardinality(w.stats.senders),
     included |-> IF w.history = <<>> THEN 0 ELSE w.stats.included,
     senders |-> w.stats.senders]

\* A cycle goes up to the entry in memory; what raises before it leaves none.
Observe(entry) ==
    /\ phase = "running" /\ watch.cycle < MaxCycles
    /\ \E read, scanned, polled \in BOOLEAN :
           watch' = [cycle |-> watch.cycle + 1,
                     history |-> Stored(watch.history, entry.alerts), last |-> entry.heights,
                     stats |-> Tracked(watch.stats, entry.heights, read, scanned, polled)]
    /\ stored' = Append(stored, entry.alerts)
    /\ phase' = "reporting"
    /\ UNCHANGED <<network, paper, archive, simExit, rows>>

CycleFails(entry) ==
    /\ phase = "running" /\ watch.cycle < MaxCycles
    /\ \E read, scanned, polled \in BOOLEAN :
           watch' = [cycle |-> watch.cycle + 1,
                     history |-> watch.history, last |-> watch.last,
                     stats |-> Tracked(watch.stats, entry.heights, read, scanned, polled)]
    /\ UNCHANGED <<network, stored, paper, phase, archive, simExit, rows>>

\* _update_final_report, _generate_final_report: the file is opened, which empties
\* it, and dumped in place; an error before or after that is logged.
Rewritten ==
    \/ report' = Summary(watch) /\ printed' = stored /\ lost' = FALSE
    \/ report' \in {report, Torn} /\ lost' = TRUE /\ UNCHANGED printed

\* Every cycle that stored an entry ends with the report.
Report ==
    /\ phase = "reporting" /\ phase' = "running"
    /\ Rewritten
    /\ UNCHANGED <<network, watch, stored, archive, simExit, rows>>

\* _cleanup_agent
Stop ==
    /\ phase = "running" /\ phase' = "over"
    /\ Rewritten /\ watch' = Watch0
    /\ UNCHANGED <<network, stored, archive, simExit, rows>>

\* The monitor may be killed before it gets to that, or in the midst of a cycle.
Killed ==
    /\ phase \in {"running", "reporting"} /\ phase' = "over"
    /\ lost' = (lost \/ phase = "reporting") /\ watch' = Watch0
    /\ UNCHANGED <<network, stored, report, printed, archive, simExit, rows>>

-----------------------------------------------------------------------------
(* The summary and the verdict *)

\* cmd_write_summary_report fails on a report that is not whole; it is told the
\* exit code of shadow, which is not that of run_sim.sh.
WriteSummary ==
    /\ phase = "over" /\ phase' = "archived"
    /\ \E shadowExit \in {0, 1} :
           archive' = [own |-> TRUE,
                       summary |-> IF report \in {NoFile, Torn} THEN NoFile
                                   ELSE [exit |-> shadowExit, report |-> report]]
    /\ simExit' \in {0, 1}
    /\ UNCHANGED <<network, watch, stored, paper, rows>>

\* run_sim.sh ends before it has an archive: the newest one is that of an earlier
\* run, if there is one.
NoArchive ==
    /\ phase = "over" /\ phase' = "archived"
    /\ simExit' = 1
    /\ archive' \in {[own |-> FALSE, summary |-> s] : s \in {NoFile, Earlier}}
    /\ UNCHANGED <<network, watch, stored, paper, rows>>

\* cmd_write_summary_report, cmd_print_summary_kv: no criteria is a failure.
AllPass(told) == Cardinality(told.marks) = 4

\* find_log_files, grep_patterns: what is in the logs; one that cannot be read is
\* clean.
LogsClean == BOOLEAN

\* assert_metrics; a node without a height is in no table.
Asserted(summary) ==
    LET told == summary.report
    IN  /\ summary.exit = 0
        /\ AllPass(told)
        /\ told.alerts <= MaxAlerts
        /\ told.heights # {} /\ Max(told.heights) - Min(told.heights) <= HeightRange
        /\ told.created >= 1 /\ told.included * 5 >= told.created * 4
        /\ told.senders \ RegisteredIds # {}

BugVerdict(asserted) == IF asserted THEN "PASS" ELSE "FAIL"

\* smoke_test.sh
Verdict(asserted) == IF simExit = 0 /\ asserted THEN "PASS" ELSE "FAIL"

\* smoke_assertions.py ends without a summary, append_run_history.py as well.
Judge ==
    /\ phase = "archived" /\ phase' = "judged"
    /\ \E clean \in LogsClean :
           rows' = IF archive.summary = NoFile THEN rows
                   ELSE Append(rows, Verdict(clean /\ Asserted(archive.summary)))
    /\ UNCHANGED <<network, watch, stored, paper, archive, simExit>>

ReportNext ==
    \/ \E n \in NodeIds : Send(n)
    \/ Include \/ Fund
    \/ \E entry \in Entries : Observe(entry) \/ CycleFails(entry)
    \/ Report \/ Stop \/ Killed \/ WriteSummary \/ NoArchive \/ Judge

ReportSpec == ReportInit /\ [][ReportNext]_reporting

-----------------------------------------------------------------------------
(* Properties. *)

\* A row that says PASS is about this run, and the run earned it: users sent
\* transactions that came into blocks, and the monitor had seen no more trouble than
\* the baseline allows when it wrote the last whole report - as long as no cycle had
\* been dropped from the history by then.  That was all it ever stored, unless the
\* monitor was killed or a report was lost since.  Neither a monitor that died, a
\* torn report nor the archive of an earlier run makes a run pass.
PassIsEarned ==
    rows # <<>> /\ Last(rows) = "PASS" =>
        /\ archive.own /\ report \notin {NoFile, Torn}
        /\ network.senders \ RegisteredIds # {}
        /\ network.included * 5 >= Cardinality(report.senders) * 4
        /\ Len(printed) <= HistoryLimit => AlertsIn(printed) <= MaxAlerts
        /\ printed = stored \/ lost

=============================================================================
