------------------------- MODULE ScenarioExpansion -------------------------
(***************************************************************************)
(* The expansion of a compact scenario (scripts/scenario_parser.py):       *)
(* groups of agents are expanded one after the other, with staggers of     *)
(* several kinds, of which those of the upgrade fields go on from group to *)
(* group; then the timing of the scenario is resolved, and last the fields *)
(* that were left at "auto".  Times are in seconds.                        *)
(***************************************************************************)
EXTENDS Calibration, SequencesExt

CONSTANTS
    Scenarios, \* the scenarios an instance considers
    Automatic, \* the value "auto"
    Absent     \* a key that is not given

BootstrapMinimum == 14400
FundingTime == 3600
BatchingThreshold == 50
PhaseGap == 300

VARIABLES
    scenario,     \* the scenario
    at,           \* the group to be expanded next, or what comes after
    agents,       \* the agents expanded so far, those of no group last
    daemonOffset, \* upgrade_stagger_offset
    walletOffset, \* wallet_upgrade_stagger_offset
    bootstrap,    \* bootstrap_participant_start_times
    timing        \* bootstrap_end_s, md_start_s, activity_start_s

expansion == <<scenario, at, agents, daemonOffset, walletOffset, bootstrap, timing>>

StartOf(given) ==
    /\ scenario = given
    /\ at = 1 /\ agents = <<>> /\ daemonOffset = 0 /\ walletOffset = 0
    /\ bootstrap = {} /\ timing = <<>>

\* The values of a stagger for some agents.
Spreads(stagger, count) ==
    \/ stagger.type \in {"none", "batched"}
    \/ stagger.type = "linear" /\ stagger.interval \in Nat
    \/ stagger.type = "random" /\ {stagger.min, stagger.max} \subseteq Nat
    \/ stagger.type = "list" /\ \A i \in 1..count : stagger.values[i] \in Nat

\* Groups have a size, and what is a time is one, unless it is left at "auto".
ASSUME ScenarioAssumption ==
    /\ Automatic # Absent /\ Automatic \notin Nat /\ Absent \notin Nat
    /\ \A s \in Scenarios :
           /\ s.singles \in Seq(Range(s.singles)) /\ s.groups \in Seq(Range(s.groups))
           /\ {s.spawnStart, s.bootstrapEnd, s.mdStart, s.activityStart} \subseteq Nat \cup {Absent}
           /\ \A g \in Range(s.groups) :
                  /\ g.count \in Nat /\ g.start \in Nat
                  /\ g.daemonStop \in Nat \cup {Absent} /\ g.walletStop \in Nat \cup {Absent}
                  /\ {g.activity, g.interval} \subseteq Nat \cup {Automatic, Absent}
                  /\ g.kind \in {"user", "miner", "relay"}
                  /\ g.startStagger \notin {Automatic, Absent} => Spreads(g.startStagger, g.count)
           /\ \A a \in Range(s.singles) : a.interval \in Nat \cup {Automatic, Absent}

ScenarioInit == \E given \in Scenarios : StartOf(given)

Or(value, default) == IF value = Absent THEN default ELSE value

\* _count_total_nodes: whoever has a daemon.
TotalNodes ==
    Cardinality(UNION {{i} \X (1..scenario.groups[i].count) : i \in DOMAIN scenario.groups})
        + Cardinality({i \in DOMAIN scenario.singles : scenario.singles[i].kind \in {"user", "miner", "relay"}})

-----------------------------------------------------------------------------
(* Staggers *)

Linear(seconds) == [type |-> "linear", interval |-> seconds]
NoStagger == [type |-> "none"]

\* parse_stagger_value of "auto"
AutoStagger(count) == IF count >= BatchingThreshold THEN [type |-> "batched"] ELSE Linear(5)

\* A group of several agents has its start staggered if nothing is said, ...
StartStagger(g) ==
    IF g.startStagger = Automatic THEN AutoStagger(g.count)
    ELSE IF g.startStagger # Absent THEN g.startStagger
    ELSE IF g.count = 1 THEN NoStagger
    ELSE CASE g.kind = "user" -> AutoStagger(g.count)
           [] g.kind = "miner" -> Linear(1)
           [] g.kind = "relay" -> Linear(5)

\* ... and the end of the first phase of its daemons and wallets.
StopStagger(g) ==
    IF g.stopStagger # Absent THEN g.stopStagger
    ELSE IF g.count = 1 THEN NoStagger ELSE Linear(30)

\* expand_stagger: what the agents of a group, counted from 0, may get.
Staggered(base, stagger, count, offset, delay) ==
    LET Is == 0..(count - 1)
    IN  CASE stagger.type = "none"    -> {[i \in Is |-> base]}
          [] stagger.type = "list"    -> {[i \in Is |-> stagger.values[i + 1]]}
          [] stagger.type = "random"  -> [Is -> stagger.min..stagger.max]
          [] stagger.type = "linear"  -> {[i \in Is |-> base + (offset + i) * stagger.interval]}
          [] stagger.type = "batched" ->
                 LET times == WaveTimes(count, 5, 200, delay, 1200, 5)
                 IN  {[i \in Is |-> base + times[i]]}

\* timing.user_spawn_start replaces the base of a linear stagger of users, and
\* the delay of the first batch.
StartTimes(g) ==
    LET stagger == StartStagger(g)
        own == g.kind = "user" /\ scenario.spawnStart # Absent
    IN  Staggered(IF own /\ stagger.type = "linear" THEN scenario.spawnStart ELSE g.start,
                  stagger, g.count, 0,
                  IF own THEN scenario.spawnStart ELSE 1200)

\* An explicit time to begin is spread over the group; an interval "auto" is
\* no number yet, which the expansion does not survive.
Unspread(g) ==
    g.kind = "user" /\ g.count > 1 /\ g.activity \notin {Automatic, Absent} /\ g.interval = Automatic

Activities(g) ==
    LET spread == g.kind = "user" /\ g.count > 1 /\ g.activity \notin {Automatic, Absent}
    IN  [i \in 0..(g.count - 1) |->
            IF ~spread THEN g.activity
            ELSE g.activity + i * StaggerBetween(g.count, TotalNodes, scenario.measured,
                                                 Or(g.interval, 60))]

\* The field is there at all, or for no agent of the group.
GroupStops(g, base, offset) ==
    IF base = Absent THEN {[i \in 0..(g.count - 1) |-> Absent]}
    ELSE Staggered(base, StopStagger(g), g.count, offset, 1200)

BugOffsetAfter(offset, g, base) == offset

\* A field that has a stagger moves the offset of the next groups.
OffsetAfter(offset, g, base) ==
    IF base # Absent /\ StopStagger(g) # NoStagger THEN offset + g.count ELSE offset

-----------------------------------------------------------------------------
(* _expand_agent_groups *)

\* Who must be synchronised from genesis.
Participates(g, start) == start < 3600 /\ (g.activity = Automatic \/ g.kind \in {"miner", "relay"})

\* What becomes of each agent of a group, and of one of no group.
Members(g, starts, stops, walletStops) ==
    [i \in 1..g.count |->
        [group |-> at, kind |-> g.kind, start |-> starts[i - 1],
         activity |-> Activities(g)[i - 1], interval |-> g.interval,
         daemonStop |-> stops[i - 1], daemonRestart |-> Absent,
         walletStop |-> walletStops[i - 1], walletRestart |-> Absent,
         wait |-> Absent, poll |-> Absent]]

Alone(s) ==
    [group |-> 0, kind |-> s.kind, start |-> s.start, activity |-> s.activity,
     interval |-> s.interval, daemonStop |-> s.daemonStop, daemonRestart |-> Absent,
     walletStop |-> s.walletStop, walletRestart |-> Absent, wait |-> s.wait, poll |-> s.poll]

ExpandGroup ==
    /\ at \in 1..Len(scenario.groups)
    /\ LET g == scenario.groups[at]
       IN  /\ ~Unspread(g)
           /\ \E starts \in StartTimes(g),
                 stops \in GroupStops(g, g.daemonStop, daemonOffset),
                 walletStops \in GroupStops(g, g.walletStop, walletOffset) :
                  /\ agents' = agents \o Members(g, starts, stops, walletStops)
                  /\ bootstrap' = bootstrap \cup {t \in Range(starts) : Participates(g, t)}
           /\ daemonOffset' = OffsetAfter(daemonOffset, g, g.daemonStop)
           /\ walletOffset' = OffsetAfter(walletOffset, g, g.walletStop)
    /\ at' = at + 1
    /\ UNCHANGED <<scenario, timing>>

\* parse_duration("auto") raises.
ExpansionFails ==
    /\ at \in 1..Len(scenario.groups) /\ Unspread(scenario.groups[at])
    /\ at' = 0
    /\ UNCHANGED <<scenario, agents, daemonOffset, walletOffset, bootstrap, timing>>

\* _add_singleton_agents: agents of no group are taken as they are, and never
\* are participants of the bootstrap.
AddSingletons ==
    /\ at = Len(scenario.groups) + 1
    /\ agents' = agents \o [i \in DOMAIN scenario.singles |-> Alone(scenario.singles[i])]
    /\ at' = at + 1
    /\ UNCHANGED <<scenario, daemonOffset, walletOffset, bootstrap, timing>>

-----------------------------------------------------------------------------
(* _resolve_timing *)

LastParticipant == IF bootstrap = {} THEN 0 ELSE Max(bootstrap)

BootstrapTime ==
    Or(scenario.bootstrapEnd, Greatest(BootstrapMinimum, (LastParticipant * 6) \div 5))

MdTime == Or(scenario.mdStart, BootstrapTime)

ActivityTime == Or(scenario.activityStart, MdTime + FundingTime)

ResolveTiming ==
    /\ at = Len(scenario.groups) + 2
    /\ timing' = [bootstrapEnd |-> BootstrapTime, mdStart |-> MdTime, activity |-> ActivityTime]
    /\ at' = at + 1
    /\ UNCHANGED <<scenario, agents, daemonOffset, walletOffset, bootstrap>>

-----------------------------------------------------------------------------
(* _resolve_auto_agent_values *)

AutoUsers == {i \in DOMAIN agents : agents[i].kind = "user" /\ agents[i].activity = Automatic}

\* The last interval given to one of these users, by default a minute.
AskedInterval ==
    LET given == {i \in AutoUsers : agents[i].interval # Automatic}
    IN  IF given = {} THEN 60 ELSE Or(agents[Max(given)].interval, 60)

\* The calibrated interval goes to all of them, whoever asked for it.
CommonInterval ==
    LET safe == SafeInterval(Cardinality(AutoUsers), TotalNodes, scenario.measured, AskedInterval)
    IN  IF \/ \E i \in AutoUsers : agents[i].interval = Automatic
           \/ safe > AskedInterval /\ scenario.respectSafe
        THEN safe
        ELSE Absent

ActivityStagger ==
    StaggerBetween(Cardinality(AutoUsers), TotalNodes, scenario.measured,
                   Or(CommonInterval, AskedInterval))

BugRank(i) == Cardinality({j \in AutoUsers : j < i /\ agents[j].group = agents[i].group})

Rank(i) == Cardinality({j \in AutoUsers : j < i})

\* The second phase begins by itself wherever a first one ends.
Restart(stop) == IF stop = Absent THEN Absent ELSE stop + PhaseGap

Resolved(i) ==
    LET a == agents[i]
    IN  [group |-> a.group, kind |-> a.kind, start |-> a.start,
         activity |-> IF i \in AutoUsers THEN timing.activity + Rank(i) * ActivityStagger
                      ELSE IF a.activity = Automatic THEN timing.activity ELSE a.activity,
         interval |-> IF i \in AutoUsers THEN Or(CommonInterval, a.interval) ELSE a.interval,
         daemonStop |-> a.daemonStop, daemonRestart |-> Restart(a.daemonStop),
         walletStop |-> a.walletStop, walletRestart |-> Restart(a.walletStop),
         wait |-> IF a.wait = Automatic THEN timing.mdStart ELSE a.wait,
         poll |-> IF a.poll = Automatic THEN SafePollInterval(TotalNodes) ELSE a.poll]

ResolveAgents ==
    /\ at = Len(scenario.groups) + 3
    /\ agents' = [i \in DOMAIN agents |-> Resolved(i)]
    /\ at' = at + 1
    /\ UNCHANGED <<scenario, daemonOffset, walletOffset, bootstrap, timing>>

ScenarioNext ==
    \/ ExpandGroup \/ ExpansionFails \/ AddSingletons \/ ResolveTiming \/ ResolveAgents

ScenarioSpec == ScenarioInit /\ [][ScenarioNext]_expansion

-----------------------------------------------------------------------------
(* Properties. *)

Expanded == at = Len(scenario.groups) + 4

\* Groups of several agents that leave the stagger of an upgrade to its
\* default: what docs/SCENARIO_FORMAT.md calls rolling through the network.
Rolling(i) ==
    agents[i].group # 0 /\ LET g == scenario.groups[agents[i].group]
                          IN  g.count > 1 /\ g.stopStagger = Absent

GroupOf(i) == scenario.groups[agents[i].group]

\* Upgrades that begin at one time roll through the network in the order of
\* the scenario, one daemon every 30 s, and so do the wallets: no two groups
\* fall on each other.
UpgradesRoll ==
    Expanded =>
        \A i, j \in DOMAIN agents :
            i < j /\ Rolling(i) /\ Rolling(j) =>
                /\ GroupOf(i).daemonStop = GroupOf(j).daemonStop /\ GroupOf(i).daemonStop # Absent
                       => agents[i].daemonStop + 30 <= agents[j].daemonStop
                /\ GroupOf(i).walletStop = GroupOf(j).walletStop /\ GroupOf(i).walletStop # Absent
                       => agents[i].walletStop + 30 <= agents[j].walletStop

\* Users whose activity is resolved begin one after the other, whatever group
\* they are in, once the distributor has had its time, and the last of them
\* within one of their intervals, unless there is a user to every second or
\* the users keep an interval that is too short.
ActivityInTurn ==
    Expanded =>
        LET users == {i \in DOMAIN agents :
                          /\ agents[i].kind = "user"
                          /\ Automatic = IF agents[i].group # 0 THEN GroupOf(i).activity
                                    ELSE scenario.singles[i - Len(agents) + Len(scenario.singles)].activity}
            interval(i) == Greatest(Or(agents[i].interval, 60), Cardinality(users))
        IN  /\ \A i, j \in users : i < j => agents[i].activity < agents[j].activity
            /\ \A i \in users :
                   /\ scenario.activityStart = Absent =>
                          timing.mdStart + FundingTime <= agents[i].activity
                   /\ scenario.respectSafe =>
                          agents[i].activity < timing.activity + interval(Max(users))

=============================================================================
