------------------------------- MODULE MCTools -------------------------------
(* Instances of the tools' modules for model checking. *)
EXTENDS UpgradeWizard, ScenarioExpansion, Registries, RunReport, BlockHistogram,
        ConfigGeneration, RpcVerification

VARIABLE tool \* the one at work; the others stay in an initial state

CONSTANT NoTime

Base == [users |-> 4, batching |-> "auto", stagger |-> 5, firstBatch |-> 5,
         maxBatch |-> 200, batchInterval |-> 1200, spawnStart |-> NoTime,
         bootstrapEnd |-> NoTime, mdStart |-> NoTime, activityStart |-> NoTime,
         duration |-> 28800, txInterval |-> NoTime, fast |-> FALSE,
         relays |-> 1, relayStart |-> 5, relayStagger |-> 20,
         upgrade |-> FALSE, upgradeStart |-> NoTime, upgradeStagger |-> 30,
         order |-> "sequential", steady |-> 7200, post |-> 7200]

MCOptions ==
    {[Base EXCEPT !.users = n, !.batching = b, !.stagger = s, !.upgrade = u, !.order = "random"] :
        n \in {0, 4, 49, 50, 53}, b \in {"auto", "true", "false"}, s \in {5, 300},
        u \in BOOLEAN}
    \cup
    {[Base EXCEPT !.spawnStart = p, !.bootstrapEnd = e, !.mdStart = m, !.activityStart = a,
                  !.upgradeStart = g, !.upgrade = TRUE, !.stagger = s, !.batching = b] :
        p \in {NoTime, 1800}, e \in {NoTime, 7200}, m \in {NoTime, 9000}, a \in {NoTime, 12000},
        g \in {NoTime, 20000}, s \in {5, 3000}, b \in {"auto", "true"}}

\* The default network, rolled out in any order; two with users in batches, and
\* the largest the wizard allows, whose users keep starting after the bootstrap
\* it shows.
MCAnswers ==
    {[agents |-> n, steady |-> 7200, stagger |-> 30, post |-> 7200,
      order |-> o, fast |-> FALSE] : n \in {2, 3, 30}, o \in {"sequential", "random"}}
    \cup
    {[agents |-> n, steady |-> 3600, stagger |-> s, post |-> 1800,
      order |-> "sequential", fast |-> TRUE] : n \in {60, 400, 1000, 1001}, s \in {0, 5}}

-----------------------------------------------------------------------------
(* Scenarios *)

Group(kind, count) ==
    [kind |-> kind, count |-> count, start |-> 0, startStagger |-> Absent,
     activity |-> IF kind = "user" THEN Automatic ELSE Absent, interval |-> Absent,
     daemonStop |-> Absent, walletStop |-> Absent, stopStagger |-> Absent]

Single(kind) ==
    [kind |-> kind, start |-> 0, activity |-> IF kind = "user" THEN Automatic ELSE Absent,
     interval |-> Absent, daemonStop |-> Absent, walletStop |-> Absent,
     wait |-> IF kind = "distributor" THEN Automatic ELSE Absent,
     poll |-> IF kind = "monitor" THEN Automatic ELSE Absent]

Scenario0 ==
    [groups |-> <<>>, singles |-> <<Single("distributor"), Single("monitor")>>,
     spawnStart |-> Absent, bootstrapEnd |-> Absent, mdStart |-> Absent,
     activityStart |-> Absent, measured |-> TRUE, respectSafe |-> TRUE]

Staggers == {Absent, Automatic, [type |-> "linear", interval |-> 7],
             [type |-> "random", min |-> 1, max |-> 3], [type |-> "batched"]}

\* Upgrades of miners, users, relays and a second wave of users.
Upgrading(users, late, stop, wallets, own) ==
    <<[Group("miner", 2) EXCEPT !.daemonStop = stop],
      [Group("user", users) EXCEPT !.daemonStop = stop, !.walletStop = wallets,
                                   !.stopStagger = own],
      [Group("relay", 2) EXCEPT !.daemonStop = stop],
      [Group("user", late) EXCEPT !.daemonStop = stop, !.walletStop = wallets]>>

MCScenarios ==
    {Scenario0}
    \cup
    {[Scenario0 EXCEPT !.groups = Upgrading(u, l, s, w, own)] :
        u \in {1, 3, 52}, l \in {1, 2}, s \in {Absent, 36000}, w \in {Absent, 36000, 40000},
        own \in {Absent, [type |-> "linear", interval |-> 7]}}
    \cup
    {[Scenario0 EXCEPT !.groups = <<[Group("user", 3) EXCEPT !.startStagger = g, !.interval = i],
                                    [Group("user", 2) EXCEPT !.activity = a, !.interval = j]>>,
                       !.singles = @ \o <<[Single("user") EXCEPT !.interval = k]>>,
                       !.spawnStart = p, !.measured = m, !.respectSafe = r] :
        g \in Staggers, i \in {Automatic, 20}, j \in {Absent, Automatic, 20}, k \in {Absent, 90},
        a \in {Automatic, 30000}, p \in {Absent, 1800}, m \in BOOLEAN, r \in BOOLEAN}
    \cup
    {[Scenario0 EXCEPT !.groups = <<Group("miner", 2), Group("relay", 2), Group("user", 3)>>,
                       !.bootstrapEnd = b, !.mdStart = d, !.activityStart = a] :
        b \in {Absent, 7200}, d \in {Absent, 9000}, a \in {Absent, 12000}}

-----------------------------------------------------------------------------

(* Configurations *)

Declare(daemon, schedule, raw) == [daemon |-> daemon, schedule |-> schedule, raw |-> raw]

Sound == [comments |-> TRUE, expands |-> TRUE, validates |-> TRUE, asked |-> TRUE,
          schedule |-> "none", implementations |-> FALSE, seeds |-> {"seed1", "seed2"},
          agents |-> [n \in {"node"} |-> Declare("stock", "none", FALSE)]]

Fork(daemon, own, raw, seeds) ==
    [Sound EXCEPT !.schedule = "good",
                  !.agents = [n \in {"node"} \cup seeds |->
                                 IF n = "node" THEN Declare(daemon, own, raw)
                                 ELSE Declare(daemon, "none", FALSE)]]

MCConfigs ==
    {[Sound EXCEPT !.comments = FALSE], [Sound EXCEPT !.expands = FALSE],
     [Sound EXCEPT !.validates = FALSE], [Sound EXCEPT !.asked = FALSE]}
    \cup {[Fork(d, "none", FALSE, s) EXCEPT !.schedule = all] :
             d \in {"stock", "hf"}, s \in {{}, {"seed1"}, {"seed1", "seed2"}},
             all \in {"none", "empty", "good"}}
    \cup {[Fork("hf", "empty", FALSE, {"seed1", "seed2"}) EXCEPT !.seeds = s] :
             s \in {{}, {"seed1", "seed2", "seed3"}}}
    \cup {[Fork(d, o, r, {"seed1", "seed2"}) EXCEPT !.implementations = i] :
             d \in {"none", "hf", "hfPhases"}, o \in {"good", "malformed"},
             r \in BOOLEAN, i \in BOOLEAN}

-----------------------------------------------------------------------------

TimelineIdle == Generates(Base, "missing") /\ told = None
ScenarioIdle == StartOf(Scenario0)
RegistriesIdle == RegistriesInit
ReportIdle == ReportInit
HistogramIdle == HistogramInit
GenerationIdle == GenerationInit /\ mode = "direct" /\ custom
VerificationIdle == VerificationInit /\ task = "sync" /\ net["one"] = net["two"]
                        /\ net["one"].branch = 1 /\ net["one"].height = 1
                        /\ account.exists /\ account.funded

ToolsInit ==
    \/ /\ tool = "timeline" /\ TimelineInit /\ told = None
       /\ ScenarioIdle /\ RegistriesIdle /\ ReportIdle
       /\ HistogramIdle /\ GenerationIdle /\ VerificationIdle
    \/ /\ tool = "wizard" /\ WizardInit
       /\ ScenarioIdle /\ RegistriesIdle /\ ReportIdle
       /\ HistogramIdle /\ GenerationIdle /\ VerificationIdle
    \/ /\ tool = "scenario" /\ ScenarioInit
       /\ TimelineIdle /\ RegistriesIdle /\ ReportIdle
       /\ HistogramIdle /\ GenerationIdle /\ VerificationIdle
    \/ /\ tool = "registry" /\ RegistriesInit
       /\ TimelineIdle /\ ScenarioIdle /\ ReportIdle
       /\ HistogramIdle /\ GenerationIdle /\ VerificationIdle
    \/ /\ tool = "report" /\ ReportInit
       /\ TimelineIdle /\ ScenarioIdle /\ RegistriesIdle
       /\ HistogramIdle /\ GenerationIdle /\ VerificationIdle
    \/ /\ tool = "histogram" /\ HistogramInit
       /\ TimelineIdle /\ ScenarioIdle /\ RegistriesIdle
       /\ ReportIdle /\ GenerationIdle /\ VerificationIdle
    \/ /\ tool = "generation" /\ GenerationInit
       /\ TimelineIdle /\ ScenarioIdle /\ RegistriesIdle
       /\ ReportIdle /\ HistogramIdle /\ VerificationIdle
    \/ /\ tool = "verification" /\ VerificationInit
       /\ TimelineIdle /\ ScenarioIdle /\ RegistriesIdle
       /\ ReportIdle /\ HistogramIdle /\ GenerationIdle

ToolsNext ==
    /\ UNCHANGED tool
    /\ \/ /\ tool = "timeline" /\ TimelineNext
          /\ UNCHANGED <<told, expansion, registries, reporting, histogram, generation, verifying>>
       \/ /\ tool = "wizard" /\ WizardNext
          /\ UNCHANGED <<expansion, registries, reporting, histogram, generation, verifying>>
       \/ /\ tool = "scenario" /\ ScenarioNext
          /\ UNCHANGED <<wizard, registries, reporting, histogram, generation, verifying>>
       \/ /\ tool = "registry" /\ RegistriesNext
          /\ UNCHANGED <<wizard, expansion, reporting, histogram, generation, verifying>>
       \/ /\ tool = "report" /\ ReportNext
          /\ UNCHANGED <<wizard, expansion, registries, histogram, generation, verifying>>
       \/ /\ tool = "histogram" /\ HistogramNext
          /\ UNCHANGED <<wizard, expansion, registries, reporting, generation, verifying>>
       \/ /\ tool = "generation" /\ GenerationNext
          /\ UNCHANGED <<wizard, expansion, registries, reporting, histogram, verifying>>
       \/ /\ tool = "verification" /\ VerificationNext
          /\ UNCHANGED <<wizard, expansion, registries, reporting, histogram, generation>>

ToolsSpec ==
    ToolsInit /\ [][ToolsNext]_<<tool, wizard, expansion, registries, reporting, histogram,
                                 generation, verifying>>

=============================================================================
