--------------------------- MODULE ConfigTimeline ---------------------------
(***************************************************************************)
(* The generator of configurations (scripts/generate_config.py, with       *)
(* scripts/config_generation and scripts/calibrate.py): from a few options *)
(* it derives when every host is started, when the network leaves its      *)
(* bootstrap, when users begin to send, when daemons are exchanged and     *)
(* when the simulation stops.  The interval between transactions depends   *)
(* on a calibration file that generators share and one of them may be      *)
(* writing.  Times are in seconds, None stands for an option not given.    *)
(***************************************************************************)
EXTENDS Calibration, FiniteSets

CONSTANTS
    NMiners,   \* the length of FIXED_MINERS
    Options,   \* the options an instance considers
    None

\* timing_constants.py and the constants of generate_config.py
MinBootstrapEnd == 14400
FundingPeriod == 3600
AutoThreshold == 50
BatchDelay == 1200
IntraBatch == 5
RestartGap == 300
UserStart == 10800
MinActivity == 7200

\* The miners are a short list in the code, and start one a second.
ASSUME MinersAssumption == NMiners \in 1..MinBootstrapEnd

\* Durations and counts are not negative; a wave is of at least one, since the
\* code would never come to the end of empty ones.
ASSUME OptionsAssumption ==
    \A o \in Options :
        /\ {o.users, o.duration, o.stagger, o.batchInterval, o.relays, o.relayStart,
            o.relayStagger, o.upgradeStagger, o.steady, o.post} \subseteq Nat
        /\ {o.firstBatch, o.maxBatch} \subseteq Nat \ {0}
        /\ {o.spawnStart, o.txInterval} \subseteq Nat \cup {None}
        /\ {o.upgrade, o.fast} \subseteq BOOLEAN

VARIABLES
    stage,       \* of the generator: "ready", "planned", "paced", "written" or "failed"
    options,     \* its options
    plan,        \* the timeline, an empty record until it is planned
    emitted,     \* the hosts of the written configuration
    calibration, \* calibration.json: "missing", "partial" or "good"
    attempted    \* _auto_calibrate_attempted

timeline == <<stage, options, plan, emitted, calibration, attempted>>

Generates(given, file) ==
    /\ stage = "ready" /\ options = given
    /\ plan = <<>> /\ emitted = <<>>
    /\ calibration = file /\ attempted = FALSE

TimelineInit ==
    \E given \in Options, file \in {"missing", "partial", "good"} : Generates(given, file)

Given(option, default) == IF option = None THEN default ELSE option

-----------------------------------------------------------------------------
(* _compute_user_spawn_schedule *)

Batched(o) == o.batching = "true" \/ (o.batching = "auto" /\ o.users >= AutoThreshold)

SpawnStart(o) == Given(o.spawnStart, IF Batched(o) THEN BatchDelay ELSE UserStart)

\* calculate_batch_schedule: the start of each user, counted from 0.
BatchSchedule(o) ==
    WaveTimes(o.users, o.firstBatch, o.maxBatch, SpawnStart(o), o.batchInterval, IntraBatch)

\* generate_config starts users that are not batched at a fixed time.
UserSchedule(o) ==
    IF Batched(o) THEN BatchSchedule(o)
    ELSE [u \in 0..(o.users - 1) |-> UserStart + u * o.stagger]

LastSpawn(o) ==
    IF o.users = 0 THEN SpawnStart(o)
    ELSE IF Batched(o) THEN BatchSchedule(o)[o.users - 1]
    ELSE SpawnStart(o) + (o.users - 1) * o.stagger

-----------------------------------------------------------------------------
(* _compute_timing_chain, calculate_upgrade_schedule, the duration *)

BugBootstrapEnd(o) == Given(o.bootstrapEnd, MinBootstrapEnd)

\* The last start and a fifth of it.
BootstrapEnd(o) == Given(o.bootstrapEnd, Greatest(MinBootstrapEnd, (LastSpawn(o) * 6) \div 5))

DistributorStart(o) == Given(o.mdStart, BootstrapEnd(o))

ActivityStart(o) == Given(o.activityStart, DistributorStart(o) + FundingPeriod)

Hosts(o) ==
    ({"miner"} \X (1..NMiners)) \cup ({"user"} \X (1..o.users)) \cup ({"relay"} \X (1..o.relays))

NodeCount(o) == Cardinality(Hosts(o))

\* Miners, users, relays: the order of both "sequential" and "miners-first".
InTurn(o, host) ==
    CASE host[1] = "miner" -> host[2] - 1
      [] host[1] = "user"  -> NMiners + host[2] - 1
      [] host[1] = "relay" -> NMiners + o.users + host[2] - 1

UpgradeStart(o) == Given(o.upgradeStart, ActivityStart(o) + o.steady)

\* A shuffle for "random"; its rotations stand for all of them.
Orders(o) == IF o.order = "random" THEN 0..(NodeCount(o) - 1) ELSE {0}

\* When the host's first daemon stops.
Stops(o, turn) ==
    [h \in Hosts(o) |->
        UpgradeStart(o) + ((InTurn(o, h) + turn) % NodeCount(o)) * o.upgradeStagger]

LastUpgrade(o) ==
    UpgradeStart(o) + (NodeCount(o) - 1) * o.upgradeStagger + RestartGap

Duration(o) ==
    Greatest(o.duration, IF o.upgrade THEN LastUpgrade(o) + o.post
                         ELSE ActivityStart(o) + MinActivity)

PlanTimes ==
    /\ stage = "ready"
    /\ \E turn \in Orders(options) :
           plan' = [bootstrapEnd |-> BootstrapEnd(options),
                    mdStart |-> DistributorStart(options),
                    activity |-> ActivityStart(options),
                    stops |-> IF options.upgrade THEN Stops(options, turn) ELSE <<>>,
                    duration |-> Duration(options),
                    interval |-> Given(options.txInterval, IF options.fast THEN 120 ELSE 60)]
    /\ stage' = "planned"
    /\ UNCHANGED <<options, emitted, calibration, attempted>>

-----------------------------------------------------------------------------
(* calibrate.py *)

\* run_calibration and save_calibration: a build or benchmark that fails, or
\* does not report both tests, leaves no file; killed in the midst of the
\* dump, the process leaves what it had written.
RunCalibration ==
    \/ calibration' \in {"missing", "good"} /\ UNCHANGED stage
    \/ calibration' = "partial" /\ stage' = "failed"

\* ensure_calibrated: once per process, if there is no file.
Calibrate ==
    /\ stage \in {"planned", "paced"} /\ options.users > 0
    /\ ~attempted /\ attempted' = TRUE
    /\ IF calibration = "missing" THEN RunCalibration ELSE UNCHANGED <<calibration, stage>>
    /\ UNCHANGED <<options, plan, emitted>>

\* Another generator opens the file for writing, and finishes or is killed.
OtherCalibrates ==
    /\ stage \in {"planned", "paced"}
    /\ \/ calibration = "missing" /\ calibration' = "partial"
       \/ calibration = "partial" /\ calibration' = "good"
    /\ UNCHANGED <<stage, options, plan, emitted, attempted>>

\* json.load of a partial file raises, which ends the generator.
LoadFails ==
    /\ stage \in {"planned", "paced"} /\ options.users > 0
    /\ calibration = "partial"
    /\ stage' = "failed" /\ attempted' = TRUE
    /\ UNCHANGED <<options, plan, emitted, calibration>>

Loadable == options.users = 0 \/ (attempted /\ calibration # "partial")

Measured == calibration = "good"

\* _resolve_tx_interval
ResolveInterval ==
    /\ stage = "planned" /\ Loadable
    /\ plan' = [plan EXCEPT !.interval =
                   SafeInterval(options.users, NodeCount(options), Measured, @)]
    /\ stage' = "paced"
    /\ UNCHANGED <<options, emitted, calibration, attempted>>

-----------------------------------------------------------------------------
(* The agents of the configuration: when the daemon starts, when it is      *)
(* exchanged, and when the user's transactions begin.                       *)

HostStart(o, host) ==
    CASE host[1] = "miner" -> host[2] - 1
      [] host[1] = "user"  -> UserSchedule(o)[host[2] - 1]
      [] host[1] = "relay" -> o.relayStart + (host[2] - 1) * o.relayStagger

Agent(o, host) ==
    [start |-> HostStart(o, host),
     activity |-> IF host[1] = "user"
                  THEN plan.activity + (host[2] - 1)
                           * StaggerBetween(o.users, NodeCount(o), Measured, plan.interval)
                  ELSE 0,
     stop |-> IF o.upgrade THEN plan.stops[host] ELSE None,
     restart |-> IF o.upgrade THEN plan.stops[host] + RestartGap ELSE None]

WriteConfig ==
    /\ stage = "paced" /\ Loadable
    /\ emitted' = [h \in Hosts(options) |-> Agent(options, h)]
    /\ stage' = "written"
    /\ UNCHANGED <<options, plan, calibration, attempted>>

TimelineNext ==
    \/ PlanTimes \/ Calibrate \/ OtherCalibrates \/ LoadFails
    \/ ResolveInterval \/ WriteConfig

TimelineSpec == TimelineInit /\ [][TimelineNext]_timeline

-----------------------------------------------------------------------------
(* Properties. *)

\* Nothing but the spawn of users in batches is set by hand.
Derived(o) ==
    /\ {o.bootstrapEnd, o.mdStart, o.activityStart, o.upgradeStart} = {None}
    /\ Batched(o) \/ o.spawnStart = None

\* The phases of a derived timeline do not overlap: users start while the
\* network bootstraps, begin to send after the distributor, finish their
\* steady state before any daemon is exchanged, and the simulation observes
\* the upgraded network long enough.
PhasesInOrder ==
    stage = "written" /\ Derived(options) =>
        \A h \in DOMAIN emitted :
            /\ h[1] = "user" => emitted[h].start < plan.bootstrapEnd
            /\ h[1] = "user" => plan.mdStart + FundingPeriod <= emitted[h].activity
            /\ options.upgrade =>
                   /\ emitted[h].start < emitted[h].stop
                   /\ plan.activity + options.steady <= emitted[h].stop
                   /\ emitted[h].restart + options.post <= plan.duration

=============================================================================
