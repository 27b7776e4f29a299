---------------------------- MODULE UpgradeWizard ----------------------------
(***************************************************************************)
(* The interactive configurator of network upgrades                        *)
(* (scripts/configure_upgrade.py).  It works out a timeline of its own,    *)
(* shows it, and writes it at the head of the file whose configuration     *)
(* generate_upgrade_config derives from the same answers.                  *)
(***************************************************************************)
EXTENDS ConfigTimeline

CONSTANT UserAnswers  \* what the user may answer

\* ask_int and parse_duration take nothing else.
ASSUME AnswersAssumption ==
    \A a \in UserAnswers :
        {a.agents, a.steady, a.stagger, a.post} \subseteq Nat /\ a.fast \in BOOLEAN

VARIABLE told    \* the timeline shown to the user, None before

wizard == <<timeline, told>>

WizardInit ==
    /\ stage = "asking"
    /\ options = None /\ plan = <<>> /\ emitted = <<>>
    /\ calibration \in {"missing", "good"} /\ attempted = FALSE
    /\ told = None

\* calculate_and_display_timeline
Shown(a) ==
    LET activity == MinBootstrapEnd + 3600
        upgrade == activity + a.steady
        complete == upgrade + a.agents * a.stagger + RestartGap
    IN  [bootstrapEnd |-> MinBootstrapEnd, activity |-> activity, upgrade |-> upgrade,
         complete |-> complete, total |-> complete + a.post]

\* The arguments of generate_upgrade_config; the others keep their defaults.
Arguments(a, users) ==
    [users |-> users, duration |-> Shown(a).total, stagger |-> 5,
     upgrade |-> TRUE, upgradeStagger |-> a.stagger, order |-> a.order,
     steady |-> a.steady, post |-> a.post, fast |-> a.fast,
     batching |-> "auto", firstBatch |-> 5, maxBatch |-> 200, batchInterval |-> 1200,
     spawnStart |-> None, bootstrapEnd |-> None, mdStart |-> None,
     activityStart |-> None, upgradeStart |-> None, txInterval |-> None,
     relays |-> 0, relayStart |-> 5, relayStagger |-> 20]

OptionsOf(a) == Arguments(a, a.agents - NMiners)

\* At least one user beside the miners, a thousand nodes at most.
Answer ==
    /\ stage = "asking" /\ stage' = "asked"
    /\ \E a \in UserAnswers :
           /\ a.agents \in (NMiners + 1)..1000
           /\ told' = Shown(a)
           /\ options' = OptionsOf(a)
    /\ UNCHANGED <<plan, emitted, calibration, attempted>>

\* "Generate this configuration?"
Confirm ==
    /\ stage = "asked" /\ stage' \in {"ready", "cancelled"}
    /\ UNCHANGED <<options, plan, emitted, calibration, attempted, told>>

WizardNext == Answer \/ Confirm \/ (TimelineNext /\ UNCHANGED told)

WizardSpec == WizardInit /\ [][WizardNext]_wizard

-----------------------------------------------------------------------------

\* The times shown, and written at the head of the file, are those of the
\* configuration below it, though both are worked out apart: every phase from
\* the end of the bootstrap to the last daemon's restart is where the head says,
\* or all of them are late by one delay, and late they are only if a user starts
\* in the last sixth of the shown bootstrap or later.
HeaderKeepsTime ==
    stage = "written" /\ told # None =>
        LET late == plan.bootstrapEnd - told.bootstrapEnd
            crowded == \E h \in DOMAIN emitted :
                          h[1] = "user" /\ 6 * emitted[h].start > 5 * told.bootstrapEnd
        IN  /\ IF crowded THEN late > 0 ELSE late = 0 /\ plan.duration = told.total
            /\ plan.activity = told.activity + late
            /\ \E h \in DOMAIN emitted : emitted[h].stop = told.upgrade + late
            /\ \A h \in DOMAIN emitted :
                  /\ told.upgrade + late <= emitted[h].stop
                  /\ emitted[h].restart <= told.complete + late

\* What a generated configuration does when, with the wizard or without: its
\* phases do not overlap, and they are where the head of the file says.
TimelineHolds == PhasesInOrder /\ HeaderKeepsTime

=============================================================================
