--------------------------- MODULE HardForkChecks ---------------------------
(***************************************************************************)
(* Whether a configuration with a custom hard fork schedule can run, asked *)
(* twice: by the validator of the configuration generator                  *)
(* (scripts/ai_config/validator.py, on the YAML as it is), and by the      *)
(* preflight checks of the orchestrator (src/agent/user_agents.rs, on the  *)
(* agents it is going to start, injected seeds included).  The two do not  *)
(* ask alike: to the validator a schedule that is empty or false is none,  *)
(* to the orchestrator one that is there; and the validator has a list of  *)
(* seeds, where the orchestrator reads Monero's source.                    *)
(***************************************************************************)
CONSTANT ListedSeeds \* monero-seed-001..006, which the validator asks for

\* A configuration: schedule, of general.daemon_defaults, is "none", "empty",
\* "good" or "malformed"; implementations tells whether alternate nodes are
\* assigned; seeds are the hosts that are injected unless they are declared: one
\* for each address of Monero's source that is free, none in the modes off and
\* custom; agents maps each declared agent to its daemon ("none", "stock", "hf", or
\* the binaries of its phases, "phases" or "hfPhases"), its own schedule in
\* daemon_options, and whether its raw daemon arguments name the option.

Declared(config) == DOMAIN config.agents

Schedules(config) == {config.schedule} \cup {config.agents[a].schedule : a \in Declared(config)}

-----------------------------------------------------------------------------
(* ConfigValidator.validate *)

\* hf_anywhere
Scheduled(config) == Schedules(config) \cap {"good", "malformed"} # {}

UsesPatched(config) ==
    \E a \in Declared(config) : config.agents[a].daemon \in {"hf", "hfPhases"}

BugMissingSeeds(config) == {}

MissingSeeds(config) == ListedSeeds \ Declared(config)

HardForkErrors(config) ==
    IF ~Scheduled(config) /\ ~UsesPatched(config) THEN {}
    ELSE {e \in {"default", "binary", "phases", "seeds", "implementations", "malformed"} :
             \/ e = "default" /\ config.schedule \in {"none", "empty"}
             \/ e = "binary" /\ \E a \in Declared(config) : config.agents[a].daemon = "stock"
             \/ e = "phases" /\ \E a \in Declared(config) :
                                   config.agents[a].daemon \in {"phases", "hfPhases"}
             \/ e = "seeds" /\ MissingSeeds(config) # {}
             \/ e = "implementations" /\ config.implementations
             \/ e = "malformed" /\ "malformed" \in Schedules(config)}

-----------------------------------------------------------------------------
(* process_user_agents *)

\* The knob is in the options of some agent, whatever its value.
KnobUsed(config) == Schedules(config) # {"none"}

\* prepare_auto injects the seeds that are not declared; they run the stock
\* daemon.
Effective(config) ==
    [a \in Declared(config) \cup config.seeds |->
        IF a \in Declared(config) THEN config.agents[a]
        ELSE [daemon |-> "stock", schedule |-> "none", raw |-> FALSE]]

\* The option may stand in the merged options or in raw arguments, not in both,
\* and the binary must know it.
Starts(config, agent) ==
    LET inOptions == config.schedule # "none" \/ agent.schedule # "none"
    IN  /\ ~(inOptions /\ agent.raw)
        /\ inOptions \/ agent.raw => agent.daemon \notin {"stock", "phases"}

Preflight(config) ==
    LET all == Effective(config)
    IN  /\ config.implementations =>
               ~KnobUsed(config) /\ \A a \in DOMAIN all : ~all[a].raw
        /\ \A a \in DOMAIN all : Starts(config, all[a])

=============================================================================
