-------------------------- MODULE ConfigGeneration --------------------------
(***************************************************************************)
(* The generator that asks a language model for a scenario                 *)
(* (scripts/ai_config): directly, in a loop of attempts that are judged    *)
(* and fed back (generator.py), or with a user who reviews, edits and      *)
(* approves (interactive.py).  Either way two files are written, one after *)
(* the other: the configuration, expanded from a scenario, and the         *)
(* scenario.  What the model answers is arbitrary, and so is what it has   *)
(* been told; a scenario is known by the position at which it came up.     *)
(***************************************************************************)
EXTENDS HardForkChecks, Integers, Sequences

CONSTANTS
    Configs,     \* the configurations a scenario may stand for
    MaxAttempts, \* max_attempts
    MaxTexts,    \* bound: scenarios that come up
    Old          \* the file of an earlier run, or none

\* What is written of a configuration beside it: the scenario it expands, the
\* one its report is about, and whether it met the request.
Headers == [of : Nat, about : Nat, success : BOOLEAN]

ASSUME GenerationAssumption ==
    MaxAttempts \in Nat \ {0} /\ MaxTexts \in Nat /\ Old \notin Headers

VARIABLES
    mode,   \* "direct" or "interactive"
    custom, \* a path for the scenario is given
    desk,   \* "ask", "review", "final", "save", "saveScenario" or "done"
    tries,  \* attempts
    texts,  \* the scenarios that came up
    result, \* scenario_content, yaml_content, validation_report: positions in
            \* texts, 0 for None; and success
    pair, \* the configuration and the scenario on disk
    exit    \* exit status

generation == <<mode, custom, desk, tries, texts, result, pair, exit>>

GenerationInit ==
    /\ mode \in {"direct", "interactive"} /\ custom \in BOOLEAN
    /\ desk = "ask" /\ tries = 0 /\ texts = <<>>
    /\ result = [scenario |-> 0, yaml |-> 0, report |-> 0, success |-> FALSE]
    /\ pair = [config |-> Old, scenario |-> Old]
    /\ exit = 1

Comes(config) == Len(texts) < MaxTexts /\ texts' = Append(texts, config)
Newest == Len(texts')

-----------------------------------------------------------------------------
(* generate *)

\* _check_against_request: errors of the report, and what differs from the
\* request.
Accepted(config) == HardForkErrors(config) = {} /\ config.asked

\* _check_scenario_comments: three comments and a header; _expand_scenario, as
\* in ScenarioExpansion; the validator may raise on what it does not expect.
Commented(config) == config.comments
Expands(config) == config.expands
Validates(config) == config.validates

\* A scenario without comments is not expanded, one that does not expand is not
\* validated; what an earlier attempt came to stays.
Judged(config, n) ==
    LET expanded == Commented(config) /\ Expands(config)
        validated == expanded /\ Validates(config)
    IN  [scenario |-> n,
         yaml |-> IF expanded THEN n ELSE result.yaml,
         report |-> IF validated THEN n ELSE result.report,
         success |-> validated /\ Accepted(config)]

\* No answer, or one without YAML, is an attempt as well.
Attempt ==
    /\ mode = "direct" /\ desk = "ask"
    /\ tries' = tries + 1
    /\ \/ UNCHANGED <<texts, result>>
       \/ \E config \in Configs : Comes(config) /\ result' = Judged(config, Newest)
    /\ desk' = IF result'.success \/ tries' = MaxAttempts THEN "save" ELSE "ask"
    /\ UNCHANGED <<mode, custom, pair, exit>>

\* The metadata are those of the report, unless they cannot be built.
SaveConfig ==
    /\ desk = "save" /\ desk' = "saveScenario"
    /\ \E about \in {result.report, 0} :
           pair' = IF result.yaml = 0 THEN pair
                     ELSE [pair EXCEPT !.config =
                              [of |-> result.yaml, about |-> IF mode = "direct" THEN about ELSE 0,
                               success |-> result.success]]
    /\ UNCHANGED <<mode, custom, tries, texts, result, exit>>

SaveScenario ==
    /\ desk = "saveScenario" /\ desk' = "done"
    /\ pair' = IF result.scenario # 0 /\ (custom \/ result.yaml # 0)
                 THEN [pair EXCEPT !.scenario = result.scenario] ELSE pair
    /\ exit' = IF result.success THEN 0 ELSE 1
    /\ UNCHANGED <<mode, custom, tries, texts, result>>

\* Killed, or ended by an exception; a file that was open is cut off, which
\* makes it nobody's.
Dies ==
    /\ desk # "done" /\ desk' = "done"
    /\ \/ UNCHANGED pair
       \/ desk = "save" /\ pair' = [pair EXCEPT !.config = Old]
       \/ desk = "saveScenario" /\ pair' = [pair EXCEPT !.scenario = Old]
    /\ UNCHANGED <<mode, custom, tries, texts, result, exit>>

-----------------------------------------------------------------------------
(* run_interactive *)

Facing(from) == mode = "interactive" /\ desk = from

Becomes(config) == Comes(config) /\ result' = [result EXCEPT !.scenario = Newest]

\* The model is asked until it answers.
Propose ==
    /\ Facing("ask") /\ desk' = "review"
    /\ \E config \in Configs : Becomes(config)
    /\ UNCHANGED <<mode, custom, tries, pair, exit>>

\* "E", or "M" if the model answers.
Rework ==
    /\ Facing("review")
    /\ \E config \in Configs : Becomes(config)
    /\ UNCHANGED <<mode, custom, desk, tries, pair, exit>>

\* "R" or "N" before the expansion, "N" after it.
AskAgain ==
    /\ Facing("review") \/ Facing("final")
    /\ desk' = "ask"
    /\ UNCHANGED <<mode, custom, tries, texts, result, pair, exit>>

\* "A": an expansion the validator does not survive is kept, unseen.
Approve ==
    /\ Facing("review")
    /\ LET config == texts[result.scenario]
       IN  /\ result' = [result EXCEPT
                  !.yaml = IF Expands(config) THEN result.scenario ELSE @,
                  !.report = IF Expands(config) /\ Validates(config) THEN result.scenario ELSE @]
           /\ desk' = IF Expands(config) /\ Validates(config) THEN "final" ELSE "review"
    /\ UNCHANGED <<mode, custom, tries, texts, pair, exit>>

BugAfterChange == "final"

\* A scenario that has changed is reviewed, and expanded, again.
AfterChange == "review"

\* "M" after the expansion.
Modify ==
    /\ Facing("final")
    /\ \E config \in Configs : Becomes(config)
    /\ desk' = AfterChange
    /\ UNCHANGED <<mode, custom, tries, pair, exit>>

Back ==
    /\ Facing("final") /\ desk' = "review"
    /\ UNCHANGED <<mode, custom, tries, texts, result, pair, exit>>

\* "S" after the expansion.
Save ==
    /\ Facing("final") /\ desk' = "save"
    /\ result' = [result EXCEPT !.success = TRUE]
    /\ UNCHANGED <<mode, custom, tries, texts, pair, exit>>

\* "S" before the expansion.
SaveOnly ==
    /\ Facing("review") /\ desk' = "done"
    /\ pair' = [pair EXCEPT !.scenario = result.scenario]
    /\ exit' = 0
    /\ UNCHANGED <<mode, custom, tries, texts, result>>

GenerationNext ==
    \/ Attempt \/ SaveConfig \/ SaveScenario \/ Dies
    \/ Propose \/ Rework \/ AskAgain \/ Approve \/ Modify \/ Back \/ Save \/ SaveOnly

GenerationSpec == GenerationInit /\ [][GenerationNext]_generation

-----------------------------------------------------------------------------
(* Properties. *)

\* A generator that reports success leaves a pair that belongs together: the
\* configuration, if there is one, is the expansion of the scenario beside it,
\* and its metadata are about that; whatever attempts, edits and earlier
\* expansions came before.  And a configuration that says it met the request
\* is one of a generator that had it accepted.
SavedPairBelongs ==
    /\ desk = "done" /\ exit = 0 =>
           /\ pair.scenario = result.scenario
           /\ mode = "direct" => pair.config # Old
           /\ pair.config # Old =>
                  /\ pair.config.of = pair.scenario
                  /\ pair.config.about \in {0, pair.config.of}
    /\ pair.config # Old /\ mode = "direct" =>
           (pair.config.success => Accepted(texts[pair.config.of]))

\* What the direct generator delivers as a success is not refused by the
\* orchestrator for its hard fork schedule, injected seeds included: the
\* validator's checks do mirror the preflight guards - as long as the schedule
\* is not hidden in raw arguments, none that is empty stands for itself, and
\* Monero's source has no seed the validator does not know of.
SavedConfigStarts ==
    pair.config # Old /\ pair.config.success /\ mode = "direct" =>
        LET config == texts[pair.config.of]
        IN  /\ \A a \in Declared(config) : ~config.agents[a].raw
            /\ KnobUsed(config) => Scheduled(config)
            /\ config.seeds \subseteq ListedSeeds
            => Preflight(config)

=============================================================================
