--------------------------- MODULE AutonomousMiner ---------------------------
(***************************************************************************)
(* The autonomous miner (agents/autonomous_miner.py) with the mining calls *)
(* of its daemon client (agents/monero_rpc.py): it waits for its address,  *)
(* then draws a waiting time, sleeps it in slices, rescales what is left   *)
(* when the multiplier of DaaReplay moves, and generates a block with the  *)
(* first mining method that works.                                         *)
(***************************************************************************)
EXTENDS DaaReplay

CONSTANTS
    Daemons,  \* the sets of mining methods a daemon may have
    Waits,    \* drawn waiting times, in slices
    MaxPolls  \* bound: polls for the address before the miner gives up

\* read: a file with the address cannot be read; rpc: a mining call raises
\* although the daemon has the method; shape: a mining call is answered with
\* something that is no JSON-RPC response; daemon: the daemon never gets ready;
\* stop: the agent is told to stop.
MinerFaults == ReplayFaults \cup {"read", "rpc", "shape", "daemon", "stop"}

Methods == {"start_mining", "generateblocks"}

ASSUME DaemonsAssumption == Daemons \subseteq SUBSET Methods /\ Daemons # {}
ASSUME WaitsAssumption == Waits \subseteq Nat \ {0} /\ Waits # {}
ASSUME PollsAssumption == MaxPolls \in Nat \ {0}
ASSUME FaultsAssumption == Faults \subseteq MinerFaults

VARIABLES
    pc,        \* where the miner is
    polls,     \* polls for the address so far
    announced, \* {id}_miner_info.json or the entry in agent_registry.json has the address
    running,   \* the agent has not been told to stop
    remaining, \* slices left of the wait
    sampled,   \* m_at_sample
    supported, \* the mining methods the daemon has
    available, \* available_methods: what the client believes, per method
    misread    \* history: the methods whose probe was answered without the shape of one

world == <<announced, supported, misread>>
miner == <<pc, polls, running, remaining, sampled, available>>
vars == <<daemon, replay, faults, world, miner>>

Init ==
    /\ ReplayInit
    /\ pc = "connect" /\ polls = 0
    /\ announced = FALSE
    /\ running = TRUE
    /\ remaining = 0 /\ sampled = One
    /\ supported \in Daemons
    /\ available = <<>>
    /\ misread = {}

-----------------------------------------------------------------------------
(* Others: the chain, the regular user of this host, a stop signal. *)

\* What the network does between two questions the next question sees as well.
Asking == query # "none"

NetworkExtends == Asking /\ Extend /\ UNCHANGED <<replay, faults, world, miner>>

NetworkPops == Asking /\ PopBlock /\ UNCHANGED <<world, miner>>

\* Only the miner's set-up reads what is announced.
WalletAnnounces ==
    /\ pc \in {"connect", "address"}
    /\ ~announced /\ announced' = TRUE
    /\ UNCHANGED <<daemon, replay, faults, supported, misread, miner>>

Stop ==
    /\ running /\ Fault("stop")
    /\ running' = FALSE
    /\ UNCHANGED <<daemon, replay, world, pc, polls, remaining, sampled, available>>

-----------------------------------------------------------------------------
(* Set-up. *)

Goto(place) ==
    /\ pc' = place
    /\ UNCHANGED <<daemon, world, running>>

\* wait_until_ready
DaemonReady ==
    /\ pc = "connect"
    /\ Goto("address")
    /\ UNCHANGED <<replay, faults, polls, remaining, sampled, available>>

DaemonNeverReady ==
    /\ pc = "connect" /\ Fault("daemon")
    /\ Goto("failed")
    /\ UNCHANGED <<replay, polls, remaining, sampled, available>>

\* One poll of _get_mining_address: the file of the regular user, then the
\* registry; what cannot be read is passed over.
AddressFound ==
    /\ pc = "address" /\ polls < MaxPolls
    /\ announced
    /\ polls' = 0
    /\ Goto("loop")
    /\ UNCHANGED <<replay, faults, remaining, sampled, available>>

AddressMissing ==
    /\ pc = "address" /\ polls < MaxPolls
    /\ \/ ~announced /\ UNCHANGED faults
       \/ announced /\ Fault("read")
    /\ polls' = polls + 1
    /\ Goto("address")
    /\ UNCHANGED <<replay, remaining, sampled, available>>

AddressTimeout ==
    /\ pc = "address" /\ polls = MaxPolls
    /\ Goto("failed")
    /\ UNCHANGED <<replay, faults, polls, remaining, sampled, available>>

-----------------------------------------------------------------------------
(* run_iteration. *)

\* The loop of BaseAgent.run looks at running, then asks for the multiplier.
Iterate ==
    /\ pc = "loop"
    /\ IF running
       THEN Ask /\ pc' = "draw"
       ELSE pc' = "stopped" /\ UNCHANGED <<daemon, replay, faults>>
    /\ UNCHANGED <<world, polls, running, remaining, sampled, available>>

\* _calculate_next_block_time: an exponential wait for the multiplier.
DrawWait ==
    /\ pc = "draw" /\ query = "none"
    /\ \E w \in Waits : remaining' = w
    /\ sampled' = multiplier
    /\ Goto("sleep")
    /\ UNCHANGED <<replay, faults, polls, available>>

SleepSlice ==
    /\ pc = "sleep" /\ running /\ remaining > 0
    /\ remaining' = remaining - 1
    /\ IF remaining = 1 THEN pc' = "sleep" /\ UNCHANGED <<daemon, replay, faults>>
                        ELSE pc' = "rescale" /\ Ask
    /\ UNCHANGED <<world, polls, running, sampled, available>>

\* By more than 1% of the multiplier the wait was scaled with.
Moved == (multiplier - sampled) * 100 > sampled \/ (sampled - multiplier) * 100 > sampled

Rescaled == (remaining * multiplier + sampled - 1) \div sampled

Rescale ==
    /\ pc = "rescale" /\ query = "none"
    /\ IF Moved THEN remaining' = Rescaled /\ sampled' = multiplier
                ELSE UNCHANGED <<remaining, sampled>>
    /\ Goto("sleep")
    /\ UNCHANGED <<replay, faults, polls, available>>

\* The wait is over; ensure_mining detects the methods once.
WaitOver ==
    /\ pc = "sleep" /\ running /\ remaining <= 0
    /\ Goto(IF available = <<>> THEN "detect" ELSE "start")
    /\ sampled' = One
    /\ UNCHANGED <<replay, faults, polls, remaining, available>>

WaitCut ==
    /\ pc = "sleep" /\ ~running
    /\ remaining' = 0 /\ sampled' = One
    /\ Goto("loop")
    /\ UNCHANGED <<replay, faults, polls, available>>

BugNoted(kind) == FALSE

\* What is noted of a method: an error other than "method not found" is taken for
\* a method that exists, an answer without the shape of one for a method that does
\* not.
Noted(kind) == kind = "rpc"

\* detect_available_methods
Detect ==
    /\ pc = "detect"
    /\ \/ /\ available' = [m \in Methods |-> m \in supported]
          /\ UNCHANGED <<faults, misread>>
       \/ \E m \in Methods, kind \in {"rpc", "shape"} :
             /\ Fault(kind)
             /\ available' = [n \in Methods |-> IF n = m THEN Noted(kind) ELSE n \in supported]
             /\ misread' = {n \in {m} : kind = "shape"}
    /\ pc' = "start"
    /\ UNCHANGED <<daemon, announced, supported, running, replay, polls, remaining, sampled>>

Believed(m) == IF m \in DOMAIN available THEN available[m] ELSE TRUE

\* A method the daemon does not have is not tried again.
Unavailable(m) == available' = [available EXCEPT ![m] = FALSE]

StartMining ==
    /\ pc = "start" /\ Believed("start_mining") /\ "start_mining" \in supported
    /\ Goto("loop")
    /\ UNCHANGED <<replay, faults, polls, remaining, sampled, available>>

StartMiningFails ==
    /\ pc = "start"
    /\ \/ ~Believed("start_mining") /\ UNCHANGED <<faults, available>>
       \/ /\ Believed("start_mining") /\ "start_mining" \notin supported
          /\ Unavailable("start_mining") /\ UNCHANGED faults
       \/ Believed("start_mining") /\ Fault("rpc") /\ UNCHANGED available
    /\ Goto("generate")
    /\ UNCHANGED <<replay, polls, remaining, sampled>>

\* generateblocks: the chain has one more block.
GenerateBlock ==
    /\ pc = "generate" /\ Believed("generateblocks") /\ "generateblocks" \in supported
    /\ Extend
    /\ pc' = "loop"
    /\ UNCHANGED <<replay, faults, world, polls, running, remaining, sampled, available>>

GenerateFails ==
    /\ pc = "generate"
    /\ \/ ~Believed("generateblocks") /\ UNCHANGED <<faults, available>>
       \/ /\ Believed("generateblocks") /\ "generateblocks" \notin supported
          /\ Unavailable("generateblocks") /\ UNCHANGED faults
       \/ Believed("generateblocks") /\ Fault("rpc") /\ UNCHANGED available
    /\ Goto("loop")
    /\ UNCHANGED <<replay, polls, remaining, sampled>>

\* An answer without the shape of one ends the attempt, not the miner; the block
\* it may have been about is one of NetworkExtends.
AnswerMisread ==
    /\ \/ pc = "start" /\ Believed("start_mining")
       \/ pc = "generate" /\ Believed("generateblocks")
    /\ Fault("shape")
    /\ Goto("loop")
    /\ UNCHANGED <<replay, polls, remaining, sampled, available>>

-----------------------------------------------------------------------------

Replaying == ReplayStep /\ UNCHANGED <<world, miner>>

MinerStep ==
    \/ DaemonReady \/ DaemonNeverReady
    \/ AddressFound \/ AddressMissing \/ AddressTimeout
    \/ Iterate \/ DrawWait \/ SleepSlice \/ Rescale \/ WaitOver \/ WaitCut
    \/ Detect \/ StartMining \/ StartMiningFails \/ GenerateBlock \/ GenerateFails \/ AnswerMisread
    \/ Replaying

Next == MinerStep \/ NetworkExtends \/ NetworkPops \/ WalletAnnounces \/ Stop

Spec == Init /\ [][Next]_vars

\* The miner is a sequential loop.
FairSpec == Spec /\ WF_vars(MinerStep)

-----------------------------------------------------------------------------
(* Properties. *)

\* A replay that ended.
Replayed == query = "replay" /\ query' = "none" /\ height = top + 2

\* One that did not.
Interrupted == query = "replay" /\ query' = "none" /\ height # top + 2

\* Every miner computes the identical series from the same headers: what a
\* replay answers is the recurrence over the daemon's chain, whatever was
\* cached, pruned, interrupted or dropped before, unless a block it had cached
\* was replaced behind its back.
ReplayIsSeries ==
    [][Replayed /\ ~stale => multiplier' = SeriesOf(chain)[top + 1]]_vars

\* A failure answers no made-up multiplier: a replay that fails holds the one
\* of the last that did not, although it has overwritten a part of the series;
\* a failed get_info answers the one of the last block replayed, a value of
\* the chain's series that pruning has not taken away.
FailureHolds ==
    [][/\ Interrupted => multiplier' = settled
       /\ query = "info" /\ faults' # faults /\ query' = "none" /\ ~stale =>
             multiplier' = SeriesOf(chain)[IF last = NoHeight THEN 0 ELSE last]]_vars

\* A miner whose daemon can generate blocks extends the chain again and again:
\* rescaling does not postpone the attempt for ever, and no error keeps it from
\* mining for good, not even one during the detection of the methods - unless the
\* probe of generateblocks was answered with something that is no JSON-RPC response,
\* which is taken for a missing method and never asked again.
MinesOn ==
    supported = {"generateblocks"} =>
        <>[](Top = MaxTop \/ pc \in {"failed", "stopped"} \/ "generateblocks" \in misread)

=============================================================================
