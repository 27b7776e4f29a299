----------------------------- MODULE UserWallet -----------------------------
(***************************************************************************)
(* A regular_user agent and the monero-wallet-rpc of its host              *)
(* (agents/regular_user.py; agents/base_agent.py,                          *)
(* _recover_wallet_connection; agents/monero_rpc.py, WalletRPC).  In an    *)
(* upgrade scenario the wallet-rpc has several phases: each but the last   *)
(* is killed and followed by a process that has no wallet open, although   *)
(* the wallet's keys are on disk (agent/user_agents.rs,                    *)
(* docs/UPGRADE_WALLET_SIGKILL.md).  The agent has to open it again.       *)
(*                                                                         *)
(* Every call of the wallet-rpc is one step, so that the process can go    *)
(* between any two of them.  On a miner's host the same agent runs in the  *)
(* miner's role.  Time is left out: what is due may happen.                *)
(***************************************************************************)
EXTENDS Integers

CONSTANTS
    Roles,      \* the roles an instance considers, of "user" and "miner"
    LastPhase,  \* number of wallet-rpc phases
    StopIn,     \* the stages of the agent in which a phase may end
    Faults,     \* the kinds of deviation the environment may inject
    MaxFaults   \* bound: how many deviations one behaviour has

AllRoles == {"user", "miner"}

Stages == {"setup", "waiting", "syncing", "running"}

\* hang: the wallet-rpc stops answering; error: a call raises and has done
\* nothing; lost: a call raises although it was carried out.
FaultKinds == {"hang", "error", "lost"}

ASSUME RolesAssumption == Roles # {} /\ Roles \subseteq AllRoles
ASSUME LastPhaseAssumption == LastPhase \in Nat \ {0}
ASSUME StopInAssumption == StopIn \subseteq Stages
ASSUME FaultsAssumption == Faults \subseteq FaultKinds
ASSUME MaxFaultsAssumption == MaxFaults \in Nat

VARIABLES
    role,     \* is_miner
    pc,       \* where the agent is
    address,  \* wallet_address (and, for a user, the transaction parameters)
    named,    \* wallet_rpc.current_wallet
    waiting,  \* waiting_for_activity_start
    synced,   \* _wallet_synced: "unset", "no" or "yes"
    errors,   \* _consecutive_errors, as far as it is told apart
    phase,    \* the running phase of the wallet-rpc
    proc,     \* its process
    open,     \* it has the agent's wallet open
    keys,     \* the .keys file is in the wallet directory
    fresh,    \* the wallet has caught up with the chain in this phase
    faults    \* deviations spent so far

agent == <<role, pc, address, named, waiting, synced, errors>>
wallet == <<phase, proc, open, keys, fresh>>
vars == <<agent, wallet, faults>>

\* The saturation of errors: only the first two are told apart.
MaxErrors == 2

Init ==
    /\ role \in Roles
    /\ pc = "connect"
    /\ address = FALSE /\ named = FALSE
    /\ waiting = FALSE /\ synced = "unset"
    /\ errors = 0
    /\ phase = 1 /\ proc = "up"
    /\ open = FALSE /\ keys = FALSE /\ fresh = FALSE
    /\ faults = 0

-----------------------------------------------------------------------------

Fault(kind) ==
    /\ kind \in Faults
    /\ faults < MaxFaults
    /\ faults' = faults + 1

NoFault == UNCHANGED faults

\* A call is answered, ...
Answers == proc = "up"

\* ... and not with -13, "No wallet file".
Loaded == Answers /\ open

SetupPlaces == {"connect", "open", "create", "address", "lastTry"}

Stage ==
    CASE pc \in SetupPlaces -> "setup"
      [] waiting -> "waiting"
      [] synced = "no" -> "syncing"
      [] OTHER -> "running"

-----------------------------------------------------------------------------
(* Outcomes of a call.  Each leaves the agent's own fields to its user. *)

\* A call that needs no open wallet raises.
Raises == (Fault("error") \/ (~Answers /\ NoFault)) /\ UNCHANGED wallet

\* open_wallet is carried out; it creates a wallet that does not exist.
\* A wallet that was open is stored and opened again.
Opened == open' = TRUE /\ keys' = TRUE /\ UNCHANGED <<phase, proc, fresh>>

OpenSucceeds == Answers /\ NoFault /\ Opened /\ named' = TRUE

OpenRaises ==
    /\ \/ Raises
       \/ Answers /\ Fault("lost") /\ Opened
    /\ UNCHANGED named

\* A call on the open wallet that changes nothing there: its answer, ...
Reads == Loaded /\ NoFault /\ UNCHANGED wallet

\* ... -13, ...
NotLoaded == Answers /\ ~open /\ NoFault /\ UNCHANGED wallet

\* ... or refresh.
Refreshes ==
    /\ Loaded /\ NoFault
    /\ fresh' = TRUE
    /\ UNCHANGED <<phase, proc, open, keys>>

-----------------------------------------------------------------------------
(* Setting up *)

\* BaseAgent.setup waits for the wallet-rpc, or the agent exits.
Connect ==
    /\ pc = "connect"
    /\ pc' = IF Answers THEN "open" ELSE "exited"
    /\ UNCHANGED <<role, address, named, waiting, synced, errors, wallet, faults>>

\* open_wallet in _ensure_wallet_exists.  wait_until_ready before it raises
\* another error, which skips the attempt to create the wallet.
OpenExisting ==
    /\ pc = "open"
    /\ \/ OpenSucceeds /\ pc' = "address"
       \/ OpenRaises /\ pc' = "create"
       \/ ~Answers /\ NoFault /\ pc' = "lastTry" /\ UNCHANGED <<named, wallet>>
    /\ UNCHANGED <<role, address, waiting, synced, errors>>

\* create_wallet; a wallet that already exists is opened.
CreateWallet ==
    /\ pc = "create"
    /\ \/ OpenSucceeds /\ pc' = "address"
       \/ OpenRaises /\ pc' = "lastTry"
    /\ UNCHANGED <<role, address, waiting, synced, errors>>

\* _setup_wallet has an address: it is announced, and a user reads its
\* transaction parameters, among them whether its activity starts later.
HaveAddress ==
    /\ address' = TRUE
    /\ waiting' \in IF role = "user" THEN BOOLEAN ELSE {FALSE}
    /\ pc' = "iterate"

\* get_address opens the wallet again while it is answered with -13, if it
\* knows a name.
Reopen ==
    /\ Answers /\ ~open /\ named
    /\ NoFault /\ Opened
    /\ UNCHANGED <<pc, address, waiting>>

GetAddress ==
    /\ pc = "address"
    /\ \/ Reads /\ HaveAddress
       \/ Reopen
       \/ Raises /\ pc' = "lastTry" /\ UNCHANGED <<address, waiting>>
    /\ UNCHANGED <<role, named, synced, errors>>

\* The last attempt: the address of whatever wallet is open.  Without one the
\* agent runs on, with no address.
LastTry ==
    /\ pc = "lastTry"
    /\ \/ Reads /\ HaveAddress
       \/ Reopen
       \/ (Raises \/ (NotLoaded /\ ~named)) /\ pc' = "iterate"
             /\ UNCHANGED <<address, waiting>>
    /\ UNCHANGED <<role, named, synced, errors>>

-----------------------------------------------------------------------------
(* run_iteration *)

\* _run_miner_iteration: get_balance, answered or not, moves nothing.
MinerIteration ==
    /\ role = "miner" /\ pc = "iterate"
    /\ UNCHANGED vars

\* _maybe_wait_for_activity_start, when the start time has come.
StartActivity ==
    /\ role = "user" /\ pc = "iterate"
    /\ waiting
    /\ waiting' = FALSE /\ synced' = "no"
    /\ pc' = "sync"
    /\ UNCHANGED <<role, address, named, errors, wallet, faults>>

BeginIteration ==
    /\ role = "user" /\ pc = "iterate"
    /\ ~waiting
    /\ pc' = IF synced = "no" THEN "sync" ELSE "refresh"
    /\ UNCHANGED <<role, address, named, waiting, synced, errors, wallet, faults>>

\* Bug: the flag is set before the wallet has answered.
BugSyncFails ==
    /\ Raises \/ NotLoaded
    /\ synced' = "yes"
    /\ pc' = "iterate"

\* Whatever the error, the next iteration tries again.
SyncFails ==
    /\ Raises \/ NotLoaded
    /\ UNCHANGED synced
    /\ pc' = "iterate"

\* refresh and get_height in _ensure_wallet_synced.
SyncWallet ==
    /\ pc = "sync"
    /\ \/ Refreshes /\ synced' = "yes" /\ pc' = "refresh"
       \/ SyncFails
    /\ UNCHANGED <<role, address, named, waiting, errors>>

\* The interval may have passed.
RefreshDue == TRUE

\* _periodic_wallet_refresh, if it is due, succeeds, ...
RefreshWallet ==
    /\ pc = "refresh"
    /\ RefreshDue
    /\ Refreshes
    /\ pc' = "balance"
    /\ UNCHANGED <<role, address, named, waiting, synced, errors>>

\* ... is not due or fails: nobody minds.
SkipRefresh ==
    /\ pc = "refresh"
    /\ \/ NoFault /\ UNCHANGED wallet
       \/ Raises
    /\ pc' = "balance"
    /\ UNCHANGED <<role, address, named, waiting, synced, errors>>

\* _on_iteration_success
Succeeds == pc' = "iterate" /\ errors' = 0

\* Bug: a wallet-rpc that answers -13 is left to itself.
BugNeedsRecovery(unloaded) == ~unloaded /\ errors + 1 >= MaxErrors

\* Which errors make _on_iteration_error recover the wallet.
NeedsRecovery(unloaded) == unloaded \/ errors + 1 >= MaxErrors

\* _on_iteration_error
OnError(unloaded) ==
    /\ errors' = IF errors < MaxErrors THEN errors + 1 ELSE errors
    /\ pc' = IF NeedsRecovery(unloaded) THEN "recover" ELSE "iterate"

\* get_balance: funds to send and the dice in favour, ...
FundsReady ==
    /\ pc = "balance"
    /\ Reads
    /\ address
    /\ pc' = "transfer"
    /\ UNCHANGED <<role, address, named, waiting, synced, errors>>

\* ... nothing to send this time, ...
NothingToSend ==
    /\ pc = "balance"
    /\ Reads
    /\ Succeeds
    /\ UNCHANGED <<role, address, named, waiting, synced>>

\* ... or an error.
BalanceFails ==
    /\ pc = "balance"
    /\ \/ Raises /\ OnError(FALSE)
       \/ NotLoaded /\ OnError(TRUE)
    /\ UNCHANGED <<role, address, named, waiting, synced>>

\* _send_random_transaction: the transfer is answered, ...
Transfer ==
    /\ pc = "transfer"
    /\ Reads
    /\ pc' = "record"
    /\ UNCHANGED <<role, address, named, waiting, synced, errors>>

\* ... or raises, on chain or not: logged, and the iteration has succeeded.
TransferRaises ==
    /\ pc = "transfer"
    /\ \/ Raises \/ NotLoaded
       \/ Loaded /\ Fault("lost") /\ UNCHANGED wallet
    /\ Succeeds
    /\ UNCHANGED <<role, address, named, waiting, synced>>

\* _record_transaction, whose errors are logged as well.
RecordTransaction ==
    /\ pc = "record"
    /\ Succeeds
    /\ UNCHANGED <<role, address, named, waiting, synced, wallet, faults>>

\* _recover_wallet_connection: open_wallet, ...
RecoverOpen ==
    /\ pc = "recover"
    /\ \/ OpenSucceeds /\ pc' = "reload"
       \/ OpenRaises /\ pc' = "iterate"
    /\ UNCHANGED <<role, address, waiting, synced, errors>>

\* ... set_daemon and refresh.
RecoverRefresh ==
    /\ pc = "reload"
    /\ Refreshes \/ Raises \/ NotLoaded
    /\ pc' = "iterate"
    /\ UNCHANGED <<role, address, named, waiting, synced, errors>>

-----------------------------------------------------------------------------
(* The wallet-rpc *)

\* It deadlocks.  A deadlock in the last phase is never resolved; it is left
\* out, since nothing restarts that process.
Hang ==
    /\ proc = "up"
    /\ phase < LastPhase
    /\ Stage \in StopIn
    /\ Fault("hang")
    /\ proc' = "hung"
    /\ UNCHANGED <<agent, phase, open, keys, fresh>>

MayStop == phase < LastPhase

\* SIGKILL at the shutdown time of a phase that is not the last.
StopPhase ==
    /\ proc \in {"up", "hung"}
    /\ MayStop
    /\ Stage \in StopIn
    /\ proc' = "down"
    /\ open' = FALSE /\ fresh' = FALSE
    /\ UNCHANGED <<agent, phase, keys, faults>>

\* The process of the next phase listens, with no wallet open.
StartPhase ==
    /\ proc = "down"
    /\ proc' = "up"
    /\ phase' = phase + 1
    /\ UNCHANGED <<agent, open, keys, fresh, faults>>

-----------------------------------------------------------------------------

Setup == Connect \/ OpenExisting \/ CreateWallet \/ GetAddress \/ LastTry

Iteration ==
    \/ MinerIteration \/ StartActivity \/ BeginIteration \/ SyncWallet
    \/ RefreshWallet \/ SkipRefresh
    \/ FundsReady \/ NothingToSend \/ BalanceFails
    \/ Transfer \/ TransferRaises \/ RecordTransaction
    \/ RecoverOpen \/ RecoverRefresh

Phases == Hang \/ StopPhase \/ StartPhase

Next == Setup \/ Iteration \/ Phases

Spec == Init /\ [][Next]_vars

\* The agent's loop runs on, Shadow starts and stops the phases at their
\* times, a refresh that keeps being skipped comes due, and a wallet that
\* has caught up has something to send from time to time.
FairSpec ==
    /\ Spec
    /\ WF_vars(Setup \/ Iteration)
    /\ WF_vars(StopPhase) /\ WF_vars(StartPhase)
    /\ SF_vars(RefreshWallet)
    /\ SF_vars(FundsReady /\ fresh)

-----------------------------------------------------------------------------
(* Properties *)

Places ==
    SetupPlaces \cup {"exited", "iterate", "sync", "refresh", "balance",
                      "transfer", "record", "recover", "reload"}

\* Every variable has its type; the wallet-rpc has no phase after the last.
TypeOK ==
    /\ role \in AllRoles
    /\ pc \in Places
    /\ address \in BOOLEAN /\ named \in BOOLEAN /\ waiting \in BOOLEAN
    /\ synced \in {"unset", "no", "yes"}
    /\ errors \in 0..MaxErrors
    /\ phase \in 1..LastPhase
    /\ proc \in {"up", "hung", "down"}
    /\ open \in BOOLEAN /\ keys \in BOOLEAN /\ fresh \in BOOLEAN
    /\ faults \in Nat

\* A user that waited for its activity start does not look at its balance
\* before its wallet has caught up ("Ensure wallet is synced before
\* attempting any transactions"); in the phase in which it synced nothing the
\* agent does, recoveries included, takes that back.
SyncedFirst ==
    /\ pc \in {"refresh", "balance", "transfer", "record"} => synced # "no"
    /\ phase = 1 /\ proc # "down" /\ synced = "yes" => fresh

\* Its activity has begun and its wallet has synced once, or it never waited.
Active == role = "user" /\ address /\ ~waiting /\ synced # "no"

\* An active user sends again and again, whatever phases, deadlocks and errors
\* came in between, and at whatever stage a phase ended: so every new
\* wallet-rpc gets its wallet opened (the comment in _on_iteration_error,
\* "until we explicitly re-open").
UserSendsAgain == Active ~> pc = "record"

\* Every user that has been set up sends one day.  Violated: a wallet-rpc that
\* is restarted while the user waits for its start is never opened.
EveryUserSends == (role = "user" /\ address) ~> pc = "record"

=============================================================================
