-------------------------- MODULE MinerDistributor --------------------------
(***************************************************************************)
(* Initial funding by the miner distributor (MD), the agent that pays      *)
(* every eligible wallet of the simulation once before the run's traffic   *)
(* starts (agents/miner_distributor/agent.py).                             *)
(*                                                                         *)
(* MD is one sequential process: pc is the place in the call chain of      *)
(* _perform_initial_funding, job holds the Python locals of that chain,    *)
(* which vanish whenever the chain returns or raises.  Everything around   *)
(* MD is nondeterministic: which miner a strategy picks, whether a wallet  *)
(* answers, whether a transfer is refused, errs, or is broadcast with its  *)
(* answer lost, whether a file operation raises, and when MD is killed.    *)
(* Each such deviation spends one unit of the bound MaxFaults.             *)
(*                                                                         *)
(* Recipients are named by their position in agent_registry.json, so the   *)
(* batches cut from the registry order are cut from the order of 1..N.     *)
(***************************************************************************)
EXTENDS Integers, FiniteSets

CONSTANTS
    N,           \* number of eligible recipients in agent_registry.json
    Miners,      \* the agents of miners.json
    NoMiner,     \* the absent miner (None)
    BatchSize,   \* md_n_recipients
    Threshold,   \* _PERMANENT_FAILURE_THRESHOLD
    MaxRetries,  \* max_retries of one batch transaction
    Broken,      \* recipients whose wallet never yields an address
    Faults,      \* the kinds of deviation the environment may inject
    MaxFaults    \* bound: how many deviations one behaviour has

Recipients == 1..N

FaultKinds == {"lookup", "refused", "error", "lost",
               "record", "write", "read", "crash"}

ASSUME NAssumption == N \in Nat
ASSUME MinersAssumption == Miners # {} /\ NoMiner \notin Miners
ASSUME BatchSizeAssumption == BatchSize \in Nat \ {0}
ASSUME ThresholdAssumption == Threshold \in Nat \ {0}
ASSUME MaxRetriesAssumption == MaxRetries \in Nat \ {0}
ASSUME BrokenAssumption == Broken \subseteq Recipients
ASSUME FaultsAssumption == Faults \subseteq FaultKinds
ASSUME MaxFaultsAssumption == MaxFaults \in Nat

VARIABLES
    pc,         \* where _perform_initial_funding is
    job,        \* its locals, across the functions it calls
    status,     \* initial_funding_status.json
    perm,       \* self._permanently_failed
    count,      \* self._recipient_retry_counts
    waiting,    \* self.waiting_for_maturity
    done,       \* self.initial_funding_completed
    miners,     \* members of self.miners that have a wallet address
    addressed,  \* miners whose {id}_miner_info.json is written
    paid,       \* history: transfers to a recipient that reached the chain
    recorded,   \* history: transactions.json entries naming a recipient
    lost,       \* history: payments whose trace MD lost, per recipient
    missed,     \* history: failed address lookups, capped at Threshold
    faults      \* deviations spent so far

ram == <<perm, count, waiting, done, miners>>
history == <<paid, recorded, lost, missed>>
vars == <<pc, job, status, ram, addressed, history, faults>>

Zero == [r \in Recipients |-> 0]

NoJob == [todo |-> {}, batch |-> {}, bad |-> {}, miner |-> NoMiner,
          exhausted |-> {}, failover |-> FALSE, attempt |-> 0,
          funded |-> {}, failed |-> {}]

EmptyStatus == [funded |-> {}, failed |-> {}, perm |-> {}, completed |-> FALSE]

Init ==
    /\ pc = "load"
    /\ job = NoJob
    /\ status = EmptyStatus
    /\ perm = {}
    /\ count = Zero
    /\ waiting = TRUE
    /\ done = FALSE
    /\ miners = {}
    /\ addressed = {}
    /\ paid = Zero
    /\ recorded = Zero
    /\ lost = Zero
    /\ missed = Zero
    /\ faults = 0

-----------------------------------------------------------------------------
(* Helpers *)

\* The environment deviates in the way named kind.
Fault(kind) ==
    /\ kind \in Faults
    /\ faults < MaxFaults
    /\ faults' = faults + 1

NoFault == UNCHANGED faults

\* One more for every member of S.
Bump(f, S) == [r \in Recipients |-> IF r \in S THEN f[r] + 1 ELSE f[r]]

\* _batch_recipients: the next BatchSize recipients in registry order.
FirstBatch(S) == {r \in S : Cardinality({q \in S : q < r}) < BatchSize}

\* _select_miner_excluding with the reset that follows an empty selection:
\* the miners that may be picked, and the exhausted set left behind.
Usable(exhausted) ==
    IF miners \subseteq exhausted THEN miners ELSE miners \ exhausted

ResetIfSpent(exhausted) ==
    IF miners \subseteq exhausted THEN {} ELSE exhausted

\* What _discover_miners may find: every miner whose info file is there, and
\* whichever others answer the direct wallet query.
Discovered == {S \in SUBSET Miners : addressed \subseteq S}

\* The recipients of the current batch that take part in the transaction.
Paying == job.batch \ job.bad

\* Bug: "nothing failed" is taken for "everything is funded".
BugStatusOf(funded, failed, permanent, completed) ==
    [funded |-> funded, failed |-> failed,
     perm |-> permanent, completed |-> failed = {}]

\* Bug: the completed flag never reaches the file.
BugStatusUnclosed(funded, failed, permanent, completed) ==
    [funded |-> funded, failed |-> failed,
     perm |-> permanent, completed |-> FALSE]

\* _write_funding_status
StatusOf(funded, failed, permanent, completed) ==
    [funded |-> funded, failed |-> failed,
     perm |-> permanent, completed |-> completed]

\* The call chain returns (or raises) to the run loop.
ReturnToLoop == pc' = "sleep" /\ job' = NoJob

-----------------------------------------------------------------------------
(* The agent's loop up to the first batch *)

\* A mining agent writes its {id}_miner_info.json during its own setup.
MinerRegisters(m) ==
    /\ m \notin addressed
    /\ addressed' = addressed \cup {m}
    /\ UNCHANGED <<pc, job, status, ram, history, faults>>

\* _check_miner_balance: some miner has matured enough, or max_wait_time is over.
ClearMaturityGate ==
    /\ pc \in {"sleep", "load"}
    /\ waiting
    /\ waiting' = FALSE
    /\ UNCHANGED <<pc, job, status, perm, count, done, miners, addressed,
                   history, faults>>

\* run_iteration while initial funding is open.
StartFunding ==
    /\ pc = "sleep"
    /\ ~done
    /\ ~waiting
    /\ \E S \in Discovered : miners' = S
    /\ pc' = "load"
    /\ UNCHANGED <<job, status, perm, count, waiting, done, addressed,
                   history, faults>>

\* run_iteration once initial funding is over: the funding cycle, which reads
\* the status file and touches nothing of this module.
RunFundingCycle ==
    /\ pc = "sleep"
    /\ done
    /\ UNCHANGED vars

\* Bug: the give-up state of the file is not taken over after a restart.
BugRehydrated == perm

\* The give-up state after a restart.
Rehydrated == perm \cup status.perm

\* _load_funding_progress and the maturity gate behind it.
LoadProgress ==
    /\ pc = "load"
    /\ NoFault
    /\ \/ /\ status.completed
          /\ done' = TRUE
          /\ ReturnToLoop
          /\ UNCHANGED perm
       \/ /\ ~status.completed
          /\ perm' = Rehydrated
          /\ IF waiting
             THEN ReturnToLoop
             ELSE /\ pc' = "discover"
                  /\ job' = [NoJob EXCEPT !.funded = status.funded,
                                          !.failed = status.failed]
          /\ UNCHANGED done
    /\ UNCHANGED <<status, count, waiting, miners, addressed, history>>

\* read_shared_state answers None on an OSError, which _read_funding_status
\* takes for a file that was never written.
LoadUnreadable ==
    /\ pc = "load"
    /\ Fault("read")
    /\ IF waiting
       THEN ReturnToLoop
       ELSE pc' = "discover" /\ job' = NoJob
    /\ lost' = Bump(lost, status.funded)
    /\ UNCHANGED <<status, ram, addressed, paid, recorded, missed>>

\* _get_miners_with_wallets; with no addressed miner, _fund_miners_first looks
\* the addresses up itself and starts over when it finds one.
DiscoverMiners ==
    /\ pc = "discover"
    /\ \/ NoFault /\ miners' \in Discovered
       \/ Fault("read") /\ UNCHANGED miners
    /\ \/ miners' # {} /\ pc' = "collect" /\ UNCHANGED job
       \/ miners' = {} /\ pc' = "load" /\ job' = NoJob
       \/ miners' = {} /\ ReturnToLoop
    /\ UNCHANGED <<status, perm, count, waiting, done, addressed, history>>

\* Bug: the recipients already funded are not skipped.
BugUnfundedRepays == Recipients \ perm

\* Bug: the recipients already given up are not skipped.
BugUnfundedRevives == Recipients \ job.funded

\* The recipients _collect_eligible_recipients leaves to fund.
Unfunded == Recipients \ (job.funded \cup perm)

\* _collect_eligible_recipients: somebody is left to fund.
CollectRecipients ==
    /\ pc = "collect"
    /\ Unfunded # {}
    /\ pc' = "select"
    /\ job' = [job EXCEPT !.todo = Unfunded]
    /\ UNCHANGED <<status, ram, addressed, history, faults>>

\* _collect_eligible_recipients: nobody is left, completion is written at once.
CompleteEarly ==
    /\ pc = "collect"
    /\ Unfunded = {}
    /\ status' = StatusOf(job.funded, job.failed, perm, TRUE)
    /\ done' = TRUE
    /\ ReturnToLoop
    /\ UNCHANGED <<perm, count, waiting, miners, addressed, history, faults>>

\* agent_registry.json cannot be read: nothing is done in this iteration.
RegistryUnreadable ==
    /\ pc = "collect"
    /\ Fault("read")
    /\ ReturnToLoop
    /\ UNCHANGED <<status, ram, addressed, history>>

-----------------------------------------------------------------------------
(* One batch: _process_funding_batches, _send_batch_transaction *)

\* Cut the next batch and pick a miner for it.
SelectMiner ==
    /\ pc = "select"
    /\ \E m \in Usable(job.exhausted) :
          job' = [job EXCEPT !.batch = FirstBatch(job.todo),
                             !.bad = {},
                             !.miner = m,
                             !.exhausted = ResetIfSpent(job.exhausted),
                             !.failover = FALSE]
    /\ pc' = "lookup"
    /\ UNCHANGED <<status, ram, addressed, history, faults>>

\* _get_recipient_address for every recipient of the batch.
LookUpAddresses ==
    /\ pc = "lookup"
    /\ \E bad \in SUBSET job.batch :
          /\ job.batch \cap Broken \subseteq bad
          /\ IF bad \subseteq Broken THEN NoFault ELSE Fault("lookup")
          /\ job' = [job EXCEPT !.bad = bad, !.attempt = 1]
          /\ missed' = [r \in Recipients |->
                          IF r \in bad /\ missed[r] < Threshold
                          THEN missed[r] + 1 ELSE missed[r]]
          /\ pc' = IF bad = job.batch THEN "failed" ELSE "transfer"
    /\ UNCHANGED <<status, ram, addressed, paid, recorded, lost>>

\* transfer_split answers with its hashes.
TransferSucceeds ==
    /\ pc = "transfer"
    /\ paid' = Bump(paid, Paying)
    /\ pc' = "record"
    /\ UNCHANGED <<job, status, ram, addressed, recorded, lost, missed, faults>>

\* Not enough (unlocked) money, or invalid params: no retry on this miner.
TransferRefused ==
    /\ pc = "transfer"
    /\ Fault("refused")
    /\ pc' = "failed"
    /\ UNCHANGED <<job, status, ram, addressed, history>>

\* The except clause of the attempt loop: sleep and try again, or give up.
RetryAttempt ==
    IF job.attempt < MaxRetries
    THEN pc' = "transfer" /\ job' = [job EXCEPT !.attempt = @ + 1]
    ELSE pc' = "failed" /\ UNCHANGED job

\* Any other error before the wallet broadcast anything.
TransferErrs ==
    /\ pc = "transfer"
    /\ Fault("error")
    /\ RetryAttempt
    /\ UNCHANGED <<status, ram, addressed, history>>

\* The wallet broadcasts the transfer but its answer is lost (a timeout).
TransferAnswerLost ==
    /\ pc = "transfer"
    /\ Fault("lost")
    /\ paid' = Bump(paid, Paying)
    /\ lost' = Bump(lost, Paying)
    /\ RetryAttempt
    /\ UNCHANGED <<status, ram, addressed, recorded, missed>>

\* _record_transaction appends one entry to transactions.json.
RecordTransaction ==
    /\ pc = "record"
    /\ recorded' = Bump(recorded, Paying)
    /\ pc' = "settle"
    /\ UNCHANGED <<job, status, ram, addressed, paid, lost, missed, faults>>

\* The append raises inside the attempt loop's try, after the broadcast.
RecordRaises ==
    /\ pc = "record"
    /\ Fault("record")
    /\ lost' = Bump(lost, Paying)
    /\ RetryAttempt
    /\ UNCHANGED <<status, ram, addressed, paid, recorded, missed>>

-----------------------------------------------------------------------------
(* Book-keeping after a batch *)

\* Bug: the whole batch is taken for funded, failed lookups included.
BugFundedWhole == job.funded \cup job.batch

\* The funded set after the batch.
FundedNow == job.funded \cup Paying

\* _record_recipient_failure: whose failed lookup counts, ...
Counted == job.bad \ (FundedNow \cup perm)

\* Bug: one lookup too few before giving up.
BugGivenUp == {r \in Counted : count[r] + 2 >= Threshold}

\* ... and who reaches the threshold by it.
GivenUp == {r \in Counted : count[r] + 1 >= Threshold}

\* _record_recipient_success and _record_recipient_failure on self's fields.
CountLookups ==
    /\ perm' = perm \cup GivenUp
    /\ count' = [r \in Recipients |->
                   IF r \in Paying THEN 0
                   ELSE IF r \in Counted THEN count[r] + 1
                   ELSE count[r]]

\* The transient failures after the batch.
FailedNow == ((job.failed \ Paying) \cup Counted) \ GivenUp

\* Success path of _process_funding_batches and of _retry_failed_batch: move
\* the sets, persist them, go on with the next batch.
SettleBatch ==
    LET rest == job.todo \ job.batch
    IN  /\ pc = "settle"
        /\ CountLookups
        /\ status' = StatusOf(FundedNow, FailedNow, perm', FALSE)
        /\ pc' = IF rest = {} THEN "finalize" ELSE "select"
        /\ job' = [job EXCEPT !.todo = rest, !.batch = {}, !.bad = {},
                              !.miner = NoMiner, !.attempt = 0,
                              !.funded = FundedNow, !.failed = FailedNow]
        /\ UNCHANGED <<waiting, done, miners, addressed, history, faults>>

\* The same with a write that raises: only self's fields have moved.
SettleUnsaved ==
    /\ pc = "settle"
    /\ Fault("write")
    /\ CountLookups
    /\ lost' = Bump(lost, Paying)
    /\ ReturnToLoop
    /\ UNCHANGED <<status, waiting, done, miners, addressed, paid, recorded, missed>>

\* _retry_failed_batch, first failure: another miner gets the same batch.
FailOver ==
    LET exhausted == job.exhausted \cup {job.miner}
    IN  /\ pc = "failed"
        /\ ~job.failover
        /\ \E m \in Usable(exhausted) :
              job' = [job EXCEPT !.miner = m, !.failover = TRUE, !.bad = {},
                                 !.exhausted = ResetIfSpent(exhausted)]
        /\ pc' = "lookup"
        /\ UNCHANGED <<status, ram, addressed, history, faults>>

\* _retry_failed_batch, second failure: persist and pause until the next
\* iteration.  The give-up counters are left alone.
PauseFunding ==
    /\ pc = "failed"
    /\ job.failover
    /\ status' = StatusOf(job.funded, job.failed \cup job.batch, perm, FALSE)
    /\ ReturnToLoop
    /\ UNCHANGED <<ram, addressed, history, faults>>

\* Bug: transient failures count toward completion too.
BugAllDone ==
    Cardinality(job.funded) + Cardinality(perm) + Cardinality(job.failed) >= N

\* _finalize_funding_status
AllDone == Cardinality(job.funded) + Cardinality(perm) >= N

FinalizeFunding ==
    /\ pc = "finalize"
    /\ status' = StatusOf(job.funded, job.failed, perm, AllDone)
    /\ done' = AllDone
    /\ ReturnToLoop
    /\ UNCHANGED <<perm, count, waiting, miners, addressed, history, faults>>

\* write_shared_state raises where completion or a pause is to be persisted:
\* the iteration ends there and the file stays as it was.
WriteRaises ==
    /\ \/ pc = "collect" /\ Unfunded = {}
       \/ pc = "failed" /\ job.failover
       \/ pc = "finalize"
    /\ Fault("write")
    /\ ReturnToLoop
    /\ UNCHANGED <<status, ram, addressed, history>>

\* MD is killed and started again: what it held in memory is gone.
CrashAndRestart ==
    /\ Fault("crash")
    /\ pc' = "load"
    /\ job' = NoJob
    /\ perm' = {}
    /\ count' = Zero
    /\ waiting' = TRUE
    /\ done' = FALSE
    /\ miners' = {}
    /\ lost' = IF pc \in {"record", "settle"} THEN Bump(lost, Paying) ELSE lost
    /\ UNCHANGED <<status, addressed, paid, recorded, missed>>

-----------------------------------------------------------------------------

\* What MD's own loop does; the loop never stops and absorbs every exception.
DistributorStep ==
    \/ ClearMaturityGate \/ StartFunding \/ RunFundingCycle
    \/ LoadProgress \/ LoadUnreadable \/ DiscoverMiners
    \/ CollectRecipients \/ CompleteEarly \/ RegistryUnreadable
    \/ SelectMiner \/ LookUpAddresses
    \/ TransferSucceeds \/ TransferRefused \/ TransferErrs \/ TransferAnswerLost
    \/ RecordTransaction \/ RecordRaises
    \/ SettleBatch \/ SettleUnsaved \/ FailOver \/ PauseFunding
    \/ FinalizeFunding \/ WriteRaises

Next ==
    \/ DistributorStep
    \/ \E m \in Miners : MinerRegisters(m)
    \/ CrashAndRestart

Spec == Init /\ [][Next]_vars

\* The run loop keeps running, the maturity gate opens after max_wait_time at
\* the latest, and every mining agent reaches the end of its setup.
FairSpec ==
    /\ Spec
    /\ WF_vars(DistributorStep)
    /\ \A m \in Miners : WF_vars(MinerRegisters(m))

-----------------------------------------------------------------------------
(* Properties *)

PcValues == {"sleep", "load", "discover", "collect", "select", "lookup",
             "transfer", "record", "settle", "failed", "finalize"}

\* A batch is at hand.
BatchPcs == {"lookup", "transfer", "record", "settle", "failed"}

JobType == [todo : SUBSET Recipients, batch : SUBSET Recipients,
            bad : SUBSET Recipients, miner : Miners \cup {NoMiner},
            exhausted : SUBSET Miners, failover : BOOLEAN,
            attempt : 0..MaxRetries,
            funded : SUBSET Recipients, failed : SUBSET Recipients]

StatusType == [funded : SUBSET Recipients, failed : SUBSET Recipients,
               perm : SUBSET Recipients, completed : BOOLEAN]

\* Every variable, MD's locals and the status file included, has its type.
TypeOK ==
    /\ pc \in PcValues
    /\ job \in JobType
    /\ pc \in BatchPcs => job.miner \in Miners
    /\ status \in StatusType
    /\ perm \subseteq Recipients
    /\ count \in [Recipients -> Nat]
    /\ waiting \in BOOLEAN
    /\ done \in BOOLEAN
    /\ miners \subseteq Miners
    /\ addressed \subseteq Miners
    /\ paid \in [Recipients -> Nat]
    /\ recorded \in [Recipients -> Nat]
    /\ lost \in [Recipients -> Nat]
    /\ missed \in [Recipients -> Nat]
    /\ faults \in Nat

\* No recipient is paid more often than once plus the number of times MD lost
\* the trace of a payment to it: retries, fail-overs, pauses and restarts
\* never pay twice by themselves (_send_batch_transaction, _retry_failed_batch,
\* _load_funding_progress).
PaidOncePerLostTrace == \A r \in Recipients : paid[r] <= 1 + lost[r]

\* Whoever the status file calls funded has a transfer on chain and an entry
\* in transactions.json, and the log never claims more than the chain has.
FundedIsBacked ==
    /\ \A r \in status.funded : recorded[r] >= 1
    /\ \A r \in Recipients : recorded[r] <= paid[r]

\* As long as the status file can be read, completed = True is written only when
\* every eligible recipient is funded or given up, although
\* _finalize_funding_status only compares two sums.
CompletedCoversAll ==
    status.completed => Recipients \subseteq status.funded \cup status.perm

\* A recipient is given up only after Threshold failed lookups of its own
\* address: failures on the miner's side never count against it
\* (_record_recipient_failure, the regression its comment describes).
GiveUpIsEarned == \A r \in perm \cup status.perm : missed[r] >= Threshold

\* As long as the status file can be read, nobody is both funded and given up,
\* in memory or in the file: the sum in _finalize_funding_status counts no
\* recipient twice.
FundedOrGivenUp ==
    /\ status.funded \cap status.perm = {}
    /\ job.funded \cap perm = {}

\* As long as the status file can be read, its contents behave like the
\* abstract ledger: a funded or given-up recipient stays so across iterations,
\* pauses and restarts, and the file is completed once, when nobody is open.
Ledger == INSTANCE FundingLedger WITH
    outcome <- [r \in Recipients |->
                  IF r \in status.funded THEN "funded"
                  ELSE IF r \in status.perm THEN "givenup" ELSE "open"],
    closed <- status.completed

ImplementsLedger == Ledger!Spec

\* Once completed is in the file nothing more is sent for initial funding,
\* whatever restarts follow.
CompletionStopsPayments == [][status.completed => paid' = paid]_vars

\* Every behaviour with a bounded number of deviations ends initial funding.
FundingCompletes == <>[](status.completed)

=============================================================================
