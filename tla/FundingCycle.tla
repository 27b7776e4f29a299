---------------------------- MODULE FundingCycle ----------------------------
(***************************************************************************)
(* The continuous funding cycle of the miner distributor (MD), which       *)
(* follows initial funding: every md_funding_cycle_interval it cuts the    *)
(* next batch out of the sorted funded recipients and looks for a miner    *)
(* that can pay it (agents/miner_distributor/agent.py, _run_funding_cycle; *)
(* funding.py, fit_batch_to_unlocked_balance).                             *)
(*                                                                         *)
(* Recipients are named by their position in the sorted list, 0..N-1.      *)
(* What a recipient gets from one destination group (md_out_per_tx         *)
(* outputs) is one share.  A miner's unlocked balance matters only through *)
(* max_fit, the number of shares it covers.                                *)
(***************************************************************************)
EXTENDS Integers, FiniteSets

CONSTANTS
    N,           \* number of funded recipients in the status file
    Miners,      \* the agents of miners.json
    NoMiner,     \* no miner selected yet
    BatchSize,   \* md_n_recipients
    MaxRetries,  \* max_retries of one batch transaction
    Fits,        \* how many of a batch a miner can pay in the normal course
    Faults,      \* the kinds of deviation the environment may inject
    MaxFaults    \* bound: how many deviations one behaviour has

Recipients == 0..N-1

FaultKinds == {"balance", "lookup", "refused", "error", "lost", "record",
               "read", "absent", "crash"}

ASSUME NAssumption == N \in Nat \ {0}
ASSUME MinersAssumption == Miners # {} /\ IsFiniteSet(Miners) /\ NoMiner \notin Miners
ASSUME BatchSizeAssumption == BatchSize \in Nat \ {0}
ASSUME MaxRetriesAssumption == MaxRetries \in Nat \ {0}
ASSUME FitsAssumption == Fits # {} /\ Fits \subseteq 0..BatchSize
ASSUME FaultsAssumption == Faults \subseteq FaultKinds
ASSUME MaxFaultsAssumption == MaxFaults \in Nat

VARIABLES
    pc,         \* where _run_funding_cycle is
    index,      \* self._funding_cycle_index
    batch,      \* batch_agents, positions in sorted order
    fit,        \* how many of batch the selected miner can pay (sized_batch)
    bad,        \* recipients of the batch whose address lookup failed
    miners,     \* self.miners with an address, as discovered this iteration
    miner,      \* selected_miner
    exhausted,  \* exhausted_miners
    attempts,   \* fail-over attempts of this cycle
    attempt,    \* attempts of this transaction
    got,        \* history: shares on chain per recipient, this cycle
    logged,     \* history: shares in transactions.json per recipient, this cycle
    lost,       \* history: transfers of this cycle whose trace MD lost
    age,        \* history: batches cut since the recipient was in one
    faults      \* deviations spent so far

locals == <<batch, fit, bad, miner, exhausted, attempts, attempt>>
chain == <<got, logged, lost>>
vars == <<pc, index, locals, miners, chain, age, faults>>

Nothing == [r \in Recipients |-> 0]

Init ==
    /\ pc = "wait"
    /\ index = 0
    /\ batch = <<>> /\ fit = 0 /\ bad = {}
    /\ miners = {} /\ miner = NoMiner /\ exhausted = {}
    /\ attempts = 0 /\ attempt = 0
    /\ got = Nothing /\ logged = Nothing /\ lost = 0
    /\ age = Nothing
    /\ faults = 0

-----------------------------------------------------------------------------

\* The environment deviates in the way named kind.
Fault(kind) ==
    /\ kind \in Faults
    /\ faults < MaxFaults
    /\ faults' = faults + 1

NoFault == UNCHANGED faults

\* The recipients the transaction pays, ...
Paid == {batch[i] : i \in 1..fit} \ bad

\* ... and how many times r stands among its destinations.
Shares(r) ==
    IF r \in bad THEN 0 ELSE Cardinality({i \in 1..fit : batch[i] = r})

\* The batch of the cycle, wrapping around the sorted list.
BatchFrom(start) == [i \in 1..BatchSize |-> (start + i - 1) % N]

\* Bug: a last batch that is not full is left out, ...
BugDroppingIndex(start) ==
    IF start + 2 * BatchSize > N THEN 0 ELSE start + BatchSize

NextIndex(start) == (start + BatchSize) % N

\* Bug: the last miner is never tried.
BugMaxAttempts == IF miners = {} THEN 1 ELSE Cardinality(miners) - 1

\* max_failover_attempts
MaxAttempts == IF miners = {} THEN 1 ELSE Cardinality(miners)

\* Bug: the exhausted miners are remembered from cycle to cycle.
BugEndCycle ==
    /\ pc' = "wait"
    /\ batch' = <<>> /\ fit' = 0 /\ bad' = {}
    /\ miner' = NoMiner /\ UNCHANGED exhausted
    /\ attempts' = 0 /\ attempt' = 0

\* The cycle returns (or raises) to the run loop.
EndCycle ==
    /\ pc' = "wait"
    /\ batch' = <<>> /\ fit' = 0 /\ bad' = {}
    /\ miner' = NoMiner /\ exhausted' = {}
    /\ attempts' = 0 /\ attempt' = 0

-----------------------------------------------------------------------------

\* The interval is over: discover the miners, cut the batch, move the index
\* on, whatever becomes of the batch.
StartCycle ==
    /\ pc = "wait"
    /\ \/ NoFault /\ miners' = Miners
       \/ Fault("absent") /\ miners' \in SUBSET Miners
    /\ batch' = BatchFrom(index)
    /\ index' = NextIndex(index)
    /\ age' = [r \in Recipients |->
                 IF \E i \in 1..BatchSize : batch'[i] = r
                 THEN 0 ELSE age[r] + 1]
    /\ got' = Nothing /\ logged' = Nothing /\ lost' = 0
    /\ pc' = "pick"
    /\ UNCHANGED <<fit, bad, miner, exhausted, attempts, attempt>>

\* The status file or the registry cannot be read: no cycle this time.
NothingToCycle ==
    /\ pc = "wait"
    /\ Fault("read")
    /\ UNCHANGED <<pc, index, locals, miners, chain, age>>

\* The head of the fail-over loop, _select_miner_excluding, and the batch cut
\* down to what the miner can pay.  An unreadable balance leaves it whole.
PickMiner ==
    /\ pc = "pick"
    /\ attempts < MaxAttempts
    /\ attempts' = attempts + 1
    /\ \E m \in miners \ exhausted, k \in 0..BatchSize :
          /\ IF k \in Fits THEN NoFault ELSE Fault("balance")
          /\ IF k = 0
             THEN /\ exhausted' = exhausted \cup {m}
                  /\ UNCHANGED <<pc, fit, miner, attempt>>
             ELSE /\ fit' = k
                  /\ miner' = m
                  /\ attempt' = 1
                  /\ pc' = "lookup"
                  /\ UNCHANGED exhausted
    /\ UNCHANGED <<index, batch, bad, miners, chain, age>>

\* No miner left, or every attempt used up: the batch is dropped.
GiveUpCycle ==
    /\ pc = "pick"
    /\ attempts >= MaxAttempts \/ miners \subseteq exhausted
    /\ EndCycle
    /\ UNCHANGED <<index, miners, chain, age, faults>>

\* The selected miner failed: try another one.
NextMiner ==
    /\ exhausted' = exhausted \cup {miner}
    /\ miner' = NoMiner
    /\ fit' = 0 /\ bad' = {}
    /\ attempt' = 0
    /\ pc' = "pick"

\* The recipients' addresses: who cannot be reached is left out, and a batch
\* of nobody is a failed one.
LookUpAddresses ==
    /\ pc = "lookup"
    /\ \E unreached \in SUBSET {batch[i] : i \in 1..fit} :
          /\ IF unreached = {} THEN NoFault ELSE Fault("lookup")
          /\ IF \A i \in 1..fit : batch[i] \in unreached
             THEN NextMiner
             ELSE /\ bad' = unreached
                  /\ pc' = "send"
                  /\ UNCHANGED <<fit, miner, exhausted, attempt>>
    /\ UNCHANGED <<index, batch, miners, attempts, chain, age>>

\* transfer_split pays every destination of the transaction.
Broadcast == got' = [r \in Recipients |-> got[r] + Shares(r)]

TransferSucceeds ==
    /\ pc = "send"
    /\ Broadcast
    /\ pc' = "record"
    /\ UNCHANGED <<index, locals, miners, logged, lost, age, faults>>

\* Not enough (unlocked) money: this miner is out for the cycle.
TransferRefused ==
    /\ pc = "send"
    /\ Fault("refused")
    /\ NextMiner
    /\ UNCHANGED <<index, batch, miners, attempts, chain, age>>

\* The except clause of the attempt loop.
RetryAttempt ==
    IF attempt < MaxRetries
    THEN /\ attempt' = attempt + 1
         /\ pc' = "send"
         /\ UNCHANGED <<fit, bad, miner, exhausted>>
    ELSE NextMiner

TransferErrs ==
    /\ pc = "send"
    /\ Fault("error")
    /\ RetryAttempt
    /\ UNCHANGED <<index, batch, miners, attempts, chain, age>>

\* The wallet broadcasts the transfer but its answer is lost.
TransferAnswerLost ==
    /\ pc = "send"
    /\ Fault("lost")
    /\ Broadcast
    /\ lost' = lost + 1
    /\ RetryAttempt
    /\ UNCHANGED <<index, batch, miners, attempts, logged, age>>

\* Bug: a paid cycle goes on to the next miner.
BugAfterRecord ==
    NextMiner /\ UNCHANGED <<batch, attempts>>

\* The cycle is over once one transaction went through.
AfterRecord == EndCycle

\* Bug: only the first recipient of the batch is recorded.
BugRecordedIds == {batch[1]}

\* recipients_meta: each recipient of the transaction once.
RecordedIds == Paid

\* _record_transaction appends one entry for the whole batch.
RecordTransaction ==
    /\ pc = "record"
    /\ logged' = [r \in Recipients |->
                    IF r \in RecordedIds THEN logged[r] + 1 ELSE logged[r]]
    /\ AfterRecord
    /\ UNCHANGED <<index, miners, got, lost, age, faults>>

\* The append raises after the broadcast, inside the attempt loop's try.
RecordRaises ==
    /\ pc = "record"
    /\ Fault("record")
    /\ lost' = lost + 1
    /\ RetryAttempt
    /\ UNCHANGED <<index, batch, miners, attempts, got, logged, age>>

\* MD is killed and started again; initial funding is found completed.
CrashAndRestart ==
    /\ Fault("crash")
    /\ EndCycle
    /\ index' = 0
    /\ miners' = {}
    /\ age' = Nothing
    /\ lost' = IF pc = "record" THEN lost + 1 ELSE lost
    /\ UNCHANGED <<got, logged>>

Cycle ==
    \/ StartCycle \/ NothingToCycle \/ PickMiner \/ GiveUpCycle
    \/ LookUpAddresses \/ TransferSucceeds \/ TransferRefused \/ TransferErrs
    \/ TransferAnswerLost \/ RecordTransaction \/ RecordRaises

Next == Cycle \/ CrashAndRestart

Spec == Init /\ [][Next]_vars

\* The run loop never stops; an exception ends one iteration only.
FairSpec == Spec /\ WF_vars(Cycle)

-----------------------------------------------------------------------------
(* Properties *)

\* Every variable has its type, and a miner is selected while one is needed.
TypeOK ==
    /\ pc \in {"wait", "pick", "lookup", "send", "record"}
    /\ index \in Recipients
    /\ batch \in IF pc = "wait" THEN {<<>>} ELSE [1..BatchSize -> Recipients]
    /\ fit \in 0..BatchSize
    /\ bad \subseteq Recipients
    /\ miners \subseteq Miners
    /\ exhausted \subseteq miners
    /\ pc = "wait" => exhausted = {}
    /\ IF pc \in {"lookup", "send", "record"}
       THEN miner \in miners \ exhausted ELSE miner = NoMiner
    /\ attempts \in Nat
    /\ attempt \in 0..MaxRetries
    /\ got \in [Recipients -> Nat] /\ logged \in [Recipients -> Nat]
    /\ lost \in Nat
    /\ age \in [Recipients -> Nat]
    /\ faults \in Nat

\* A cycle gives a recipient one share at most, and one more for every
\* transfer MD lost the trace of: fail-over and the wrapped batch add nothing
\* (md_out_per_tx: how many outputs each recipient gets per transaction).
OneShareEach == \A r \in Recipients : got[r] <= 1 + lost

\* transactions.json never says less than the chain has, but for the
\* transfers whose trace was lost and the one about to be recorded.
LoggedAsSent ==
    \A r \in Recipients :
       got[r] <= logged[r] + lost + IF pc = "record" THEN 1 ELSE 0

\* Nobody is passed over when the batches are cut: within one turn of the
\* index every recipient has been in a batch (the wrap-around and the index).
NobodySkipped == \A r \in Recipients : age[r] * BatchSize < N

\* A cycle is given up only when every discovered miner was tried, the reason
\* its fail-over loop gives for not wasting the cycle.
GivesUpAfterAll ==
    [][(pc = "pick" /\ pc' = "wait" /\ index' = index /\ faults' = faults)
          => exhausted = miners]_vars

\* Every funded recipient is paid again and again ("ensures users always have
\* funds to transact with"), once the deviations have stopped.
EveryUserServed ==
    \A r \in Recipients :
       []<>(pc = "record" /\ r \in Paid)

=============================================================================
