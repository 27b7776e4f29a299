# TLA+ models of zano-shadow-sim

zano-shadow-sim prepares and runs simulations of a cryptonote network inside
the Shadow simulator. A Rust program (`src/src/`) turns one YAML file into a
Shadow configuration; Python agents (`src/agents/`) then run inside the
simulation as ordinary processes, drive `monerod`/`monero-wallet-rpc` over
JSON-RPC, and co-operate through JSON files in one shared directory. The
protocol between the agents is where the program can go wrong in ways a test
hardly reaches, so the models start there; the tools that prepare a simulation
and judge it (`scripts/`) follow.

## 1. Inventory

| part | state it keeps | operations | talks to |
|---|---|---|---|
| `agents/base_agent.py` | `running`, RPC handles, its entry in `agent_registry.json` | setup, run loop, cleanup, wallet recovery, `write_shared_state`, `read_shared_state`, `append_shared_list`, `_register_self` | every other agent, through files; wallet and daemon through RPC |
| `agents/miner_distributor` | miners with addresses, retry counters, give-up set, funding-cycle index; `initial_funding_status.json`, `transactions.json` | initial funding (discover, collect, batch, send, fail over, finalize), continuous funding cycle | registries written by the orchestrator, `{id}_miner_info.json` of the miners, the miners' wallets |
| `agents/regular_user.py` | wallet handle, activity start, error streak | open or create the wallet, announce the address, wait, sync, send, recover | its wallet-rpc, `transactions.json`, registry |
| `agents/autonomous_miner.py` | difficulty cache, hash-rate share | replay of the difficulty series, sampled waiting times, block generation | its daemon |
| `agents/monero_rpc.py` | detected methods | calls with retry, method detection, create/open wallet fallback | daemon, wallet-rpc |
| `agents/agent_discovery.py`, `agents/public_node_discovery.py` | caches with a TTL | registry reads, daemon selection, status update | registry files |
| `agents/simulation_monitor` | log positions, seen blocks and transactions | log parsing, block scan, final report | daemon logs, `transactions.json`, daemons |
| `agents/dns_server.py` | none | answers a DNS query | daemons |
| `src/orchestrator.rs` | none at run time | builds the registries, the Shadow hosts and start times | all generated files |
| `src/ip`, `src/topology` | allocated addresses, counters | address assignment, subnet groups, peer lists | orchestrator |
| `src/agent`, `src/process`, `src/config`, `src/shadow`, `src/utils` | none | phases, turnover schedule, command lines, validation | orchestrator |
| `scripts/generate_config.py`, `config_generation`, `calibrate.py` | `calibration.json`, shared by generators | a timeline of phases, waves and upgrades from a few options | the machine's calibration |
| `scripts/scenario_parser.py` | the expansion so far | groups to agents, staggers, timing, fields left at `auto` | generators |
| `scripts/ai_config` | scenarios tried, reports about them | ask a language model, judge, feed back, save a pair of files | a model, a user, the validator |
| `scripts/smoke_test.sh`, `smoke_assertions.py`, `append_run_history.py` | archive of a run, history of verdicts | summary, assertions, a row PASS or FAIL | the monitor's report, logs |
| `scripts/run_sim_helpers.py` | histogram of block intervals in a state file | one board per call | a daemon's log |
| `scripts/monero_verification.py` | none | checks made of repeated RPCs | daemon, wallet-rpc |
| `src/gml_parser.rs`, analysis, patches, attic | none | offline work | nothing at run time |

How the agents interact. The orchestrator writes `agent_registry.json`,
`miners.json` and `public_nodes.json` before anything starts. Each agent is one
sequential process that runs `run_iteration` in a loop; exceptions end the
iteration, never the loop. Writers of a shared file take an flock, write a
temporary file and rename it; readers take no lock and treat a file they cannot
read as absent. The miner distributor (MD) reads addresses published by other
agents, sends transfers from *their* wallets and records them in files the
monitor reads.

What is hard here:

* **initial funding** spans many iterations, its progress is split between
  locals, fields of `self` and a file, each of which can be lost on its own;
* a transfer is not idempotent, and a time-out does not say whether it happened;
* "whose fault was it" decides between failing over to another miner and giving
  up a recipient;
* the **funding cycle** advances its index whether or not anything was sent;
* **shared files** are read without a lock, and one host may run two processes
  with the same agent id;
* **wallet-rpc phases** kill and restart a wallet under a running user agent;
* the **difficulty replay** caches what a reorganisation can invalidate, and may
  be interrupted between any two of its RPCs;
* the **monitor** reads logs that grow while they are read, and asks daemons that
  come and go about a chain that grows between two questions;
* **two processes of one agent** register in one file;
* **files of the tools** outlive a run: a report, an archive, a histogram or a
  calibration may be torn, or belong to an earlier run;
* **derived times**: a phase that is computed from another can overtake it;
* fixed-width counters and fallbacks in the **address registry**.

What makes each component correct:

* MD, initial funding: no double payment that MD could have avoided; every claim
  in the file backed by the chain; completion covers everybody; nobody given up
  for a miner's fault; the file only ever moves forward; funding ends.
* MD, funding cycle: a transaction gives each recipient its outputs once; every
  funded user is served again and again.
* base agent: a reader sees a whole version; appends by different processes are
  all kept; registration keeps what another process registered.
* regular user: its wallet is synced before it is used, and after a wallet
  restart the user sends again.
* autonomous miner: what it replays is the series of its daemon's chain; a
  failure makes no value up; it goes on mining, unless it was told it cannot.
* monitor: a block is credited once, to a daemon that mined that height; the scan
  moves forward and misses no block, and so do the tracking files that are whole.
* registries: readers see whole registries; a registered address stays.
* address registry: no two hosts share an address, groups keep their /24.
* timelines: phases do not overlap, upgrades roll, users begin in turn.
* verdicts: a PASS is about this run and earned by what was last reported of it;
  a verification that succeeds is right, and one that fails has cause to.
* generator: what is saved belongs together, and what is left to be refused at the
  start is known.

The full list of hazards, each at its line, is under `hazards` in
`PROJECT.json`.

## 2. Plan

In the order in which they were written, the most important behaviour first:

1. `MinerDistributor` with its abstract `FundingLedger`; `FundingCycle`.
2. `SharedLog` with its abstract `AppendLog`; `Registries`, which relies on the
   same way of writing files.
3. `UserWallet`; `IpAllocation`.
4. `DaaReplay` and `AutonomousMiner`; `MiningLog` and `SimulationMonitor`.
5. The tools: `SpawnBatches`, `Calibration`, `ConfigTimeline`,
   `UpgradeWizard`, `ScenarioExpansion`, `RunReport`, `BlockHistogram`, `HardForkChecks`,
   `ConfigGeneration`, `RpcVerification`, composed by `MCTools`.
6. Proofs in `*Proofs`, for fifteen of the modules.

What would come next: the turnover schedule and the region boundaries of the
Rust side against reference definitions; a composition of `MinerDistributor` and
`UserWallet`, transfers from wallets whose wallet-rpc changes phase.

## 3. Modules

Every component is a module; `MC<module>` gives its constants values, and the
`.cfg` files choose among them. An operator named `Bug...` is a plausible bug of
the definition that follows it; no specification uses one. Python processes are
sequential, so each is modelled by a `pc` naming the places where somebody else
can act (a remote call, a file operation, a sleep); what is between two places
is one action. All deviations of the environment are drawn from `Faults` and
counted by `faults`, bounded by `MaxFaults`.

### MinerDistributor, FundingLedger

`agents/miner_distributor/agent.py`, initial funding.

| model | code |
|---|---|
| `pc` | the place in `_perform_initial_funding` and the functions it calls |
| `job` | their locals: recipients to fund, batch, failed look-ups, miner, exhausted miners, attempt; they vanish when the chain returns or raises |
| `status` | `initial_funding_status.json` |
| `perm`, `count`, `waiting`, `done`, `miners` | `_permanently_failed`, `_recipient_retry_counts`, `waiting_for_maturity`, `initial_funding_completed`, `miners` |
| `paid`, `recorded`, `lost`, `missed` | history: the chain, `transactions.json`, payments whose trace MD lost, failed look-ups |
| `ClearMaturityGate`, `StartFunding`, `RunFundingCycle` | `run_iteration` |
| `LoadProgress`, `LoadUnreadable`, `DiscoverMiners`, `CollectRecipients`, `CompleteEarly`, `RegistryUnreadable` | the prologue of `_perform_initial_funding`: `_load_funding_progress`, `_discover_miners`, `_collect_recipients` |
| `SelectMiner`, `LookUpAddresses`, `TransferSucceeds/Refused/Errs/AnswerLost`, `RecordTransaction`, `RecordRaises` | one attempt of `_send_batch_transaction` |
| `SettleBatch`, `SettleUnsaved`, `FailOver`, `PauseFunding` | the book-keeping after a batch, `_retry_failed_batch` |
| `FinalizeFunding`, `WriteRaises`, `CrashAndRestart` | `_finalize_funding_status`, a failing write, a killed process |

`FundingLedger` is what a reader of the file may rely on: a recipient is decided
once, as funded or given up, and the ledger closes once, when everybody is. The
refinement reads it off `status`.

Abstractions: recipients are their positions in the registry; amounts are left
out; lists without duplicates are sets; the unbounded recursion of
`_fund_miners_first` is a jump back to the load; a response without a
transaction hash is a refused transfer; the pause for want of any miner is left
out where no state reaches it.

### FundingCycle

`_run_funding_cycle` with `fit_batch_to_unlocked_balance`. `index`, `batch`,
`miners`, `exhausted`, `attempts`, `attempt` are the variables of that name;
`fit` is the length of the trimmed batch, the only thing a balance decides;
`got`, `logged`, `lost`, `age` are history. The cycle starts with the funded
recipients initial funding left, so it is a module of its own.

### SharedLog, AppendLog

`append_shared_list`, `write_shared_state` and `read_shared_state` of
`base_agent.py` over a small file system: names refer to inodes, opening with
`'w'` truncates, a rename moves an inode under the other name in one step, a
reader keeps the inode it opened, a flock goes with its process. Writers go
through `idle, wait, read, open, dump, rename, unlock`; errors and kills may
come at each. `AppendLog` is the promise: the list changes by one new entry at
a time. `AcquireLock` and `Release` are the `fcntl` calls. `AppendsSettled`
says of a call that has returned that its entry is there, once, and of one that
raised that nothing is.

### Registries

`_register_self` of `base_agent.py`, `agents/public_node_discovery.py`,
`agents/agent_discovery.py`, the search of `autonomous_miner.py` for its address
and the seeds of `dns_server.py`. A process is a pair of a role and an agent: a
miner's host runs a wallet process and a mining process under one id. `place` is
where a process is in its set-up, `file` and `beside` the two registries and
their temporary files, `holder` the lock, `memory` what a process has read and
changed. The file system is that of `SharedLog`, one step coarser: what a
temporary file holds matters only when it is renamed.

### UserWallet

`regular_user.py` with `setup`, `run` and `_recover_wallet_connection` of
`base_agent.py`, against the wallet-rpc of its host, whose phases come from
`process_user_agents` in `user_agents.rs`. Each RPC is a step, so a phase may
end between any two of them. `address, named, waiting, synced, errors` are the
agent's fields, `phase, proc, open, keys, fresh` the state of the wallet-rpc.

Abstractions: time is left out, so what may be due may happen; error counts
saturate at two, the code tells no more apart; `set_daemon` and `refresh` are
one step, the wallets of phases all use the daemon of their host; the path
without transaction parameters is left out, a wallet that was never announced
has no funds. The last phase does not deadlock: `restart_wallet_rpc` has no
caller, so nothing would bring it back. Miners appear in `SyncedFirst` only:
their loop logs the error of a restarted wallet-rpc and never reopens the wallet
(`regular_user.py:240`).

### IpAllocation

`src/ip`, `agent/fallback_seeds.rs` and the order of the stages in
`generate_agent_shadow_config`. `assigned`, `ipOf`, `groups`, `nextId` and
`counters` are the fields of `GlobalIpRegistry` and `AsSubnetManager`, `answer`
what each agent has been told. `Source(a, k)` is the k-th thing `get_agent_ip`
tries and is computed as the code does, with its tables and moduli. The order
within a stage is that of the agents' names in the code and free in the model.

### DaaReplay, AutonomousMiner

`DaaReplay` is `_get_daa_multiplier` of `autonomous_miner.py`: `query` is the RPC
the miner is at, `stamps` and `series` are its caches, `last` the height it has
replayed to. `chain` belongs to the daemon and is extended or popped between any
two RPCs; `SeriesOf(chain)` is the reference definition, computed from the whole
chain at once. `stale` marks that a block was replaced behind a cached stamp by a
chain at least as long, which the code cannot see (`autonomous_miner.py:313-314`);
the multipliers are in units of `1/One`. `AutonomousMiner` is the process around
it: the wait for the daemon and the address, the drawn wait slept in slices and
rescaled when the multiplier moves, `ensure_mining` with its detection of mining
methods (`monero_rpc.py`), errors and a stop. An answer may have another shape
than an answer has: a probe that meets one notes the method as missing
(`misread` remembers that), a mining call raises (`AnswerMisread`).

### MiningLog, SimulationMonitor

`MiningLog` is `parse_mining_events`: markers, their context of `Back` and
`Ahead` lines, the heights found there. `SimulationMonitor` is a cycle of the
monitor: `discover, size, read, poll, scan, save`. The size of a log is taken
before the log is read and both are steps, so lines written in between are read
twice; `credit`, `total`, `scanned`, `found` are the fields of the monitor,
`saved` is `transaction_tracking.json`, opened for writing and dumped in place, so
that a save that fails or is killed leaves nothing a reader can use
(`Unreadable`). A monitor that is killed and run again (`Restart`) reads nothing
back: it begins where the first began, at height 0, and so does its next
file. A daemon mines, receives blocks, writes its lines one by one and may stop
answering.

### The tools

Each is a module; `MCTools` puts one of them to work in each behaviour.

| module | code | what is kept |
|---|---|---|
| `SpawnBatches` | `calculate_batch_sizes`, `calculate_batched_schedule` | waves whose size doubles up to a limit |
| `Calibration` | `calibrate.py` | interval, stagger and polling time that a measured cost allows |
| `ConfigTimeline` | `generate_config.py`, `config_generation` | options to times, host by host, with the calibration file that another generator may be writing (`RunCalibration`) |
| `UpgradeWizard` | `configure_upgrade.py`, `generate_upgrade_config` | the answers, the timeline shown to the user, and the configuration then generated from the same answers |
| `ScenarioExpansion` | `scenario_parser.py` | groups one after the other, the waterfall of upgrade offsets that goes on from group to group, timing, `auto` |
| `RunReport` | the monitor's report, `run_sim_helpers.py`, `smoke_assertions.py`, `append_run_history.py`, `smoke_test.sh` | from what the monitor sees to the verdict; what is stored in memory and what is written of it are two steps, between and within which the monitor may be killed or a write fail; archives of earlier runs |
| `BlockHistogram` | `cmd_block_rate` | a histogram kept across calls from tails of a log that replays heights; a call reads a tail, counts block by block and saves, while the daemon goes on |
| `HardForkChecks` | `validator.py`, `user_agents.rs`, `fallback_seeds.rs` | two sets of checks that should agree, each with its own notion of a schedule that is set and of the seeds there are |
| `ConfigGeneration` | `ai_config/generator.py`, `interactive.py`, `__main__.py` | attempts, feedback, edits, the two files saved one after the other |
| `RpcVerification` | `monero_verification.py` | checks as sequences of calls, each repeated until answered; answers may be lost after the effect, be errors of a wording nobody looks for, or lack the hash |

## 4. Runs

| run | question | bounds |
|---|---|---|
| `md_safety` | Are payments, log, file and give-ups consistent under every kind of deviation? | 3 recipients in batches of 2 (a full and a partial batch), 2 miners (one fail-over), 2 attempts, give-up after 2 look-ups, 4 deviations |
| `md_ledger` | Does a readable status file implement `FundingLedger`, cover everybody, never say two things of one recipient, and does funding end? | the same, without unreadable files |
| `md_broken_wallet` | does funding end when one wallet never answers? (no) | 2 recipients |
| `cycle_safety` | One share per cycle, nobody skipped, everybody served? | 5 recipients in batches of 2, so that batches wrap; 2 miners, 3 attempts, 4 deviations |
| `cycle_starved` | is everybody served when miners can pay a part of a batch? (no) | 4 recipients |
| `log_safety` | Do lock, temporary file and rename make appends atomic for unlocked readers? | 2 writers with 2 appends, 1 reader, 3 inodes, 2 errors or kills |
| `wallet_phases` | Is the wallet synced before it is used, and does a synced user always come back, whatever phases end when? | 3 phases, 3 deviations, both roles |
| `wallet_waiting` | ... and one that waits for its activity? (no) | 2 phases, no deviation |
| `ip_mixed` | Are addresses unique and stable, and groups apart, when every source runs out? | 13 agents, 2 host numbers per /24, u8 width of the group id kept |
| `miner_pacing` | Is a replay the series of the chain, and does the miner mine on while it believes that it can? | chains up to block 6, gaps of 0 and 3, window 1, one block popped, 1 deviation, daemons with one mining method or the other |
| `monitor_cycle` | Are blocks credited once and to those who mined them, and does the scan catch up? | 2 daemons, one that logs a block in one line and one that logs it through RPC lines, chain up to block 3, 1 deviation |
| `tools_offline` | Do the tools keep their promises? | 188 sets of options around the batching threshold, 11 answers to the wizard with 3 to 1000 nodes, about 1,000 scenarios, 3 agents with 4 processes, 2 nodes and 3 cycles with a history of 2 of which one alert is allowed, 6 log lines, 2 attempts at 3 scenarios, 3 lost calls |

Why these bounds are enough to be interesting: four deviations allow a lost
transfer, a failed write, a crash and one more; two look-ups of one recipient
and one crash are what a forgotten give-up needs; three inodes are all the
protocol can name at one time with one reader; three phases make a second
restart follow a recovery; in `ip_mixed` every action, the failure with nothing
left included, is taken; six blocks with a window of one let the replay prune,
be interrupted and meet a reorganisation below what it cached; 49, 50 and 53
users lie on both sides of the batching threshold and of a wave's end. What
matters most is proved for all values (below).

Deadlock is checked except where the system may stop: the address allocation
ends, an agent whose set-up fails for good exits (`UserWallet`,
`AutonomousMiner`), and a tool is done when its files are
written.

### What the violation runs show

* `md_broken_wallet`: a last batch that holds only unreachable wallets counts as
  a miner-side failure, so the give-up counter never moves and initial funding
  never ends, against the comment at `miner_distributor/agent.py:83-87`.
* `cycle_starved`: the index moves by the whole batch although only its head
  could be paid; the same users stay without funds.
* `wallet_waiting`: a phase that ends while the user waits for its activity
  start leaves a wallet that nobody opens: the first sync fails for ever.

### Smaller observations

Made while reading and with the models, without a run of their own.

Initial funding and the cycle: after a failed write of the status file a
recipient may stand in it as transiently and as permanently failed; an
unreadable status file together with a failed write can make somebody funded in
the file and given up in memory, which is why `md_ledger` and the theorems about
the file assume that it can be read; `_fund_miners_first` calls
`_perform_initial_funding` again without a bound (`agent.py:757`); with fewer
recipients than `md_n_recipients` a batch of the cycle wraps onto itself
(`agent.py:895`), which `OneShare` excludes.

Remote daemons: `_setup_remote_daemon_connection` builds a `PublicNodeDiscovery`
for the one selection it makes (`base_agent.py:514`), so the index of its
rotation is always 0 and every agent with `round_robin` chooses the first node,
although `config/types.rs:457` speaks of going round; the test of the rotation
selects seven times with one object.

The wizard: it takes the bootstrap to end after four hours; with 1000 nodes,
which it allows, ten waves of users end so late that the generator puts it at
14,874 s, and funding, activity and upgrade begin 474 s later than the head of
the file says. `HeaderKeepsTime` says when that happens and that nothing else
goes apart.

Addresses: with 257 subnet groups `next_subnet_group_id` wraps and two groups
share a /24, and the subnet base of AS 3200, and of every 12800th after it, is
100.64, that of the groups (`get_subnet_base`), so that an agent of such an AS
can be in a group's /24 (`RoomForGroups` excludes both); the numbers of the
miner distributor (50) and of the monitor (51) lie in the users' range of
`assign_ip`, so `user-050` takes the distributor's address and the distributor
gets the second one.

Agents: `restart_wallet_rpc` has no caller (`base_agent.py:326`); a transfer whose
answer is lost is on chain but not recorded (`regular_user.py:380`);
`public_nodes.json` lists daemons as available before they have started; a
miner's process dies if its address takes longer than five minutes. A probe of a
mining method that is answered with something that is no answer notes the method
as missing (`monero_rpc.py:129-132`); what is noted is asked for only once
(`:330`, `:346`), so that a daemon whose `generateblocks` was misread is
never mined with again, which is the exception `MinesOn` makes.

Monitor: a block whose lines are split over two reads is not credited, which is
why `OneLineBlocksCounted` speaks of blocks announced in one line; of two daemons
that log one height the first in file order gets the credit; block 1 is never
scanned; a reference daemon that is down is not replaced (`agent.py:877`);
alerts are forgotten with the trimmed history. `transaction_tracking.json` is
rewritten in place (`agent.py:1014`): a save that fails or is killed loses it, and
the file of a monitor that was restarted starts again from nothing; what
`SavedMovesForward` says is of one run of it and of whole files. The report
is rewritten in place as well, and what fails before that is only
logged (`agent.py:1334`), so that a report of an earlier cycle can stand and PASS
although more alerts than the baseline allows were stored since: `PassIsEarned`
speaks of what was stored when the report was written, and says when that is not
all. A report without some lines
passes the corresponding maxima, and a smoke run without `summary.txt` adds no
row although `smoke_test.sh:106` says one per run. A killed write of the
histogram's state resets it.

Timelines: a partial `calibration.json` makes every later generator fail; a
calibration that finishes between two reads gives a stagger larger than the
interval; users outside batches ignore `--user-spawn-start`; the last user's
activity can begin after the end of a run on few cores; explicit times may
overtake derived ones, which `PhasesInOrder` leaves out. In scenarios a random
stagger ignores its base (`docs/SCENARIO_FORMAT.md:128` says offset), groups of
one agent do not take part in the waterfall, the bootstrap ends after four hours
whatever the waves take, an automatic interval overwrites explicit ones, and a
group with explicit activity and an automatic interval raises.

Generator and checks: after a failed direct generation the saved scenario can be
of a later attempt than the configuration; the validator does not look into raw
daemon arguments, which the preflight does, although `validator.py:403` says it
mirrors it. Nor are the two alike where a schedule is empty or false: the validator
takes it for none (`validator.py:406-413`), the preflight for one
(`user_agents.rs:551`, `:747`), so that stock daemons with one pass the first and
are refused by the second; and the validator wants `monero-seed-001` to `006`
declared (`validator.py:439`), while a stock seed is injected for every free address
in Monero's source (`fallback_seeds.rs:64-125`). `SavedConfigStarts` makes
these three exceptions. `_call_rpc_with_retry` knows only one error of
a wallet that exists, code -1 with "already exists" in lower case
(`monero_verification.py:237-238`); with any other, one lost answer makes
`verify_wallet_created` fail. A transfer that is answered without a hash has been
made and is reported as failed (`:557-561`). `verify_network_sync` takes equal heights for in sync even when the
top blocks differ (`monero_verification.py:622`); a transfer or a generation of
blocks whose answer is lost is made again.

### Fairness

* `MinerDistributor`: weak fairness of MD's steps (the run loop absorbs
  exceptions and the maturity gate opens after `max_wait_time`) and of each
  miner's registration (a mining agent's set-up writes its address). Deviations
  are never forced, and bounded.
* `FundingCycle`: weak fairness of the cycle: the loop never stops.
* `SharedLog`: weak fairness of a writer inside a call; strong fairness of
  taking the lock: a blocking flock is granted in the end though others take it
  again and again. Nobody has to start an append or a read.
* `UserWallet`: weak fairness of the agent's loop and of Shadow's schedule of
  phases; strong fairness of the refresh (its interval comes due) and of having
  something to send with a wallet that has caught up (funds arrive, and the
  dice of `_maybe_send_transaction` fall that way from time to time).
* `AutonomousMiner`: weak fairness of the miner's own steps: the process runs
  until it is stopped. Nothing is asked of the daemon or the network; deviations
  are bounded, and `MinesOn` excepts a miner that has misread `generateblocks`.
* `SimulationMonitor`: weak fairness of the monitor's steps. `ScanCatchesUp` has
  its own premise: the reference daemon is up and synchronised in the end.
* `IpAllocation` and the tools have no liveness property.

## 5. Proofs

The modules `*Proofs` hold, for every value of the constants:

* `MinerDistributorProofs`: `TypeCorrect`, `PaymentsAccounted`, `ClaimsBacked`,
  `GiveUpsEarned`, `CompletionCovers`, `OneOutcomeEach`, `LedgerImplemented`,
  `CompletionStops`.
  The inductive invariant says of each place what the locals mean: the batch is
  open and has not been paid without a trace (`BatchInv`, `PayInv`), the funded
  have their entries (`BackedInv`), give-ups follow from counted look-ups
  (`GiveUpInv`), memory and file agree (`LedgerInv`). Without it the properties
  are not inductive: they speak of the file, while what it will say is
  decided in the locals, steps before. `CompletionCovers`, `OneOutcomeEach`, `LedgerImplemented` and `CompletionStops`
  assume that the status file can be read: otherwise it is taken for absent, and an
  overwritten ledger is just what the code does.
* `FundingCycleProofs`: `CycleTypeCorrect`, `NobodyIsSkipped`, `OneShare`,
  `LogKeepsUp`, `GivesUpLast`. `AheadInv` ties each recipient's age to its
  distance from the index, modulo N; `ShareInv` counts shares by place;
  `TriedInv` bounds the attempts by the exhausted miners. `OneShare` and
  `LogKeepsUp` assume at least as many recipients as a batch is long:
  a shorter list makes a batch name a recipient twice.
* `SharedLogProofs`: `ListTypeCorrect`, `UnlockedReadsWhole`, `NoLostUpdate`,
  `AppendLogImplemented`, `ReadsGrow`. The invariant:
  only the holder of the lock is inside; the temporary inode is not the list's
  nor a reader's; what the holder will write is the list and one new entry.
* `UserWalletProofs`: `WalletTypeCorrect`, `SyncComesFirst`. Besides the
  property the invariant needs that only a phase with a successor is ever
  stopped (`StoppedInv`).
* `IpAllocationProofs`: `NobodyShares`, `AnswersAreStable`,
  `GroupsShareTheirNet`. The invariant of the first two: the
  registry gives an address one owner, `agent_to_ip` is its inverse, an answer
  comes from there, and a seed still to be pinned has no address. Nothing is
  assumed of how the sources compute addresses. `GroupsShareTheirNet` cannot do
  without an assumption, `RoomForGroups`: there is an id for every group, and no
  other source of a member's address lies in 100.64.0.0/16. Its invariant `GInv`
  counts the groups that have an entry (`NumberInv`: the next id is their
  number, and each has a smaller one of its own) and says of each member that
  was answered where it is (`Placed`). That the host number a group gives is free
  is the least of a set of numbers, `LowestIsMember`.
* `AutonomousMinerProofs`: `ReplayAnswersSeries`, `FailureAnswersHeld`, for any
  window, chain, failures and bounds. The invariant `ReplayInv` ties three things
  together. What the multiplier at a height was made of, the two stamps and the
  multipliers of the window before it (`Computed`), is in the caches for the last
  height of the last replay (`SettledInv`, which pruning and an interrupted replay
  leave alone: the first height they write again gets the same value) and for the
  height the loop has just passed (`LoopInv`). A multiplier in the cache has the
  stamp of the block before it beside it, or is older than the last replay
  (`CachesInv`); so a block that is removed takes no part of the series with it
  without `stale` being set. And as long as it is not, the caches are parts of the
  chain and of its series (`SameInv`). Two facts about the recurrence carry the
  last one: every chain has a series (`SeriesUnfolds`), and two chains that
  agree up to a height have the same one up to the next (`SeriesLooksBack`).
* `SimulationMonitorProofs`: `MonitorTypeCorrect`, `FileMovesForward`,
  `CreditCorrect`. The
  invariant `SInv` ties the found blocks to the scanned height, in memory and in
  every whole file, the last whole file to the scan of the monitor that wrote it
  (`told`), and the turn of a scan to the height it has come to. `CreditCorrect`
  needs more (`CInv`): what a log says, written or still to be written, is true
  of its daemon, also of the lines around a marker that the parser takes for its
  context (`LogInv`); what is read of a log begins and ends within it
  (`FilesInv`); and the totals are the numbers of credits (`CreditInv`).
* `ToolsProofs`, a section or two for each of six tools, and one for the registries:
  * `RpcVerification`: `VerdictsAreEarned`. The invariant `VInv` says of each place
    of a check what has been heard and done so far: how many payments and blocks
    per lost answer, and how many failures an attempt number stands for. A creation
    that meets a wallet it does not recognise has cost a failure before: the wallet
    was there to be opened, or an answer was lost when it was made (`Underway`).
  * `ConfigGeneration` with `HardForkChecks`: `PairBelongs`, `ConfigStarts`. The
    property speaks of the disk at the end; `GenInv` says of each place of the
    conversation what `result` holds: from the user's approval on (`Together`) the
    scenario, its expansion and the report are of one text, and a configuration
    on disk is a snapshot of that (`Header`). `ChecksAgree` compares the
    validator and the preflight for every configuration without raw
    arguments, without an empty schedule that stands alone, and without seeds the
    validator has not heard of. The one assumption is that a file of an earlier run is told from a file of this one.
  * `ConfigTimeline` and `UpgradeWizard`: `HeaderIsTrue`, for any answers, and
    `PhasesKeepApart`, for any options. `TimelineInv` and `AnsweredInv` say what
    the plan, the emitted hosts and the shown times are made of; the rest is about
    the times themselves. Nobody starts after the last of the list (`UsersStart`),
    because everybody has one wave and a later wave starts later (`WavesInTurn`);
    and the hosts have one turn each, so that daemons stop between the start of the
    upgrade and its last turn (`StopsBetween`). `PhasesKeepApart` has a premise,
    `Orderly`: a full wave has been started before the next begins, and the last
    relay before the network is funded. The defaults and the wizard keep it
    (`AnswersTyped`); of options given by hand the code asks neither (it warns of
    relays after the bootstrap), and without it a phase can be overtaken.
  * `RunReport`: `PassesAreEarned`, from `ReportInv`: the monitor counts no more
    than there is (`NetworkTyped`); its history is all that was ever stored until
    it is full, and what the last whole report was written of is all there is, or
    a write has been lost (`StoredInv`); a whole report, of now or of before, said
    the truth and counts no more than has happened since (`ReportTrue`); the
    summary in an archive of this run is of that report, and a row PASS is one that
    was asserted. Alerts are summed by a fold, about which nothing is known but
    that it is a function of the history: that is enough, for the property equates
    histories and not sums.
  * `ScenarioExpansion`: `NetworkRolls`, from `RollInv`: whoever has been expanded
    ends a slot of 30 s before the offset that the next group begins with
    (`Before`), and two that have been expanded are in turn (`RollsInTurn`).
    `UsersBeginInTurn` adds `TurnInv`: until the end an agent is at "auto" exactly
    if its group or it itself declares so (`Unresolved`), so that the users of the
    scenario are those the resolution ranks; ranks grow by one (`RanksGrow`), as
    many staggers as there are users before the last fit into the interval they are
    all resolved to (`StaggersFit`), and that is the interval the last user is left
    with (`IntervalsGiven`). Of the scenarios it is assumed that groups have a size
    and that what is a time is one, or is left at "auto" or out
    (`ScenarioAssumption`).
  * `BlockHistogram`: `HistogramStaysWhole`, for a log of any length. `LogTyped`
    says of the log that time does not go back in it and that no height is
    skipped, so that the line in which a height begins is also its earliest
    (`Beginnings`). What a call is about to count begins in the lines it has seen,
    and nothing of them that is new is missing (`Remaining`); `WholeState` is
    the property itself for the state at work, up to its height, with a list of
    recent intervals not yet trimmed (`BoardWhole`) or trimmed (`SavedWhole`).
    The next block to be counted is therefore the one above the state's height,
    which is why each interval is that between neighbours.
  * `Registries`: `ReadersSeeAll`, `RegisteredStays`, for any finite set of
    agents. `LockInv`: who is inside holds the lock, and what it will rename is the
    registry it read with its own entry changed. `ToldInv` and `MinerInv`: an
    address anywhere comes from the agent's wallet, and a mining process registers
    only with one; so no later registration can take an address back.

The strengthened invariants were model-checked before they were proved. The
library's induction theorems cannot be used, for their parameter is an operator;
where an argument by induction on a number was needed (`LowestIsMember`,
`IpAllocationProofs`; `SeriesExists` and `SeriesLooksBack`,
`AutonomousMinerProofs`; `NaturalsIn`, `ToolsProofs`), the proof takes the least element of a set, which the
well-foundedness of the naturals gives.

Only model-checked is every liveness property (`FundingCompletes`,
`EveryUserServed`, `EveryAppendEnds`, `UserSendsAgain`, `MinesOn`, `OneLineBlocksCounted`,
`ScanCatchesUp`): fairness is outside what the prover handles.

## 6. Not modelled

* Amounts, fees and outputs; the chain's contents beyond heights and time stamps.
* Time in the agents' protocols: what may be due may happen. The timelines of the
  generators do compare times.
* The agents' readiness waits, argument parsing and the wording of what they log
  or report; the TTL caches of the discovery modules, which serve no caller.
* Of the scripts: the prompts and the display of the interactive generator, tag
  and network-graph generators, shell drivers.
* The DNS server's packets; topology, command lines, wrapper scripts, GML parsing
  and the Shadow types, which are pure formatting or functions of the
  configuration; analysis, patches and retired code, which do not run with the
  simulation. `components` in `PROJECT.json` lists each.
* `monerod`, `monero-wallet-rpc`, Shadow, the language model and the Python and
  file-system libraries are external and appear only through how this code uses
  them.
