# A TLA+ model of ADT

ADT is a research platform for trading strategies: it collects market candles
into a local Parquet lake, resamples them, backtests and optimizes strategies on
them, runs paper-trading sessions under a chain of approvals, and is
administered through an HTTP API and a web console. This directory models what
of it is hard to test: processes that share PostgreSQL rows and a data
directory, that are killed, lose their leases and recover each other's work; and
documents and results that several pieces of code derive, validate and recompute
independently of each other.

All paths below are relative to `src/`; `app/` stands for
`services/backend/app/`.

## 1. The system

| Component | State | Operations | Interacts with |
|---|---|---|---|
| Operation queue (`app/repositories/market_operation_repository.py`, `app/market_data/operations.py`, migration 20260731) | table `market_data_operations`: status, lease, progress, version | submit, pause, resume, cancel, three claim queries, renew, progress, final writes, reconcile | the API (administrators), the workers |
| Operation worker (`app/market_data/operation_worker.py`) | the operation in hand, heartbeat task | `run_once`: recover, settle controls, claim, execute, settle | queue, executor, local jobs |
| Worker runtime and observability (`operation_worker_runtime.py`, `app/repositories/worker_observability.py`) | one row per process, settlement events | start, poll loop, presence heartbeat, signals, end | worker, administrators |
| Backfill executor (`app/market_data/orchestration.py`, `planning.py`) | current chunk | chunk loop with an observer | ingestion service, local jobs, dataset lock |
| Local job catalog (`app/market_data/jobs.py`) | `jobs.json` | create, start, advance, pause, cancel, fail, recover_abandoned | worker, collector, CLI |
| Dataset and catalog locks (`app/market_data/locks.py`, `catalog.py`) | flocks | acquire, snapshot | everything on the data directory |
| Transaction coordinator (`app/market_data/transaction.py`) with catalog, store and ingestion service | Parquet partitions, `catalog.json`, `.transactions/journal-*` | execute, rollback, recover | every process that opens the data directory |
| Derived datasets and snapshots (`app/market_data/derived.py`, `snapshots.py`) | a second journal, manifests, snapshot directories | materialize, verify, recover, create | two dataset locks |
| Continuous collection (`app/market_data/continuous.py`) | state file | cycle over targets | planner, executor, exchange |
| Collector epochs, worker, supervisor (`operational_market_data_collector*`) | epoch rows: desired, observed, fencing token, claim | start, command, claim, recover, renew, settle | continuous collection |
| Paper session runs (`operational_paper_session_run*`) | the same protocol, plus eligibility | as above | paper engine, authority chain |
| Mandates, session profiles, strategy definitions | documents with revisions in PostgreSQL | draft, replace, approve, archive | administrators, authority chain |
| Authority chain: simulations and ledger, capital authorizations, materializations, activations, eras, settlements | rows in PostgreSQL, triggers, the session's local configuration | reserve, publish, permit, settle, close | paper session runs |
| Backtest engine, verifier, journal (`app/backtesting/`, `app/paper_trading/journal.py`, `period_metrics.py`) | one run in memory; artifacts | run; recompute | strategies, candles |
| Research (`app/optimization/`): search spaces, segmentation, experiments, walk-forward, stability | immutable documents on disk | plan, execute, select, publish, report | engine, artifacts |
| Paper trading (`app/paper_trading/`) | configuration, timeline, state and summary of each session, state of the runner | create, run, verify, list, cycle | RAW dataset, engine |
| API, CLI, web console | none of their own | requests | services |

`PROJECT.json` lists every component with its sources, its status and, if it is
not modelled, why. The behaviours that make it hard, each with its line, are the
hazards there: claims that race under READ COMMITTED, leases that run out under
a live worker, controls that arrive between two transactions, crashes between
two files that must change together, recoveries that are interrupted, evidence
that is read in one transaction and posted in another, and results that are
sorted, cut or validated a second time by code that must come to the same
answer.

What each component must guarantee:

- queue: at most one active operation per dataset, legal transitions only,
  every queued operation is eventually served;
- worker and executor: published progress and outcomes have durable evidence,
  a committed chunk is fetched again only where its receipt is short of candles,
  a stop is published only when nothing runs;
- local jobs: a job that is being run is not failed by another process;
- presence: what administrators are told of a process or a settlement is so;
- coordinator and derived datasets: files and catalog are one version after
  recovery, what was reported is never lost, COMPLETE means current;
- collection: a gap is one of the exchange, and a cycle's report holds;
- collectors and session runs: one owner per epoch by fencing, what is desired
  last is reached, a revoked session stops;
- documents: no edit is lost, an approval is for what was read;
- authority chain: money reserved is there, a settlement is posted once and
  covers every epoch, a closed era has nothing open;
- engine: money is conserved, protection and halt hold between any two fills,
  and every independent recomputation agrees;
- research: no fold sees its holdout, a selection can be reproduced, no document
  is refused by its own readers;
- paper sessions: what is on the disk is one version with its evidence, and
  published history is not rewritten.

## 2. Modules

Modules named `MC...` are instances for TLC. Operators marked `(mutant)` are
plausible mistakes that the runs must detect and serve only that.

| Group | Modules |
|---|---|
| Operation queue and worker | `MarketOperations`, `MarketOperationWorker`, `MarketOperationLifecycle`, `WorkerPresence`, `MarketOperationWorkerProofs` (both) |
| Data directory | `MarketDataTransaction`, `MarketDataTransactionProofs`, `DerivedDatasets`, `DerivedDatasetsProofs`, `ContinuousCollection`, `ContinuousCollectionProofs` |
| Operational epochs | `FencedEpochs`, `CollectorEpochs`, `CollectorWorkers`, `PaperRunEpochs`, `PaperRunWorkers`, `CollectorAndResearchProofs`, `PaperRunWorkersProofs` |
| Documents and authority | `OperationalDocuments`, `CapitalAuthority`, `AuthorityProofs` (both) |
| Backtesting | `BacktestRules`, `BacktestVerification`, `BacktestEngine`, `TradingProofs` |
| Research | `ResearchPlanning`, `StabilityRules`, `ResearchDocuments`, `ResearchExecution`, `CollectorAndResearchProofs` |
| Paper trading | `PaperDocuments`, `PaperSessions`, `TradingProofs` |

Where one module abstracts what another details, both say so: storing a chunk is
one step of the worker and of `ContinuousCollection`, and its transaction is
`MarketDataTransaction`; a cycle is one step of the epoch workers, and its
inside `ContinuousCollection` or `PaperSessions`; the authority of a session is
one bit of `PaperRunEpochs`, and its chain `CapitalAuthority`.

### MarketOperations

`row[o]` is the row of operation `o`. Three abstractions keep it finite:
time is "the lease has run out" (`expired`); the version is whether the owner
knows the present one (`current`), as every writer other than the owner
increments it; the uuid a worker process draws at its start is the worker
itself, and `Gone` when the process has ended. Every transaction is one
action, except the two claims: their `select ... for update skip locked`
(`LockRow`) and the update that meets the unique indexes (`ClaimLocked`) are
two steps, as two claims can each select a different row of a dataset under
READ COMMITTED. Deviations of the clock between hosts are not modelled.

### MarketOperationWorker

`wk[w]` is where a worker stands (`pc`), which operation it holds, which call
poll, checkpoint and final write return to (`ctx`), and what it has read
(`from`, `goal`, `local`): the stale values that the code carries from one
transaction to the next. `job` is `jobs.json`, `receipts[o]` the number of
chunks with a committed receipt, `short` which of them the source served without
all their candles, `flock` the dataset locks. A chunk is taken from its receipt
only if that counts every candle (`orchestration.py:202-207`); otherwise the source
is asked again and the catalog refuses the second receipt, as it differs
(`catalog.py:274-277`); and the last advance of a job whose chunks are not all full
is refused (`jobs.py:430-435`). Both end the operation FAILED. `LackingOps` are the
operations whose range the source does not have entirely.

| Actions | Code |
|---|---|
| `RecoverAbandoned`, `ClaimExpired`, `SelectControl`, `ClaimControl`, `SelectPending`, `ClaimPending` | the order of `run_once` |
| `Start`, `Execute`, `Acquire`, `Boundary`, `Verify`, `Fetch`, `Advance` | `_execute` and the chunk loop |
| `Poll`, `Renew`, `ApplyControl` | `poll_control` in its two transactions, and the stop |
| `CkptRead`, `CkptWrite`, `Finish` | `checkpoint`, `finish_*` |
| `Recover`, `ReconcileRow`, `SettleControl` | `_converge_recovery`, `_settle_claimed_unleased_control` |
| `Crash`, `Lost`, `DatabaseFails`, `HeartbeatFails`, `Expire` | process end, conflict, database failure, cancelled executor, slow worker |
| `SubmitStep`, `AdminStep`, `CliPause`, `CliCancel` | the API and the CLI |

A successful heartbeat only keeps `expired` false, so it is a stutter. A
transaction that commits but whose acknowledgement is lost is not modelled.
`Fetch` commits a chunk in one step; that this is justified is what
`MarketDataTransaction` is about.

`MarketOperationLifecycle` is the abstract queue: status, lease, published and
durable chunks of every operation, with no workers and no files, the contract
the API shows. `ImplementsLifecycle` instantiates it with the row and the
receipts of the detailed model.

### WorkerPresence

The persistent loop of `operation_worker_runtime.py` around the whole of
`MarketOperationWorker`. `runtime[w]` is the row of the process, `events[o]` the
`OPERATION_SETTLED` events, `session[w]` where the loop stands. `BeginPoll`,
`RunPoll` and `EndPoll` are one iteration, with the activity written before and
after; `RecordSettled` is the transaction that follows the one which settled the
operation; `GiveUp`, `PresenceFails`, `RequestStop`, `EndRuntime` and `Kill` are
the ends of the loop. Timestamps are left out: a clock behind the last
heartbeat is a failing write.

### MarketDataTransaction

`file[d][m]` is the set of chunks whose candles a partition holds,
`catalog` the content of `catalog.json` (version as a set of chunks, receipts,
runs), `backup` and `saved` the files moved aside, `journal[d]` the journal of
the dataset. Each change of the directory that a crash can separate from the
next is an action:

| Actions | Code |
|---|---|
| `Begin`, `Recover`, `Undo`, `Restore`, `Clean`, `DropBackup`, `DropJournal` | `acquire`, `recover_dataset`, `_rollback_late`, `_cleanup_artifacts` |
| `StartRun`, `FetchFails`, `Prepare` | `_ingest` up to the PREPARED journal |
| `Aside`, `Promote`, `PromoteCatalog`, `Commit` | `execute` up to COMMITTED; the cleanup shares `Clean` |
| `Rollback`, `RollbackRestore`, `FailRun` | `_rollback_before_commit` and `fail_run` |
| `StartUp`, `StartUpNext`, `Snapshot`, `Mark` | `recover` and `mark_abandoned_runs_failed` |
| `Crash`, `StorageFails` | a kill between any two steps; a step that raises before or after its effect |

Temporary files are not followed, except that their loss is one of the
failures: `_remove_incomplete_journal_writes` deletes those of other live
transactions. The restoration inside `promote_partition` and
`JsonMarketDataCatalog.promote` is one step.

### DerivedDatasets

A RAW dataset, the dataset resampled from it and its snapshots. A month is cut
into cells that a plan's range may or may not cover; a cell's number says which
content RAW has there, and a checksum is the content itself. `disk[t]` is a
partition or the manifest, `backup[t]` the hard link to what it was, `journal`
the transaction in progress.

| Actions | Code |
|---|---|
| `Plan`, `Enter`, `LockTimeout` | the requests of the CLI, and taking the RAW and the DERIVED lock |
| `ReadJournal`, `RecoverFound`, `Undo`, `Clean`, `DropJournal` | recovery, by the identity that was read before the locks |
| `Materialize`, `MaterializeIncremental`, `FindInvalid`, `Refuse`, `Begin`, `Link`, `Promote`, `Seal` | the two materializations and the journalled promotion |
| `Verify`, `Stage`, `Publish`, `Return` | verification, and the snapshots made of a verified dataset |
| `Ingest`, `StepFails`, `SealFails`, `StagingFails`, `Crash` | RAW replaced meanwhile; failures and kills |

`SealFails` is the write of COMMITTED whose file is in place when its directory
cannot be synchronized: the process then undoes the files under a journal that
says COMMITTED. `torn` remembers that a process ended in that rollback, the one
case in which something is lost (section 5); everything else the module does it
does there too, a verification that finds the dataset INVALID included.

### ContinuousCollection

The three planners (backfill, gap repair, incremental), the executor with
receipts and checkpoints, the adapter's paging, the quality check and the
collector's cycle, beside operators on the same datasets. `hole` are candles the
exchange never had, `stored[d]` the candles of a dataset, `jobs` and `receipts`
the catalogs, `cycle` the collector's state file. A receipt says whether the
exchange served each candle of its chunk (`whole`): a backfill or an update of
which one is not FAILS at its last checkpoint (`MayComplete`), whatever it stored.

| Actions | Code |
|---|---|
| `StartRunner`, `PlanTarget`, `Publish` | the collector: recovery of jobs under the lock, one plan per target, the validated state file |
| `Manual`, `Resume` | operators' backfills, repairs and resumed jobs |
| `BeginJob`, `Barred`, `Ingest`, `Checkpoint` (and `EndJob`, with which they end) | the executor: receipts first, fetch, store, advance; a busy dataset |
| `StepFails`, `Kill`, `Tick` | failures and kills; a candle closes |

### FencedEpochs, CollectorEpochs and CollectorWorkers, PaperRunEpochs and PaperRunWorkers

`FencedEpochs` states what the triggers of both tables and both decision records
promise about a sequence of epochs: administrators say what they desire, one
worker at a time holds an epoch under a fence that only grows, a lease is taken
over only once it ran out, and only what was desired is settled.

`CollectorEpochs` and `PaperRunEpochs` are the two domains: `row[e]` with desired
and observed state, owner, fence and lease, one operator per transition and its
precondition. `CollectorWorkers` and `PaperRunWorkers` are the processes. They
read an epoch and write it in two transactions, so a read and the optimistic
write it prepares are two actions (`ReadStarting`, `MarkStarting`, ...), with
`fresh` saying whether the snapshot is still the row and `tries` counting the
retries. The two differ where the code does: the collector asks for its
authority before and below the collection lock; a paper run reads eligibility
around the validation of local files and before each cycle, may recover its own
expired lease, and its cycle is a thread that nothing stops. `Lapse` is a lease
that runs out under a live worker, `Crash`, `DatabaseFails`, `Raises` and
`CycleFails` the other faults, `Revoke` the loss of a session's authority.

### OperationalDocuments

Mandates and profiles share one state machine. `doc[d]` is the aggregate with
its revisions, `strategy` the definition profiles are made from, `seen[a]` the
document an administrator has on the screen. `Create`, `Replace`, `Approve` and
`Archive` are one transaction each, under the expected revision, checksum and
record version; `ApproveReplay`, `ArchiveReplay` and the idempotency key of
`Create` answer a call that is repeated after its reply was lost. A profile's
calls hold the rows it rests on (`ValidMandate`, `LockedStrategy`).

### CapitalAuthority

Every insert's trigger locks the simulation first and then the chain in one
order, so each repository call is one action: `CreateSimulation`,
`CreateMovement`, `Transition`, `Designate`, `ArchiveDocuments`, `Authorize`,
`RevokeAuthorization`, `Activate`, `RevokeActivation`, `Start`. What happens
outside a transaction is a step of its own: `Prepare`, `CreateConfig`,
`MarkMaterialized` and `Abandon` for the configuration file, `RunCycle` and
`EndEpoch` for a worker, `ReadEvidence` and `Settle` for a settlement.

A START is two steps. `RequestStart` takes the time, as the route does before
anything is validated; `Start` inserts the epoch with that time (`asked`),
whatever was asked for and inserted since. `Eligible` compares the times of the
requests, as the settlement's query does, and does not ask whether an epoch is
live. Two requests at the same instant are not modelled: either epoch then
refuses the settlement of the other.

### BacktestRules, BacktestEngine, BacktestVerification

`BacktestRules` has the pure rules: what constructors refuse, fill prices by
OHLC, sizing, the risk manager before an order and again before a fill, the
protective stop, weighted-average accounting. `BacktestEngine` is
`DeterministicBacktestEngine.run`: `OpenCandle`, `ExpireDay`, `NotReached`,
`RefuseFill`, `FillOrder`, `CloseCandle`, `EndRun`, `Fail`; market and strategy
are the environment, any candle and any batch of intents. `queue` has the orders
still to try in the candle, and the next one is the first by `Before`: the stop,
then by eligible candle and sequence, which is the tuple
`_eligible_order_positions` sorts once, as nothing it sorts by changes before the
next candle. `ReserveIsKept` allows for a reserve above the capital, which
no constructor refuses: such a run only never buys. `BacktestVerification`
recomputes a finished run as three other pieces of code do: the verifier that
replays fills, the journal that sorts them again, and the realizations of the
period metrics. Money is an integer and the instances choose prices whose fees
are whole; a division keeps a bounded number of digits, as Decimal's.

### ResearchPlanning, StabilityRules, ResearchDocuments, ResearchExecution

`ResearchPlanning` translates the contracts that exist before anything runs,
each with its creation, its refusals and its validator; time is counted in
candles, and an identifier is the content it digests. `ResearchDocuments` says
what is written to disk and what a reader rebuilds; `StabilityRules` is the
report. `ResearchExecution` executes: `Plan`, `Begin`, `ReuseRun`, `Run`,
`PublishRun` and `FinishExperiment` for the runs of a fold, `Select` on TRAIN and
VALIDATION only, `BuildManifest`, `Analyze`, and `Enter`, `Rename`, `Confirm` for
a publication under its lock; `Kill`, `DamageRun`, `SpoilDocument` and a
verification that fails once in a while are the environment.

### PaperDocuments and PaperSessions

`PaperDocuments` has the documents of a session and the checks their readers and
writers make; a replay is a function of the configuration and the candles.
`PaperSessions` has the disk: `CreateFolder` and `RunOnce` begin, and each of the
writes that follow (timeline, reference, state, summary) is one `Write`, or a
`Refuse` where the repository refuses it.
`WriteFails` may fail after its effect, `Kill` strikes between any two.
`Verify`, `VerifyCandles`, `VerifyEvidence` are the verification, which takes no
lock; `StartRunner`, `NextSession`, `EndCycle` the runner; `Collect` and
`Correct` the RAW dataset. `Correct` is more than any program here does: an
ingestion refuses other content for a candle it has (`storage.py:253-263`). It
stands for files of RAW replaced from outside, so that the properties can say
exactly what the sessions owe to candles that do not change. Orders are market
orders only, as the whole engine is `BacktestEngine`.

## 3. Runs

| Run | Instance | Properties |
|---|---|---|
| `WorkerLiveness` | 2 workers, 2 operations of 2 chunks on one dataset (the source may lack candles of the first), 1 fault, 1 request | `ExclusiveWork`, `StoppedMeansQuiet`, `ImplementsLifecycle`, `PendingIsServed` |
| `Presence` | 2 workers, 1 operation of 2 chunks (the source may lack candles), CLI controls, failing plans, any number of faults and requests | `EvidenceInv`, `CompletedIsDurable`, `ReportsAreTrue`, `OnlyResumesRefuse` |
| `JournalFaults` | 2 processes, 2 datasets, 3 chunks, 2 partitions, 2 runs per dataset; 1 I/O failure or 2 crashes | `JournalInv`, `ReadersSeeOneVersion`, `ReportedIsKept` |
| `Derived` | 2 processes, 2 months, 2 changes of RAW, 3 transactions, 2 failures or kills | `NothingIsLost`, `VerifiedIsCurrent` |
| `Continuous` | 2 processes, 2 targets (timeframes 1 and 2), 1 hole, 2 cycles, 2 jobs, 2 faults, time 4 to 7 | `GapsAreExplained`, `OutcomesHold`, `CyclesAreAccepted` |
| `Collectors` | 2 supervisors, 2 epochs, 2 commands, 2 faults | `ClaimsHold`, `ImplementsContract`, `DesiredConverges` |
| `PaperRuns` | 2 supervisors, 1 epoch, 3 commands, a revocation, 2 faults | `ClaimsHold`, `OneCycleAfterRevocation`, `ImplementsContract`, `DesiredConverges` |
| `Documents` | 2 administrators, 1 mandate, 1 profile, 3 revisions each, 2 instruments, 1 key | `HistoryIsSound`, `ApprovalIsOwn`, `ProfilesRestOnMandates` |
| `Capital` | 1 simulation, 2 profiles with one session content, 1 client, capital 1, 3 movements, 2 of each grant, 2 STARTs | `CapitalIsCovered`, `SettledIsFinal`, `ClosedEraIsSettled` |
| `Engine` | 3 configurations, 3 candles at 2 prices, market, limit and stop orders | `RunIsSound`, `ReserveIsKept`, `ResultIsVerifiable`, `ReportsAgree` |
| `Research` | plans over 8 snapshots x 5 windows x 8 spaces; 3 executions (below) | `PlansAndReportsAreSound`, `WritersMeetReaders`, `PublishedIsSound` |
| `PaperSessions` | 2 sessions, 2 processes, 3 candles, 1 correction, 1 cycle, 2 replays, 1 fault | `SessionsAreWhole`, `VerifyIsExact`, `OnlyCorrectionsRefuse`, `PublishedHistoryStands` |

Several invariants are conjunctions of named parts, each stated and commented at
its own definition; TLC checks the conjunction.

| Invariant | Parts |
|---|---|
| `ExclusiveWork` | `OneActivePerDataset`, `ExecutorKeepsItsJob` |
| `EvidenceInv` | `TypeOK`, `DataInv` (with `ProgressIsDurable`), `SessionInv` of every worker |
| `ReportsAreTrue` | `PresenceIsTrue`, `SettledOnce` |
| `JournalInv` | `TypeOK`, `BackupsAreCovered`, `CommittedRunCompletes` |
| `NothingIsLost` | `TypeOK`, `RecoveredIsCommitted`, `BackupsAreCovered`, `NeverInvalid`; unless `torn` |
| `OutcomesHold` | `ReportsHold`, `RepairedIsWhole` |
| `ClaimsHold` | `TypeOK`; `CollectorsAreFenced` or `CyclesAreFenced` |
| `HistoryIsSound` | `DocumentsTyped`, `EditsBuildOnReads` |
| `CapitalIsCovered` | `TypeOK`, `ReservationsAreCovered`, `SettlementsFit`, `MaterializedHasConfig` |
| `RunIsSound` | `TypeOK`, `MoneyIsAccounted`, `StopCoversPosition`, `HaltHolds` |
| `PlansAndReportsAreSound` | `PlansAreSound`, `AssessmentHolds` |
| `PublishedIsSound` | `StoredIsReproducible`, `HoldoutOfBest` |
| `SessionsAreWhole` | `ReadersAcceptWriters`, `StatesAreBacked`, `SummariesAreCurrent` |

Why the bounds let the interesting cases happen:

- **Workers.** Two workers make every race (claim against claim, recovery against
  a live owner, CLI against executor) and a third only repeats one of them, as a
  row has one owner and a dataset one lock holder; two operations of one dataset
  are what the index and the claim queries arbitrate; two chunks have a first, a
  last and a boundary between them. `WorkerLiveness` has no CLI controls, because
  `StoppedMeansQuiet` does not hold with them (section 5). `Presence` has no
  bounds on faults and requests, and so also checks the invariant the proofs
  rest on with everything that can happen to one operation. The source lacks
  candles of any chunk of an operation in `LackingOps`, or of none: a first chunk
  that is short is committed, met again by a resumed job, and refused. 0.5 and 2.3
  million states.
- **Journal.** A chunk over two partitions gives the half-promoted state, a chunk
  on a shared partition one with an original, a second dataset the catalog
  entries a recovery must leave alone, and two crashes the interrupted recovery.
  `FailureCost` is what an I/O failure counts in `MaxFaults`; both are 2, so that
  a behaviour has one failure or two crashes, since a failure followed by a crash
  does lose data (section 5).
- **Derived.** Two changes of RAW in two months are what makes one month stale
  and another not; ranges are whole months in this run, as a range that cuts a
  month does leave stale rows under COMPLETE (section 5), and one cell stands
  for a month; the proofs have any number. Three transactions
  give a full one, an incremental one and one after a recovery. Two failures or
  kills reach the excepted case, and whatever is done after it. 7.3 million states.
- **Continuous.** One target closes a candle every tick, the other every second;
  pages of one candle and chunks of two with an overlap of one give a chunk of
  two pages and plans that begin in the middle of what is stored; the hole lies
  where an operator's backfill, a repair and a cycle meet it. 3.3 million
  states; at larger bounds (3 jobs, 5 cycles, 4 faults, time to 9) the inductive
  invariant was checked by simulation before it was proved.
- **Epochs.** Two faults are a lapse under a live worker and a crash of the one
  who took over. The code retries three times; `Attempts = 2` keeps a first try,
  a retry and exhaustion. Two collector epochs show that a second is not started
  beside a live one and is after it; the runs' third command resumes after a
  pause.
- **Documents.** Three revisions are the one somebody has read, the one that
  replaced it and the one to be refused. One idempotency key makes a collision
  of two drafts possible.
- **Capital.** Two profiles whose local session is the same are what makes
  authorizations meet in one session; two STARTs are one before and one after the
  evidence was read, or a delayed one that is inserted after the other although it
  was asked for before; with capital 1 and three movements the balance can be
  full, empty and reserved.
- **Engine.** Three candles are the one of an intent, the one of its fill and the
  one of its exit; two prices are a gain, a loss, a gap through a limit or a stop
  and a drawdown. The configurations are a protected account with a reserve and a
  forced sale at the end, a session that halts, and an unprotected account. One
  candle per day makes every DAY order expire.
- **Research.** The grid holds accepted and refused requests of every kind:
  ranges with and without remainder, warmup that does not fit, non-strict and
  incomplete snapshots, parameter values whose textual order is not their
  numeric one, spaces above the limits. Executed are one plan twice with a kill
  and two failing verifications (`Repeated`), one with an analysis over a damaged
  file (`Analysed`), and one of a single combination by two callers at once
  (`Together`). Two is what `StoredIsReproducible` allows for: three can agree
  on what is not so (section 5).
- **Paper sessions.** One session has warmup and regimes; the other never has a
  candle. Three candles of which one can be corrected before or after it was
  published; one kill or failed write meets every write of every step.

`ControlledOps`, `MaxFaults`, `MaxRequests`, `MaxRuns`, `MaxEdits`, `MaxCommands`,
`MaxCycles`, `MaxJobs`, `MaxReplays`, `MaxCorrections`, `MaxMovements`,
`MaxAuthorizations`, `MaxActivations`, `MaxStarts`, `MaxEpochs`, `MaxRevisions`, `Horizon`,
`MaxTime` and the `Budgets` of `Research` bound nothing that the code bounds: they
limit how often the environment acts. Runs in which the environment may be out
of moves say `CHECK_DEADLOCK FALSE`. Symmetry of workers, processes, actors or
callers is never used under liveness.

Every property of every run has a mutant in `PROJECT.json`: a plausible change
of one definition under which TLC finds it violated.

## 4. Fairness

`LiveSpec` (run `WorkerLiveness`) is weakly fair to every worker's loop
(`operation_worker_runtime.py` polls until it is asked to stop), to the start of
a worker that has ended, and to the expiry of the lease of a process that is
gone (time passes). That a worker is started again is an assumption about the
operator, not something the repository configures: with no worker running
nothing is ever served. `PendingIsServed` says that a queued operation leaves
the queue then.

`FairSpec` of `CollectorWorkers` and `PaperRunWorkers` is weakly fair to the steps
of every supervisor (it polls at a fixed interval, and a session that was
entered goes on) and to the expiry of a dead worker's lease. It is not fair to a
cycle that fails, a call that fails, a lapse or a crash. The collectors'
`DesiredConverges` needs at least two supervisors: one whose lease ran out
refuses its own epoch for ever, and only another can recover it (a paper run's
worker may recover its own).

In all three nothing is fair about faults, commands and requests: there are
finitely many of them, and the property has to hold whenever they stop.

## 5. Where the code and its documents disagree, and what was observed

None of the runs is expected to fail; where the code does not do what a document
says, the run leaves the case out and this section says so.

Operations and workers

- An operation that is claimed, paused before its first checkpoint and then
  cancelled stays in CANCEL_REQUESTED: it has `started_at` but no `local_job_id`,
  and `settle_or_claim_next_unclaimed_control` selects neither
  (`market_operation_repository.py:966`; its docstring at :921 promises the oldest
  unclaimed control). A property that every control request settles would fail.
- Recovering a cancel request whose local job is FAILED publishes FAILED, as
  `jobs.py:207` keeps the error code on the cancelled record and rejects it;
  `test_market_operation_worker_execution.py:1735` expects CANCELLED, with a
  catalog that does not validate.
- A recovery that dies after its claim leaves RECOVERING, from which the next one
  cannot tell that a cancel was requested; a paused local job then makes the
  operation PAUSED (`operation_worker.py:915`).
- `StoppedMeansQuiet` does not hold when an operator cancels the local job of an
  executor that has lost its lease: the recovery publishes CANCELLED while that
  executor is still in its last chunk. No document promises otherwise.
- A chunk of which the source lacks a candle at either end is stored and committed
  with a warning (`quality.py:173-196`), although its operation cannot complete: at
  the last advance, or earlier, at every resume, when it is fetched again and its
  receipt refused. Its progress is durable and its candles are in RAW, and an
  operator sees FAILED.
- An administrator who resumes or cancels a pause between its settlement and its
  record makes the record refused, and the whole worker process ends FAILED
  (`worker_observability.py:575`). `OnlyResumesRefuse` shows this is the only way.

Data directory

- The rollback in the failing process unlinks `catalog.json` before it renames
  the backup (`transaction.py:263`). A kill in between leaves no catalog, which
  reads as an empty one, for every dataset (`docs/MARKET_DATA.md:203`). It takes
  a failed step after the catalog was promoted and a kill.
- `recover` lists the journals, then fails the RUNNING runs of unlocked datasets.
  A transaction prepared and abandoned in between has its run failed, and every
  later rollback is refused because the run is neither RUNNING nor COMPLETED.
  The same end follows from a PREPARED journal that is in place although its
  fsync failed, since `_ingest` then fails the run itself.
- Derived: an incremental run over a range that cuts a month rebuilds only the
  range but records the whole month's checksum, so rows outside stay stale under
  COMPLETE (`docs/MARKET_DATA.md:328`). Widening the range within unchanged months
  is a NOOP. A COMMITTED journal whose directory cannot be synchronized is in
  place, and the files are undone under it (`derived.py:856-863`,
  `filesystem.py:49`); a kill before the end makes the recovery drop the backups
  that are left (`derived.py:630-635`), and the dataset is new in some months and
  old in others. It takes that failure and that kill; `NothingIsLost` names them
  as the one exception. A staging directory left by a kill makes every later
  creation of that snapshot fail.
- Collection: a gap exactly at the boundary of two chunks is only a warning and is
  stored (`docs/MARKET_DATA.md:225`), and the update then FAILS at its last
  checkpoint, as not every candle was counted; so does one whose newest candle
  comes late, and the next cycle continues from what it stored. A hole of the
  exchange inside a chunk that the overlap asks for again fails its target at
  every cycle; a plan beyond the limits after a long downtime is refused for ever;
  a PLANNED job left by a kill is never recovered. Two plans made while the
  dataset was empty can leave a gap between them for ever: the first is
  interrupted, the second (later by as much as the collector stood still) is
  stored, the first is resumed and ends before the second starts, and an
  incremental plan never looks back (`planning.py:252`). It takes three jobs and a
  long time, and `GapsAreExplained` names it as the one exception.

Operational epochs

- A PAUSED collector epoch that is settled and polled again becomes FAILED,
  though nothing unsafe happened (`docs/adr/0007`, :333); a PAUSE or STOP between
  `_mark_starting` and the validation of eligibility fails the run
  (`docs/adr/0006`, :178). The refinement allows both, since the contract lets an
  epoch fail.

- A START takes its time in the route and is inserted after validation
  (`admin_operational_paper_session_runs.py:60`,
  `repositories/operational_paper_session_runs.py:454-464`). Another may be asked
  for, run and stopped meanwhile; its settlement looks for epochs asked for at or
  after its own (`operational_paper_session_settlements.py:427-441`), and so does not
  see the delayed one, which may be live then or, if it was inserted before, stop
  later. Where the session has a second authorization of equal content it even
  keeps its authority. `SettledIsFinal` excepts such an epoch (`Overtaken`), which
  is never inserted after the settlement, and holds of all others. An era cannot
  be closed while it is live (`ClosedEraIsSettled` has no exception).

Backtests and research

- With protective stops the journal's order of the fills of one candle
  (`journal.py`, `_execution_key`) is not always the engine's, and its accounting
  then refuses a run that was correct (`docs/ROADMAP.md:686`); `ReportsAgree`
  compares the journal in runs without them.
- A partial exit is divided and rounded by `period_metrics.py:494-557` in another
  way than by the journal, and a mismatch fails closed
  (`docs/PAPER_TRADING_PERIOD_METRICS.md:44`); `ReportsAgree` compares the sums once
  the position is closed.
- The engine marks the last candle before it force-closes; the verifier applies
  the fill first. A forced sale that costs something is refused
  (`docs/ARCHITECTURE.md:559`), and so is an evaluation range that starts in a gap
  when the strategy sends intents on start; `ResultIsVerifiable` leaves both out.
- A selection takes an artifact that cannot be verified for one that has no
  result. If the same verification fails for a moment at the selection, when the
  manifest is built and in the staging directory, the document says so for ever
  (`walk_forward_execution.py:364`); `StoredIsReproducible` is about fewer.
- A verification that fails for a moment during a second publication removes a
  target that was intact (`docs/BACKTESTING.md:659`). A completed walk-forward whose
  TEST metric is None never gets a stability report. A second execution of the
  same plan gets a new identity, as COMPLETED and REUSED enter its checksum.

Paper sessions

- A kill between `state.json` and the summary leaves a stale summary, and listing
  fails until the next new candle; so does a listing during a creation.
- A RAW correction within the published range makes every run a conflict until
  the next candle, and then the history is written anew: `OnlyCorrectionsRefuse`
  and `PublishedHistoryStands` name corrections as the one cause.
- A session that outgrows `max_candles` fails for good, while its verification
  goes on succeeding. So does one whose replay has more than `max_total_orders`
  orders, refused ones included: the state is refused by `domain.py:613`.

## 6. Proofs

TLC checks small instances; the theorems below hold for every value of the
constants: any number of operations, datasets, months, partitions, chunks,
workers, processes, epochs, administrators, profiles, amounts of money, and any
bounds on faults and requests. They rest on the named assumptions of the
modules: what a number is, that a value like `NoOwner` or `None` is none of the
others, that sets are finite where the code's are; of a paper session, that its configuration
passed its constructor, that prices and times are natural numbers, and nothing
of the strategy. Of a backtest run they say that its configuration passed its
constructor (`ConfigsAssumption`), that intents and candles are what `OrderIntent`
and `Candle` accept, with the amounts natural numbers (`BatchesAssumption`,
`PricesAssumption`), and that a day has candles (`BoundsAssumption`); fees,
slippage, limits and percentages stay as free as the constructors leave them.
Of research they say that scores are numbers or one of two other values, that the
limits are numbers, and that a stability report takes at least as many folds as a
plan has.

| Module | Theorem | Statement |
|---|---|---|
| `MarketOperationWorkerProofs` | `EvidenceAlways` | `Spec => []EvidenceInv` |
| | `TypeAlways` | `Spec => []TypeOK` |
| | `ProgressAlwaysDurable` | `Spec => []ProgressIsDurable` |
| | `CompletedAlwaysDurable` | `Spec => []CompletedIsDurable` |
| | `RefetchesAlwaysShort` | `Spec => []RefetchesOnlyShort` |
| | `ExclusiveWorkAlways` | `Spec => []ExclusiveWork` |
| | `StoppedAlwaysQuiet` | `~CliControls /\ Spec => []StoppedMeansQuiet` |
| | `WorkersImplementLifecycle` | `Spec => ImplementsLifecycle` |
| | `ReportsAlwaysTrue` | `PresenceSpec => []ReportsAreTrue` |
| | `OnlyResumesAlwaysRefuse` | `PresenceSpec => []OnlyResumesRefuse` |
| `MarketDataTransactionProofs` | `JournalAlwaysHolds` | `Spec /\ [][RollbackUndisturbed]_vars => []JournalInv` |
| | `ReadersAlwaysSeeOneVersion` | the same for `ReadersSeeOneVersion` |
| | `ReportedAlwaysKept` | the same for `ReportedIsKept` |
| | `OneFailureIsHarmless` | all three for `Spec` alone, where `FailureCost >= MaxFaults` |
| `DerivedDatasetsProofs` | `NothingIsEverLost` | `Spec => []NothingIsLost` |
| | `VerifiedAlwaysCurrent` | `Spec => []VerifiedIsCurrent`, assuming `WholeMonthsOnly` |
| `CollectorAndResearchProofs` | `ClaimsAlwaysHold` | `Spec => []ClaimsHold` |
| | `CollectorsKeepTheContract` | `Spec => ImplementsContract` |
| | `DocumentsAreReadable` | `ResearchSpec => []WritersMeetReaders` |
| | `PublishedComesOutAgain` | `FewMisses => (ResearchSpec => []PublishedIsSound)` |
| `PaperRunWorkersProofs` | `ClaimsAlwaysHold` | `Spec => []ClaimsHold` |
| | `OneCycleAfterRevocationAlways` | `Spec => []OneCycleAfterRevocation` |
| | `PaperRunsKeepTheContract` | `Spec => ImplementsContract` |
| `AuthorityProofs` | `HistoryAlwaysSound` | `DocumentsSpec => []HistoryIsSound` |
| | `ApprovalAlwaysOwn` | `DocumentsSpec => []ApprovalIsOwn` |
| | `ProfilesAlwaysRest` | `DocumentsSpec => []ProfilesRestOnMandates` |
| | `DocumentsAlwaysStand` | `DocumentsSpec => [][DocumentsStand]_documentVars` |
| | `CapitalAlwaysCovered` | `Spec => []CapitalIsCovered` |
| | `SettledAlwaysFinal` | `Spec => []SettledIsFinal` |
| | `ClosedEraAlwaysSettled` | `Spec => []ClosedEraIsSettled` |
| `ContinuousCollectionProofs` | `NoGapsUnexplained` | `Spec => []GapsAreExplained` |
| | `OutcomesAlwaysHold` | `Spec => []OutcomesHold` |
| | `CyclesAlwaysAccepted` | `Spec => []CyclesAreAccepted` |
| `TradingProofs` | `SessionsStayWhole` | `SessionsSpec => []SessionsAreWhole` |
| | `VerifyStaysExact` | `SessionsSpec => []VerifyIsExact` |
| | `RefusalsNeedCorrections` | `SessionsSpec => []OnlyCorrectionsRefuse` |
| | `PublishedStatesStand` | `SessionsSpec => PublishedHistoryStands` |
| | `RunsStaySound` | `Spec => []RunIsSound` |
| | `ReserveStaysKept` | `Spec => []ReserveIsKept` |
| | `ResultsAreVerifiable` | `Spec => []ResultIsVerifiable` |

`DocumentsStand` is the only property here that no run checks by itself: no step
removes or rewrites a revision, lowers a version, or withdraws or moves an
approval.

### Hypotheses

Some theorems do not hold of the plain specification, each for a reason of
section 5, and state what they need:

- `~CliControls`: an operator who cancels the local job of an executor that lost
  its lease is the one way to work for a stopped operation.
- `RollbackUndisturbed`: no crash and no failure strikes a process while it
  takes its own transaction back (it may strike anywhere else, any number of
  times, in recoveries and in recoveries of recoveries). The window is
  `transaction.py:263`. `OneFailureIsHarmless` has no such hypothesis on
  behaviours: where a failure uses up what `MaxFaults` allows, as in the run,
  nothing can strike during the rollback that it causes.
- `WholeMonthsOnly`: a range that cuts a month leaves stale rows under COMPLETE.
- `FewMisses`: a verification of an artifact fails for a moment at most twice.

### Arguments

None of the properties is inductive. What each invariant adds:

*Operation worker.* A final write publishes what its worker read several
transactions before. `EvidenceInv` adds, for each session, what makes that sound
(`SessionInv`): the record in hand is never ahead of `jobs.json`
(`KnowsItsJob`), the row locked for a claim is still what the query found
(`HoldsRowLock`), the executor holds the flock and is the only one to move the
checkpoint, with a receipt for each chunk it passed and for the next one only if
that is short (`HoldsFlock`, from which `RefetchesOnlyShort` follows), and whoever
intends COMPLETED has seen the finished job and published all chunks
(`HasEvidence`); and for the data, that a finished
local job has all its chunks and that only a leased row can be expired. Each
transaction of `MarketOperations` is shown once to keep the rows well-typed and
what others rely on (`RowsKeep`: progress only grows, a row locked for a claim
is left alone); `SessionFrame` then says that the sessions of other workers
survive any step that keeps rows, jobs and locks in this sense, so that each
action has only to establish the session of its own worker and the data
invariant.

*Operation queue.* What rows do is proved by way of the abstract lifecycle: each
transaction is a step of `MarketOperationLifecycle` or none of its steps, which
is `WorkersImplementLifecycle`; and the lifecycle's steps keep `QueueInv` (who
has which lease in which state, one active operation per dataset) whoever takes
them. `WorkInv` adds what a session that executes has in the rows and in
`jobs.json`: only the holder of the flock, or a recovery while nobody holds it,
takes a job out of the hands of its executor. `QuietInv` is the same for an
operation that stands still.

*Presence.* The loop takes no queue step of its own (`QueueStep`), so that the
invariants above hold under it. `PresenceInv` adds that each place of the loop
fits the place of its worker (`LoopFits`) and that an ended row never changes
again and ends in one step of one worker, which alone records it (`EndsOnce`).

*Transaction coordinator.* All that concerns one dataset (files, journal, its part
of the catalog or of the catalog's backup, the process that has its lock) is put
into one record, its View; a step changes the view of the dataset its process
has locked, and of no other. What a view keeps is then a statement about one
dataset: how far its process came, which files are originals, which version they
belong to.

*Derived datasets.* A journal says how to find the last committed files again: the
original of a file is its backup where there is one, else what is on disk if the
journal says that something was (`Originals`). No step of a transaction or of a
recovery changes the originals, wherever the one before ended (`JournalOK`);
what is not to be promoted any more is what was to be there (`NewOK`). A rollback
under a COMMITTED journal keeps the originals as any other does, so that only its
interruption is excepted. `VerifiedIsCurrent` has no exception: a full verification
compares sources as well as partitions, and the recorded sources are what the
recorded partitions were made from (`Informed`), also when the partitions on the
disk are something else.

*Epochs.* Each action of a worker is one of two shapes: it reads (`SessionMove`) or
commits one transformation of the domain (`RowMove`). The invariant says what a
session may rely on in the row of its epoch: while its snapshot is fresh the row
is as it was read; an owner has the present fence, or a newer one exists and its
writes are refused. The contract's step is then a matter of the transformation.
For paper runs the invariant also shows that an epoch which is still owned is
RUNNING before each cycle, so that marking it there (`from = "cycle"`) is
defensive code that never runs.

*Collection.* Four facts about the plans carry the gaps. The chunks of a job are a
chain: each begins within the overlap of the one before, and the receipts cover
the range up to the checkpoint (`JobsOK`); what a chunk stored is all the exchange
has of it (`FetchedIs`: the pages of a fetch put together are the range). A job
ends no earlier than the ones before it when it was planned under the runner's
lock, as time only grows. A dataset's plans are a first plan, or continue from
the newest candle that was stored then; each candle can therefore be followed
back to the first plan it goes back to (`GapsOK`), and the candles of one first
plan have no gap. Two first plans are what `GapsAreExplained` names. `ReportsOK`
says the same of what a cycle has seen of its targets (`OutcomesHold`): where the
receipts of a job count every candle, the whole of what it passed is stored
(`Covered`), and no other job of a collector completes. It also says that
every result carries the job it came from (`CyclesAreAccepted`).

*Documents.* A call changes one document the way `Follows` describes, or none. What
an administrator has on the screen was once true (`Shows`) and documents only
grow, which is all that a later call of the administrator relies on.

*Capital.* The balance and the reservations are sums over finite sets. The library
defines such a sum by recursion on the set; that the order does not matter, and
what adding, removing or changing one element does, is proved first, by looking
at a smallest set for which it would fail. The invariant adds what each grant
and each call under way knows of the ledger: evidence that was read is complete
or will be refused, a reservation lives as long as its authorization, and a live
epoch is the last one inserted for its session (`LastLive`). An epoch that an
eligible settlement did not read therefore came after the settled one, although it
was asked for before: it was overtaken (`SettleFinds`).

*Paper sessions.* A published state is what the replay of its own candles gives
(`Made`), and so is its timeline (`Story`). Two facts about replays, shown by
looking at the first candle for which they would fail, carry the rest. The
replay of a prefix is a stage of the replay of the whole, and from one stage to
the next fills are only added and only the waiting order changes (`Stands`),
which gives `PublishedHistoryStands`. And the timeline, which sees the fills and
not the strategy, passes through the portfolios of the replay (`StoryIs`), so
that the timeline of a state that was replayed is never refused. The invariant
adds the protocol: a directory has the timeline before the reference and that
before the state (`FolderOK`); whoever writes has the lock and has written what
comes before, and, unless a candle was corrected, is newer than what is
published (`PublisherOK`); the candles of a state are still those of RAW if
nothing was corrected (`FromRaw`), which is why only corrections lead to a
refusal. A verification that takes no lock holds a state which is on the disk or
was, and has since given way to a later one (`VerifierOK`).

*Research.* `ResearchInv` says of a caller, by the place where it is, how far the
records and folds it has are backed by scores and artifacts, and of a document
that its constructors take it. Two facts about the reports are shown one fold at
a time: the completed ones before a fold, and what the turnover compares, are
unfolded by position (`CompletedUnfolds`, `ObservationsFollow`). `HonestInv` adds that
a fold comes out the same from artifacts of which only some that are damaged now
are missing (`Honest`): a damaged artifact stays damaged, so that an honest fold
stays honest, and what is honest and rests on nothing damaged comes out again. A
fold that is not honest was selected while a verification failed; the manifest
built of it is checked twice more, before it is staged and in the staging
directory, so that it takes three failures to publish it (`FewMisses` excludes the
third). The winner of a selection is shown to exist and to be the first of the
best by taking the extremes of a finite set (`WinnerIs`).

*Engine.* The orders of a candle are chosen before any of them is filled, and a
fill replaces the stop in the middle of that list. What keeps this sound is the
order: the stop is tried first (`FirstIs`), and the one that replaces it is
eligible only in the next candle, so that an order whose turn comes after a fill
is never a stop that was cancelled meanwhile (`queue \subseteq Open`), and no
fill sells more than the stop covers. `ProtectionOK` is `StopCoversPosition` and
`HaltHolds` in the form a step needs: no two stops, and the stop for the whole
position; `AccountsOK` follows the ledger, entry by entry, next to the
portfolio, and a partial exit releases cost by a division whose rest stays in
the position (`ReleasedIs`), so that cash and cost balance whatever it
rounds. `CurveOK` says which candles were closed. A fill is not stopped by
what was admitted when its order was placed but by `FillFits` at its own price,
which the stop alone skips, and a sale never lowers the cash below the reserve
(`ReserveIsKept`).

`ResultIsVerifiable` says something of the whole record of a run that ended; its
invariant (`RecordInv`) says the same of the record so far. The orders, fills and
entries are dated within the candles opened (`DatedOrders`, `DatedFills`,
`LedgerAdds`); the FILLED orders and the fills are one to one (`FilledOnce`),
which a step keeps because only the order tried gets a fill, and it was open
until then; and the replay is at the portfolio: of the closed candles and their
closes between two candles, with the fills of the open candle while its orders are
tried. A fill recorded later changes nothing of the candles before it
(`FillKeepsCurve`), so the points of the curve stay right. The replay is a
function of the number of fills and candles, and two replays are compared at the
first place where they would differ (`ReplayedToSame`). A forced sale comes after
the last close was marked, while the replay applies it before: without fee and
slippage it sells at the very price that was marked, the equity stays what it
was, and both orders give the same portfolio (`ForcedAgain`).

TLC has confirmed each inductive invariant on an instance before it was proved;
`EvidenceInv` stays a property of the run `Presence`.

### Only model-checked

- Liveness: `PendingIsServed`, `DesiredConverges` (fairness and ENABLED are out of
  the prover's reach).
- `BacktestEngine` (`ReportsAgree`): it compares what the engine left with sums
  over all its fills and with the journal, which sorts them again.
- `ResearchExecution` (`PlansAndReportsAreSound`): that the combinations of a space
  come in textual order is about a sort, and the ratios of a report are sums over
  folds, computed by the library's recursive operators.

## 7. Plan

Every component of section 1 that is modelled has its module and its run; what
is left is proof, in this order:

1. `ReportsAgree`, which needs that sorting the fills again leaves them in
   the order of the run.
2. The parts of `PlansAndReportsAreSound` that say where segments lie and which
   candles they cover; they need the number of folds as a quotient and its rest.

### Not modelled

Each component of `PROJECT.json` that is not or only partly modelled says why; in
short:

- pure data that unit tests with fixed vectors cover better: indicators and
  strategies, candle validation and calendars, candle merging and decimal
  serialization, advanced quality reports, statistics, digests;
- read models without state of their own: market data queries, paper reports,
  dashboards, pagination;
- input and output: HTTP parsing, the exchange client with its rate limits and
  retries, the command line, the web console;
- administration data: single-statement edits that no protocol rests on;
- the backtest registry: publication of finished results, by the same staging
  and renaming that `ResearchExecution` models for research documents;
- time as a number: leases are "has run out", heartbeats that succeed are
  stutters, and clocks that disagree between hosts are left out;
- a transaction that commits although its caller saw an error, except where the
  model is about repeated calls (`OperationalDocuments`).
