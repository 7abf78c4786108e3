# FortBO in TLA+

FortBO is a Bayesian-optimization library in Fortran with the programs that run
it against expensive evaluators: the B5 stellarator benchmark and the Landreman
campaign. This directory holds TLA+ modules of the parts with state and
concurrency, TLC configurations that check them on small instances, and proofs
for TLAPS. Paths below are relative to the repository.

## Inventory

| part | state | operations | interacts with |
|---|---|---|---|
| worker pool, `src/fortbo_workers.f90` | a task slot per worker, counters, cost | dispatch, complete, fail | called by an asynchronous loop |
| trust region, `src/fortbo_trust_region.f90` | center, length, streak counters, active flag | initialize, restart, observe_batch | owned by the driver |
| observation history, `src/fortbo_history.f90` | rows, outcomes, gradients, policies; the checkpoint file | add, add_pending, complete, checkpoint write and read | owned by the driver, feeds the surrogate |
| TuRBO driver, `src/fortbo_turbo_driver.f90` | regions, histories, pending points, best, RNG | initialize, ask, tell, restart_region | composes the two above; called by the bridges |
| completion bridge, `app/fortbo_b5_completion_protocol.f90` | pending slots, counters | ask and tell loop over pipes | the driver, and the B5 or the Landreman runner |
| batched bridge, `app/fortbo_b5_protocol.f90` | one batch | ask, tell a full batch | the driver and the B5 runner |
| B5 runner, `scripts/run_fortbo_b5.py` | futures, records, child process, the ledger | completion-driven and batched runs | the bridges, evaluator threads |
| Landreman runner, `scripts/run_landreman_fortbo.py` | idle list, pending candidates, records; the state of every MPI rank | manager loop, worker loop | the completion bridge, MPI evaluators |
| oracle pair, `scripts/run_b5_oracle_pair.py` | two threads, two children with their workers, an abort event, the pair document | run, watch, terminate, record | the B5 runner and the original control as children |
| reproduction sources, `scripts/fetch_reproduction_sources.py`, `scripts/run_landreman_original.py` | archive, `.part` file, marker, checkout, run root | download, unpack, checkout, prepare, execute | the jobs of `slurm/` that share one source root |
| campaign gates, `scripts/check_*.py` | none | audit a ledger, a pair, the sources | read what the programs above have written |
| selection, stopping, Pareto archive, device policy, placement, trace | small pure or append-only state | see the plan | the driver and the apps |
| surrogates, acquisitions, spaces, benchmark problems | numbers | one-call numeric functions | the driver |

What is hard here is not the arithmetic of one call. It is the order of calls:
answers that arrive in another order than asked, answers that arrive after their
region has collapsed, refused calls that have already changed something, slots
and rows that are used again, files cut short by a crash, processes that each
decide from their own counters what the other will say next, a process that
stops while the others wait for it, and jobs that are killed, run again, or run
over the same files.
`PROJECT.json` lists these hazards with their lines and the properties that
cover them.

What makes each part correct:

- worker pool: no dispatched evaluation is lost or settled twice, retries are
  bounded over the life of a reused slot, every attempt is charged;
- trust region: nothing compared beats the center by more than the improvement
  tolerance, the length moves only after a full streak, a region retires exactly
  below `length_min`, and a stalled one retires in the end;
- history: a surrogate trains only on what was measured at that row, rows keep
  their order, a dispatched row stays answerable, a resumed history is the one
  written;
- driver: no point is lost between regions, geometry and data of a region stay in
  step, the best survives restarts, designs advance together, and the driver
  never tells its caller to wait for nothing;
- bridges and B5 runner: the two loops agree on what comes next, each value is told
  under its own point and recorded with it, a run ends with its ledger or for a
  cause, and no thread and no process outlives it;
- Landreman runner: no rank is given two candidates and none is lost, the ledger is
  what the driver was told, and every rank ends;
- oracle pair: a pair recorded as complete is one and stays comparable, a failed
  one names every side that failed, no child outlives the launcher, and a failure
  of one side ends the pair;
- reproduction sources: what a fetch accepts verifies, a replay is made of the
  pinned archive, and what is refused for good has a known cause.

## Modules

| module | models | composes |
|---|---|---|
| `TaskLedger` | abstract: what the pool and the completion bridge promise, submit and settle once, charge every attempt | |
| `WorkerPool` | `fortbo_workers.f90` | implements `TaskLedger` |
| `TrustRegionOps` | the region's operations as operators on a record | |
| `TrustRegion` | one region placed, fed batches, exhausted, placed again | `TrustRegionOps` |
| `HistoryOps` | the history's operations as operators on a record | |
| `History` | one history with its checkpoint and crashes | `HistoryOps` |
| `TurboDriver` | the driver in completion-driven mode | `TrustRegionOps`, `HistoryOps`, one record of each per region |
| `TurboBatchDriver` | the driver in batch mode | extends `TurboDriver`; `DriverSpec` is both modes |
| `CompletionBridge` | the completion bridge and its two pipes | assumes of the driver what `TurboDriver` shows |
| `CompletionProtocol` | the completion-driven run of the B5 runner, from the start of the bridge to the written ledger | extends `CompletionBridge`; implements `TaskLedger` |
| `LandremanRun` | rank zero and the worker ranks of the Landreman run | extends `CompletionBridge` |
| `BatchedProtocol` | batched bridge and B5 runner joined by pipes | assumes of the driver what `TurboBatchDriver` shows |
| `OraclePair` | the launcher of a pair, its threads, its children and their workers | |
| `ReproductionSources` | jobs that fetch sources into one root and prepare replays from them | |

The two `Ops` modules have no variables: they are what both the component alone
and the driver that owns several of them are built from. `MC*` modules and their
`.cfg` files instantiate the modules for TLC, `*_proofs` modules hold the proofs.
An operator whose comment begins with `mutant:` is the definition that follows
it with a plausible bug; it is used nowhere else.

### How state and actions correspond to the code

- **WorkerPool.** `tasks` is the array of `task_t`; `completed`, `abandoned`,
  `retries`, `totalCost` are the counters. `Dispatch`, `Complete` are the calls of
  the same name; `fail` is `FailRetry` below `max_attempts` and `FailAbandon` at
  it. A refused call returns before it writes and is a stutter.
- **TrustRegion.** The side length is `0.8 * 2^e` and the record holds `e`.
  `Observe` is `observe_batch` for the best entry, in the code's order: `Count`,
  `Resize`, `Exhaust`. `IsBatchBest` is the scan for the best entry with its real
  comparisons: a NaN in front is never displaced. `Improves` asks for a value below
  the center by more than `improvement_tolerance * abs(center_value)`; the tolerance
  is a field of the region, in thousandths, so that the arithmetic is that of
  integers. `Place` is `restart`.
- **History.** A row is input, objective, presence, imputation, outcome, gradient
  and constraint; a gradient is the label of the measurement that produced it.
  `Add`, `AddPending`, `Complete` keep the order of the checks and the partial
  effect of a refused `complete`. A checkpoint is opened, filled and closed as
  three steps, because a crash may come between them.
- **TurboDriver.** `config` is the configuration `driver_initialize` is given, its
  improvement tolerance among it: zero unless the program sets another one, as
  `app/fortbo_reproduction.f90:78` does. `pending` is `pending_points` with `pending_region`,
  `frozenLeft` the rest of the frozen design, `reply` the status of the last
  call. `driver_ask` is `AskDesign`, `AskBandit`, `AskExhausted` and
  `AskNoSurrogate`, one per way it ends; `driver_tell` is `TellAccepted` and
  `TellRefused`, for any pending point. Placement of centerless regions is part
  of the ask that draws from the pool, and observation, collapse and restart are
  part of the tell. A point is the serial number of its ask.
- **TurboBatchDriver.** An ask fills all slots in one step (`Design`, then picks
  from the pool) and a tell takes the whole batch; a batch refused at one row has
  already stored the rows before it (`Taken`).
- **CompletionBridge.** `bridge` holds the loop counters and the place where the
  program is, `slots` is `pending_used`, `pending_id` and `pending_points`,
  `toRunner` and `toBridge` are the pipes. Lines written together and flushed once
  are one message. `BridgeAsk` and `BridgeWait` are the two answers of the driver to
  an ask, the `error stop` paths are `BridgeAskFails`, `BridgeTellFails` and
  `BridgeEndOfInput`. A value is the point it was measured at, so a mix-up shows.
- **CompletionProtocol, BatchedProtocol.** `runner` holds the counters and the place
  of the run loop, `futures` the evaluator threads, `records` the rows in completion
  order. Exceptions lead through `ClosesInput` and `Reaps`, the `finally` block;
  `Finishes` is the rest of `main`. The driver is told the `objective` of an
  evaluation, the ledger records its `minimized_objective` as the value
  (`MinimizedAt`, another number that belongs to the same point), and a failed
  evaluation has neither. `AuditAccepts` is what `check_fortbo_b5.py` checks of the
  rows, their status and value included, and of the peak concurrency, which it
  wants to be the number of workers.
- **LandremanRun.** `manager` is rank zero, `rank` the worker ranks, `work` and
  `results` the messages between them, `ledger` the records. The start (`Barrier`,
  `MakesScratch`, `Builds`, `AllGather`, `StartsBridge`, `StartFails`) is modelled
  because it decides who is left waiting. `ReapsAndStops` is the rest of the
  `finally` block, which also sends the stop messages.
- **OraclePair.** `Preflight`, the two joins, `Loads` and `Records` are the main
  thread; `Starts` to `TimesOut` are `_run_process` and `_terminate` in the thread of
  one side, split where the child can act in between: the look at the process
  table, the signals, the wait. A child writes its ledger in two steps because
  `write_text` is not atomic. `Loads` refuses a ledger that cannot be parsed, or any
  that is there and cannot be read. `CheckAccepts` is `check_oracle_pair.py` up to
  line 70; what it compares of the data of two passed ledgers (71-134) is left out.
- **ReproductionSources.** Files are named by inode, because `.part` is unlinked,
  opened, hashed and renamed by name while another job may have it open. Each system
  call that another job can see is a step of its own; `Killed` may come after any of
  them. `git checkout` writes the files (`WritesFiles`) before it moves HEAD
  (`ChecksOut`), so that a fetch that is killed or fails in between leaves a tree with
  its files, dirty, at the tip of the default branch. `SourceFailures` is `verify_sources` of `check_reproduction_manifest.py`.

## Runs

| run | question | bounds | distinct states |
|---|---|---|---|
| `worker_pool` | are evaluations, retries and cost accounted for when slots are reused | 2 workers, 3 attempts, 3 dispatches, costs 1 and 2 | 6557 |
| `trust_region` | do center, counters and length agree with the batches seen; does a stalled region end | 3 lengths, streaks of 2 and 3, improvement tolerances 0 and one thousandth, batches of 2 of the values -2001, -2000, 2001 and NaN, 1 re-placement | 88822 |
| `history` | what survives adds, dispatches, answers in any order, policies, crashes | 2 inputs, 2 objectives, every policy, 3 calls | 1.78 million |
| `turbo_driver` | the driver in both modes through designs, placements, collapses, with and without an improvement tolerance | 10 configurations of 1 or 2 regions, budgets 6 to 10, up to 3 failures | 1.14 million |
| `completion` | do bridge and runner stay in step and end, with a ledger of what was told | 5 evaluations, 3 workers, a design of 3, refusals and exceptions | 369 thousand |
| `batched` | the same for the batched run | 2 batches of 3, refusals and exceptions | 8870 |
| `landreman` | is no candidate lost or given twice, and does every rank end | 4 evaluations, 3 worker ranks, a design of 2, every failure of the code | 121 thousand |
| `oracle_pair` | is what the pair records true, and does a failure end it | two sides, every failure of a child, a file or the process table | 302 thousand |
| `sources` | do fetched sources verify, is a replay pinned, why is a retry refused | 3 jobs, 3 starts in all, every kill | 2.09 million |

Why the bounds are enough. *worker_pool*: one worker is dispatched twice while the
other is pending, and a slot that used all its attempts is used again.
*trust_region*: with three lengths a region expands to the cap, shrinks to and
below the minimum and is placed again; the two streak lengths differ and exceed
one, so a streak can be broken. The step from -2000 to -2001 is smaller than one
thousandth and the other steps are larger, so that a better value may or may not
count; NaN may stand anywhere in a batch. *history*: three calls are a dispatch, an answer and a further add or
replacement; a checkpoint and a crash may come between any two. Two objective
values, 0 and 1, tell ties from improvements. *turbo_driver*: the smallest region
collapses after one batch without progress (`FailureTolerance` 1, minimum length
the initial one), so a budget of 8 covers design, placement, collapse, second
design and second placement; `MCTurboDriver` names the configurations: two
regions, one region asked while its design is in flight, a frozen design with
failures, batches that divide a design, exceed it, come from a frozen design, and
do not divide it, and three with a tolerance of one thousandth, the driver of
`app/fortbo_reproduction.f90` among them. `maxPending` 2 and 3 let answers overtake each other. Failed tells
bring the huge value into the histories. Under a tolerance three values are
told, so that one step is below it and one above; without one two values tell all
there is to tell, and the action constraint `ValuesMatter` leaves the third out.
*completion*, *batched* and *landreman*: the budget is more than what fits in
flight, so slots, batches and ranks are used again, and every step may be the last
of a process; three ranks are the least with which an idle, a working and a
stranded one exist together. *oracle_pair* has no bound: the two sides are those of
the code and every step happens at most a few times. *sources*: two jobs are enough
for one to unlink, cut or rename the file of the other, and three for a verified
archive to be replaced by one that is cut; a job that is killed and run again
needs two of the three starts and leaves one for a racing job.

`CHECK_DEADLOCK FALSE` stands in every configuration: the programs stop, at the
end of a budget, on an error, or after a crash.

Bounds that the code does not have: `MaxDispatches`, `MaxCalls`, `MaxRestarts`,
`MaxStarts`, and in a driver configuration `failures`. `budget` and `Budget` are
those of the calling program.

### Fairness

`TrustRegion!FairSpec` assumes weakly fair observation: the caller keeps feeding an
active region, as the driver does with every tell. `CompletionProtocol!FairSpec`
and `BatchedProtocol!FairSpec` assume that both processes run and that each
evaluation ends, with a value, an expected failure or an exception. The last is an
assumption on the external evaluator: `_evaluate` calls it directly, the runner sets
no timeout, and an evaluation that hangs hangs the run. No fairness is assumed
between a value, a failure and an exception, nor of the order in which evaluations
end. `LandremanRun!FairRunSpec` assumes the same of the bridge, of rank zero and of
every worker rank. `OraclePair!FairSpec` assumes only that the launcher's own
threads run: nothing of the children, which may compute for ever and ignore a
signal, nor of the disk, which need never fill up. The fetching jobs have no
liveness that the code could owe, a server may always fail; neither have the
drivers, the pool and the history, which answer calls.

## Where the code departs from what the repository says

Each of the first three is a run that TLC refutes, with a finding in
`PROJECT.json`.

1. `turbo_restart_fail`: `restart_region` initializes a history again and so
   returns its missing policy to REFUSE; the first failed evaluation after a
   restart is refused and the bridge stops. `FailuresAcceptedBeforeRestart` is what
   remains true.
2. `turbo_stall`: a batch that completes a design with slots to spare finds no
   region with a surrogate and is refused; the design points drawn for it are
   lost. `DividingBatchesAreServed` shows that batch sizes which divide the design
   are safe.
3. `batched_region`: the batched runner records the slot of a point as its region.

Met while modelling, and part of the models, but without a run of their own.

In the library:

- a point proposed before its region collapsed and answered after it enters the
  fresh history (`fortbo_turbo_driver.f90:959`, where the comment at 1004 says that a
  restarted region has no data); `BatchesRestartFresh` shows that batch mode is safe;
- a replaced row keeps the gradient of the value it replaced when the call brings
  none (`fortbo_history.f90:443`);
- a completion refused for the width of its constraints has already answered the
  row (`fortbo_history.f90:331`); no caller passes a wrong width;
- a slot of the worker pool that is used again keeps the value and cost of its
  previous task until it is completed (`test/test_workers.f90:150-151` looks at
  a fresh slot);
- a batch that opens with a NaN hides every other value in it, where
  `fortbo_trust_region.f90:267` speaks of the best of the batch; `CenterIsIncumbent`
  is stated with that exception;
- a row added with an objective and the outcome FAILED is trained on
  (`fortbo_history.f90:557-559` speaks of failed rows).

In the runs:

- the completion-driven runner refuses a budget below one (`run_fortbo_b5.py:241`),
  not one below its eight workers; such a run never has eight evaluations at a time,
  and the ledger it writes as passed is refused by its audit
  (`check_fortbo_b5.py:124`). `LedgerIsAudited` says that a written ledger is accepted
  if and only if the budget is not below the workers; TLC checks it with five
  evaluations over three workers, `LedgersPassTheAudit` proves it for every budget;
- when the batched runner raises, it closes the bridge's input but does not wait
  for the process; `BothEnd` shows that the bridge ends all the same;
- only rank zero calls `Barrier` (`run_landreman_fortbo.py:504`), which MPI leaves
  undefined: rank zero may block before the run begins;
- a scratch directory or a log that cannot be made, a pipe that breaks and a worker
  whose evaluation directory cannot be made each leave some rank waiting for ever:
  the stop messages are behind the statement that raised. `Stranded` names these
  faults, and `EveryRankEnds` shows that there are no others;
- a finished Landreman campaign is lost if a checkout was changed or the output
  has appeared meanwhile, because both are looked at only after the run;
- the Landreman audit wants the commit of `alpha_opt`, which a tree unpacked from
  the archive does not have; such a ledger is written and refused;
- a side of an oracle pair that leaves half a ledger makes the pair end without a
  document, where `run_b5_oracle_pair.py:416` means to preserve both sides of an
  aborted pair; so does a ledger, of any side, that is there and cannot be read
  (`_load_result`), and a document that cannot be written. `FailedPairsAreRecorded`
  shows that half a ledger is left by a side that failed;
- if FortBO cannot be started, or its thread cannot read the disk usage, the
  original is not stopped until it has ended by itself: the exception waits in its
  future until the original is joined. `FailureEndsThePair` leaves these two out;
- a thread of the pair that cannot read the disk usage leaves its child running.

In the reproduction sources:

- two jobs that fetch into one root share the name of the `.part` file, so that the
  file one has verified need not be the one it puts in place, and with `--unpack` a
  short archive can be certified by the marker; the docstring
  (`fetch_reproduction_sources.py:4-6`) promises verified files. A replay verifies the
  archive again and is safe with two jobs (`ReplaysArePinned`); with three, the
  verified archive can be replaced by one cut short before it is extracted;
- a clone that was cut short is neither completed nor removed, and refused from
  then on, unless its tip happens to be the pinned revision: then a checkout that was
  cut short (`fetch_reproduction_sources.py:191`) is accepted as "reuse only" once the
  required files are there, or at once if there are none, and the manifest check
  refuses it as dirty (`check_reproduction_manifest.py:197`). `FetchedSourcesVerify`
  shows that this is the only source accepted by one and refused by the other while
  fetches come one after the other;
- `ROADMAP.md:1087` says to repeat the preparation with `--execute`; in the same run
  root this is always refused, because the root is no longer empty;
- `slurm/landreman_fortbo.sbatch` puts the cache of `fo` into the run root by
  default, which the preparation then refuses.

## Proofs

TLAPS proves the following for every value of the constants that satisfies the
named assumptions of the modules.

| theorem | says | inductive invariant |
|---|---|---|
| `WorkerPool_proofs!TypeCorrect`, `PoolConserves`, `PoolCountsFailures` | no slot passes its attempts, no evaluation is lost or settled twice, every failure is a retry or an abandonment after the last attempt | each with `TypeOK` |
| `WorkerPool_proofs!PoolBoundsRetries` | every abandoned task has had all its retries and no dispatched one had more, over the whole life of the pool | `RetriesAccounted` |
| `WorkerPool_proofs!PoolImplementsLedger` | the pool implements `TaskLedger` under the mapping in `WorkerPool` | `TypeOK`; each call maps to a ledger step |
| `TrustRegion_proofs!TypeCorrect`, `RetiredExactlyWhenExhausted`, `CenterCorrect` | ranges, retirement, and that nothing compared beats the center by more than the improvement tolerance | `RegionInv`: the type with the retirement clause, because the counters stay in range only for active regions |
| `TrustRegion_proofs!CountersMeasureStreaks`, `ResizesAreEarned` | the counters are the lengths of the streaks of batches that beat the center by more than the tolerance, and of those that do not; no length changes without a full streak | `RegionInv` and `StreakInv` |
| `TurboDriver_proofs!TypeCorrect` | ranges; never more in flight than `max_pending` | `IInv` below |
| `TurboDriver_proofs!CenterFollowsHistory` | the center of an active region is a row of its own history that no usable row beats by more than the tolerance, without a tolerance the earliest best one | `IInv` |
| `TurboDriver_proofs!WaitIsNeverForNothing` | "no surrogate yet" is answered only with points in flight | with `IInv` |
| `TurboDriver_proofs!RefusalsFollowRestarts` | a result is refused only after a restart | with `IInv` |
| `TurboDriver_proofs!BestOutlivesRestarts` | the best is that of all told results | with `IInv` |
| `TurboDriver_proofs!AskedPointsAreAccounted` | every asked point is in flight or told, never both, and charged once | `PointsInv` with `IInv` |
| `TurboDriver_proofs!RegionsKeepTheirData` | a history holds points of its own region, each once, all of them until a collapse | `RowsInv` with both |
| `TurboDriver_proofs!DesignsStayLevel` | designs in progress never differ by more than one point before a restart | with `PointsInv` |
| `TurboDriver_proofs!BatchesStayFresh` | in batch mode every row of a region was asked after its last restart | `BatchInv` |
| `TurboDriver_proofs!DividingBatchesFill` | a batch size that divides the design is always served | `ServedInv` below |
| `History_proofs!SurrogatesTrainOnMeasurements` | what a surrogate is trained on was measured at that row | `HInv` below |
| `History_proofs!DispatchedRowsWait` | a dispatched row stays where it is and answerable until it is answered | `HInv` |
| `History_proofs!BestIsEarliest` | the loop of `best_index` finds the earliest of the best usable rows, or none if there is none | `HInv` for the types |
| `History_proofs!CheckpointsRestore`, `RowsStayInPlace` | a resume restores the checkpoint last completed; no row ever moves or is dropped (action properties) | `HInv` |
| `CompletionRuns_proofs!ProcessesStayInStep` | neither loop ever meets a line it does not expect, and each waits only for what the other owes it | `CInv` below |
| `CompletionRuns_proofs!PointsAreToldOnce` | each value is told once, under the point it was measured at | `CInv` |
| `CompletionRuns_proofs!RunsEndAsTheyDeserve`, `LedgersPassTheAudit` | a run writes its ledger only after the whole budget was told, raises only for a cause, leaves no thread behind; what it writes is what was told, in that order, and passes `check_fortbo_b5.py` if and only if the budget is not below the workers | `CInv` |
| `CompletionRuns_proofs!BridgeImplementsLedger` | the bridge implements `TaskLedger` | `CInv`; each step maps to a ledger step or a stutter |
| `CompletionRuns_proofs!RanksStayInStep` | every worker rank is idle with nothing in its hands or holds one pending candidate, and no line and no result is unexpected | `CompletionRuns_proofs!RInv` below |
| `CompletionRuns_proofs!LedgersOfRunsAreWhatWasTold` | the driver is told what the Landreman ledger records, each row with the value of its own point; a written ledger passes `check_landreman_fortbo.py` if and only if the revisions are known | the same |
| `BatchedProtocol_proofs!LedgerMatches` | every point of a batched run is told once, in the order asked and with its own value, and the ledger is ahead of the driver by one batch at most | `BInv` below |
| `BatchedProtocol_proofs!RunsEndAsTheyDeserve` | a batched run returns only with the whole budget told and recorded, raises only for a cause, leaves no thread behind | `BInv` |
| `OraclePair_proofs!CompleteIsComparable` | a pair recorded as complete passes its check, then and ever after | `OraclePair_proofs!IInv` |
| `OraclePair_proofs!FailuresAreRecorded` | the document names every side that failed; a ledger that cannot be parsed was left by such a side | the same |
| `OraclePair_proofs!NothingOutlives` | no child outlives the launcher that still sees it, and a killed child takes its workers with it; the types | the same |
| `ReproductionSources_proofs!FetchesVerify` | while fetches come one after the other, what is in place is the pinned archive and what a fetch accepts verifies, save a checkout cut short at a pinned tip | `RInv` below |
| `ReproductionSources_proofs!RecordedReplaysArePinned` | while no three fetches run at once, a replay on record was made of the pinned archive | `RInv` |
| `ReproductionSources_proofs!RefusalsHaveCauses` | what is refused for good has one of the named causes | `RInv` |

The argument for the driver. `TurboDriver_proofs!IInv` adds to the type: every
history holds rows of asked points under the policies the driver sets, and its
usable rows measure integers below the imputed worst value and not below its
negative (`HistoriesTyped`, `Measured`); active regions are not below the minimum length
(without this the counter ranges are not inductive); the center of an active
region is a row of its history that none beats by more than the tolerance
(`CentersAreIncumbents`); told pairs are typed; and until the first restart every history
imputes failures. The center clause is preserved because a told value that beats
the center by more than the tolerance moves it, and then beats every row that did
not, while one that does not leaves it (`TurboDriver_proofs!ObservedIsCentered`);
an imputed row stands at the worst value, which beats no center, whatever the
tolerance (`TrustRegionAssumption` keeps values between the worst and its negative).
A placement finds a best row because a design is finished only with a usable one
(`BestExists`, by a least counterexample among integers bounded below,
`LeastAbove`). The wait theorem is a counting argument: a
region that needs no design has its rows and its points in flight reach the
design, and one outside the pool has fewer rows than that.

`PointsInv` is needed because `AskedIsPendingOrTold` speaks of sets: it is kept
only if no point is pending twice and every pending point is filed under the region
that asked it, and it must go on holding in the state a refused tell leaves.
`RowsInv` adds that an active region was placed, without which a collapse would not
begin a new epoch (`CollapseRaisesEpoch`), and that the placement which follows
does not begin another (`PlacingKeepsEpoch`). Points in flight are counted per
region through a bijection of list places and entries (`InFlightOfStep`).

The argument for batch mode. `BatchInv` says that every point of a region, in its
history or in the batch the caller holds, was asked in the present epoch of the
region; it is kept because a batch is told before the next is asked, so that nothing
of a collapsed region is in flight. `ServedInv` adds what makes a batch size safe:
unless the driver has stopped, the design points that all regions together still
lack, those in flight counted, are a multiple of the batch (`DesignsDivide`). An ask
takes a whole batch off that number or finds it zero (`ServingFills`), and then no
region was short before the ask either, so that each one is in the pool
(`SlotsFindRegions`); a collapse adds a whole design, because only regions with a full
one are active (`ActiveAreFull`, `EmptyingDivides`). `Design` is chosen among lists of
slots, and `DesignExists` proves that there is one, the longest that serves the
regions in turn; what a batch makes of a history is a loop, and `LearnedRows` says
what any number of its turns keeps.

The argument for the region. `StreakInv` ties each counter to the run of equal
outcomes at the end of the remembered sequence; the counters alone do not say that
the memory is long enough for the next one.

The argument for the history. `HInv` says the same three things of the history in
memory, of the one in the checkpoint file and of the one the last complete
checkpoint was made of: a waiting row has neither value nor gradient, a gradient is
the label of a call already made, and a usable row is among the measurements. What
is owed are exactly the waiting rows, unless rows are replaced; and a file that is
complete holds what was written. Without the clauses on the file, a resume could
bring back anything. `best_index` is a loop, and what a loop computes is
an induction: it is proved by a least counterexample (`ScanExists`, `ScanTurn`,
`BestIndexIsBest`), for which the first-order provers need only `LeastNat`.

The argument for the completion-driven run. `CInv` follows each candidate: asked and
in the pipe to the runner, pending there and in a thread, answered and in the
pipe back, told. The ledger of the runner orders the answers: what was told is a
prefix of it (`TellsFollowRecords`), a slot is in use for every candidate asked and
not told (`SlotsAreOwed`), the runner waits for what it has read and not recorded
(`PendingIsOwed`). `PipeIsInStep` and `TurnsAreTaken` are what neither program
states and both rely on: the pipe holds the asks not yet read and at most one line
more, and whoever has answers to give does not ask. The two loops count for
themselves, so that each decides rightly what the other will do next only because
`PendingCount` and `Cardinality(runner.pending)` differ by what is in the pipes.
`EndsAreEarned` keeps the cause of every end.

The argument for the Landreman run, in the module of the other run because both rest
on the same lemmas about the bridge. `PInv` says of rank zero what `CInv` says of the
B5 runner; it does not need the workers to fit into the design and the budget, because
rank zero, unlike the runner, records no peak that the audit looks at. But its answers
come from other processes, so `PInv` is kept only if what arrives is the value
of its own point, and this is the second layer, `HInv`: `HandsAreFull` follows each
pending candidate through the messages to a rank, its evaluation and the message back,
and says that one rank and no other has it. It must hold after the loop too, when a
stop is queued behind work that was never taken. `RanksAreReady` says that no rank is
stopped while rank zero is in its loop, without which a candidate could be given
to a rank that is gone. That an idle rank is there when one is needed
(`RunIsNotSurprised`) is counted through the bijection of busy ranks and pending
candidates (`HandsTally`).

The argument for the batched run. `BInv` compares two processes that count the same
candidates at different moments: `Owes` says that the runner has read a batch which
the bridge has not been told, and then its counter, its rows and the lists of the
driver differ by exactly one batch (`CountersAgree`). That is inductive only with the
turns (`TurnsAreTaken`: one line at most is on its way, and it says whose turn it is)
and with the budget being whole batches (`WholeBatches`), without which the last batch
would pass it. The results of a batch are collected in any order; that a full
collection holds every candidate of the batch is a counting argument
(`CollectedFit`), and that each is written under its own place needs that none is
collected twice (`BatchIsCollected`).

The argument for the sources. `RInv` is three layers: with one fetch at a time
everything in place is whole (`OneFetch`); with two, the second can only be behind
the first, so the file that is put in place once more is not cut
(`TwoFetches`); with any number only the paths of each job and its own root are
known. `OneFetch` also says that a checkout in progress is a clone at its tip, and
one that is finished whole and clean. `FetchesAreCounted` bounds the fetchers that run by the history variable
`together`, which the hypotheses of the properties speak of.

The argument for the pair. `ThreadKnows(s)` says what the thread of a side can
conclude of its child: a thread that returned has seen it end well, one that
raised leaves a running child only after a failed poll, a child that ended well
has no half ledger, and a killed one has no worker that was seen. `MainKnows` says
what the main thread has joined and read: whoever is joined is in `errors` exactly
if it raised, and without errors the documents and digests are those on disk. The
second needs the first: nothing writes between `Loads`, `Records` and the check
because both children have ended. Each step is of one side or of the main thread;
`OtherSide` and `SettledStays` say what it leaves alone.

Assumptions used: `PoolAssumption`, `TrustRegionAssumption` (values are integers
between `-Huge` and `Huge`, NaN is no number; tolerances are natural numbers), `RegionAssumption`, `DriverAssumption`
(the configurations `driver_initialize` accepts), `HistoryAssumption` and
`CallersAssumption` (callers pass the outcomes of the module and constraint vectors
of the right width; what a wrong width does is among the departures above),
`BridgeAssumption` and `ProtocolAssumption` (no more workers than the
initial design: eight against the 40 or 160 of the runner; the budget may be any,
below the workers too; no proof about the Landreman run cites it, nor
`RunAssumption`),
`BatchedAssumption` (a batch divides the budget, refused otherwise too) and
`SourcesAssumption`. TLC evaluates each of them in a run.

The theorems of `TurboDriver_proofs` are about `Spec`, the completion-driven mode,
except the two about batches, which are about `DriverSpec`; what the others say is
model-checked in batch mode;
those of `CompletionRuns_proofs` about `Spec`, the B5 run, except the last two, which are
about `RunSpec`;
those of `OraclePair_proofs` are about `Spec`, with and without `SystemFails`; the
others about the `Spec` of their module, which its fair specification implies.
Every safety property of a passing run is proved. Only model-checked is liveness
(`RunEnds`, `BothEnd`, `EveryRankEnds`, `FailureEndsThePair`, `EveryRegionExhausts`),
which is out of the prover's reach with fairness.

## Plan

In order of importance:

1. *done*: `WorkerPool`, `TrustRegion`, `History`, `TurboDriver`, `CompletionProtocol`,
   then `TurboBatchDriver`, `BatchedProtocol`, and their proofs.
2. *done*: `CompletionBridge` taken out of `CompletionProtocol` and composed with
   `LandremanRun`; the ledgers of both runs against their audits.
3. *done*: `OraclePair` with its proofs, `ReproductionSources`.
4. *done*: proofs of every safety property of `WorkerPool`, `TrustRegion`, `History`,
   `TurboDriver`, `TurboBatchDriver`, `CompletionProtocol`, `LandremanRun`,
   `BatchedProtocol`, `OraclePair` and `ReproductionSources`.
5. The driver's promise as an abstract module that `TurboDriver` implements and
   `CompletionBridge` is composed with, in place of the assumption now stated in
   its comment.
6. Algorithms as operators, one run: selection without replacement
   (`fortbo_turbo.f90`), the ratio update of `fortbo_dturbo.f90`, the stopping
   rules, the Pareto archive against the definition of a front, placement and
   device policy.

## Not modelled, and why

Surrogates, acquisitions, search spaces and the benchmark problems are functions
of real numbers without state of their own: the driver is modelled with any
choice they could make. The generated kernels and the facade re-export them.
Selection, derivative TuRBO, stopping rules, Pareto archive, device policy,
placement and the run trace are pure or append-only and come last in the plan.
Of the reproduction programs, `app/fortbo_reproduction.f90` is a loop of asks and
tells around the driver and is a configuration of `turbo_driver` (`Reproduction`:
batch mode, one region, batches of one point, an improvement tolerance of one
thousandth); its objective, its files and its output are left out, and so are the
simulated delays of `run_fortbo_reproduction.py` and the reference region of
`landreman_reference.py`. The others and the shell wrappers read, compute and write
once. Of the campaign gates, those that read what a modelled program writes are
predicates of its module; the comparison of campaigns, the check of a trace and
the static checks of drivers and manifests read finished files and have no state.
A user who puts a wrong archive into the source root by hand gives its fetches a
cause of refusal that `RefusalsAreExplained` does not list; the model begins with an
empty root.
What the runners do before the first process is started, the parsing and checking
of arguments, is left out; a refusal there changes nothing. `PROJECT.json` lists
every part with its status.
