# TRD BOT: verification project

TRD BOT is a research and market-data service: a FastAPI application over
PostgreSQL, with background workers that execute durable jobs. This directory
holds TLA+ models of its state machines, TLC configurations that check them on
small instances, and TLAPS proofs of their main safety properties for every
value of the constants. Paths below are relative to the repository; `trd_bot/`
stands for `src/trd_bot/`.

1. Inventory · 2. Modules and the code · 3. Runs · 4. Bounds · 5. Fairness and
deadlock · 6. Proofs · 7. Known divergences · 8. What is not modelled · 9. Plan

## 1. Inventory

### The parts, their state and their operations

| Part | State | Operations | What makes it correct |
|---|---|---|---|
| **Background job queue**: `trd_bot/jobs.py`, `trd_bot/db/background_job_repositories.py`, `scripts/run_background_worker.py`, `trd_bot/api/routes/jobs.py` | table `background_jobs`: status, attempts and their limit, progress, lease owner and expiry, `run_after`, cancel flag, result or error | enqueue/stage, claim_next, heartbeat, succeed, fail, request_cancel, retry_failed; the worker's run_once loop | one runner per attempt; a lost lease fences the worker off; attempts bounded; cancellation sticks; every job ends |
| **Job handlers**: `trd_bot/api/job_handlers.py`, `trd_bot/api/background_jobs.py` | none of their own; progress is in the job row | enter, report, return, raise; fail the execution in the last attempt | the execution behind a job ends with it and survives a repeated attempt |
| **Durable executions** (experiment, walk-forward, optimization): `trd_bot/research/*_execution_runner.py`, `optimization_worker.py`, their state machines and repositories | one JSON record per execution: status, progress, checkpoints or trials; the registries of results | submit with the job, load or resume, save a stage, record a fold or a trial, succeed, fail, fail_active | success is backed by stored results; checkpoints survive; an ended record stays ended |
| **Market-data stream**: `trd_bot/db/market_data_{ingestion,finalization,replay,event_repositories,polling}.py`, `trd_bot/market_data/{events,storage,replay,finalization,ingestion}.py` | append-only watermark versions, window versions, inbox receipts, decisions, outbox, replay requests, revisions | ensure and advance the watermark, ingest a candle, finalize eligible windows, request and apply a replay | the watermark never moves back, a final window changes by an explicit revision only, the journal agrees with the windows |
| **Provider polling**: `trd_bot/db/market_data_polling.py`, `trd_bot/market_data/{polling,service_levels}.py` | token bucket per provider, poll runs | connection check, acquire a request, call, fall back to the second route, save the run | the request budget holds among all workers; a limited poll is retried |
| **Watchlist and scheduler**: `trd_bot/db/market_data_polling.py`, `trd_bot/market_data/polling.py` | watchlist entries: columns and a JSON document | create, pause, resume, enqueue_due | the schedule leaves no backlog; the two copies agree; no job is refused for its slot |
| **Retention**: `trd_bot/db/market_data_retention.py` | holds, a control row, audits; deletes from nine tables of the stream | place and release a hold, run a purge (dry run or execute) | a hold stops deletion; nothing still needed is deleted |
| **Candidates**: `trd_bot/research/candidate_*.py`, `position_monitoring.py`, `risk_policy.py`, `dataset_replay*`, `trd_bot/db/candidate_*`, `simulated_portfolio_repositories.py` | simulated portfolios with positions, candidate journal, candidate projections | generate, rank, approve, fill, watch, close; record a lifecycle; rebuild the projections | a trade loses no more than its budget; lineage resolves; the projections are those of the journal |
| **Paper portfolio**: `trd_bot/paper/portfolio.py` | an immutable snapshot of cash, positions and a timeline | open, mark, close, complete | money is neither made nor lost |
| **Alerts**: `trd_bot/alerts/*.py`, `trd_bot/db/alert_*.py` | rule versions, evaluations, alerts, publication decisions, inbox states, actions, policies, expiries, simulations, outcomes | stage a rule or policy, enqueue and execute an evaluation, publish or suppress, acknowledge, snooze, sweep; simulate and judge | rows can be read back; deduplication and cooldown; the filters partition the alerts |
| **Outcome learning**: `trd_bot/outcome_learning.py`, `trd_bot/db/outcome_learning.py` | none (a review is computed) | read, statement by statement; derive; validate | the counts of a review agree unless its rows change while it reads |
| **Market context**: `trd_bot/market_context/*.py`, `trd_bot/db/market_context_*.py` | manifests, feature snapshots, regime assessments, evaluation jobs | align, compute, classify, view, monitor | only inputs finalized before the request; the monitor agrees with the product view |
| **Decision intelligence**: `trd_bot/decision_intelligence/*.py`, `trd_bot/db/decision_*.py` | policies, intents, the evidence of four stages, evaluation jobs | stage, enqueue, evaluate, read the detail | one valid chain of stages; caps respected |
| **Database schema**: `alembic/versions/*.py`, `trd_bot/db/models.py` | tables, keys, references, checks; rows of every release | upgrade, downgrade | the head is what the models declare; old rows stay valid |
| **Monitoring** | collector checkpoint and runtime state | collect, checkpoint | no gap and no double count |
| **API, frontend, capacity and release tooling** | none that other parts share | requests, rendering, scripts | - |

`PROJECT.json` lists each with its files and whether it is modelled.

### How they interact

- The API stores a job and, for research work, its execution **in one
  transaction**; from then on only a worker touches them.
- Workers are separate processes. They share nothing but the database, so the
  interaction is row locks, unique keys and what a READ COMMITTED statement
  sees. A job's handler calls back into the queue (heartbeat) between the
  transactions of its own work; those transactions do not look at the lease.
- A scheduler process turns due watchlist slots into poll jobs. A poll job
  writes the stream (ingest, advance, finalize) and takes requests from the
  budget; a replay job writes the same windows; the purge deletes from all of
  those tables under a control row that no job takes.
- Finalized windows are the input of market context; its assessments are the
  input of alerts and of decision evaluations. Each of the three is a job of its
  own whose transaction reads what the others have committed.
- A successful experiment is handed to the candidate application, which is
  deterministic, and its lifecycle is recorded with the projections rebuilt in
  the same transaction. Decision evaluations read the portfolios saved there.
- The operator cancels and retries jobs, places holds, pauses watchlist entries,
  acts on alerts, supersedes policies and rebuilds projections at any time.

### What is hard

- *Lease expiry*: a worker may be late, not dead, so two workers run one job.
- *Locks and stale reads*: `ORDER BY version DESC LIMIT 1 FOR UPDATE` on an
  append-only table returns the row it chose before it waited; watchlist, alert
  and portfolio rows are read without a lock and decided upon later. A clock is
  read before the lock or the row it is compared with: a worker may bring an old
  time to the bucket, and a window becomes visible after the time it is stamped
  with.
- *Readers of several statements* (summaries, reviews, monitoring, the detail of
  an evaluation): each statement sees what was committed until then.
- *Crashes* between any two transactions, with progress and checkpoints kept.
- *Late, repeated and contradicting provider answers*, against a watermark that
  other workers are advancing, followed by replays of the same window.
- *Retries*: of the job, of an attempt, of a transaction after an
  `IntegrityError`, by hand after the budget was spent, and of an evaluation
  that takes nothing stamped after its request.
- *Purges* that select a batch first and delete by key later; *rebuilds* that
  delete everything and write it again.
- *Validators*: every contract is checked again when a row is read, so that two
  parts of the code that disagree about a record make it unreadable.
- *Rows of old releases* under a schema that moves up and down.

The hazards, each at its line with the properties that cover it, are in
`PROJECT.json`.

## 2. Modules and the code

```
JobLifecycle  <--implements--  BackgroundJobQueue      (queue with locks, calls, clock)
     ^ EXTENDS
JobHandler -> DurableExecution -> ExperimentExecution
                               -> WalkForwardExecution
                               -> OptimizationExecution
WatchlistSchedule     (slots of a watchlist entry)
ProviderPolling       (budget and routes of a poll)
MarketDataStream      (ingest / advance / finalize / replay as statements)
MarketDataRetention   (holds and purge beside the stream's transactions)
MarketContext -> MarketContextJobs
              -> DecisionContracts -> DecisionPipeline
AlertContracts -> AlertCenter, AlertOutcomes
PaperPortfolio -> CandidateReplay -> CandidateRecords
Rounding              (half-even; below AlertContracts and PaperPortfolio)
CandidateRecorder     (lifecycle transaction and rebuild)
SchemaRevisions -> SchemaModels -> SchemaMigrations
```

`MC*.tla` give instances to TLC, `*Proofs.tla` hold the theorems. A definition
with a comment *Mutant of ...* is a deliberately wrong form of its neighbour; no
specification uses it. It shows that the property named for it in `PROJECT.json`
notices such a bug. Several components that share the form of their question are
checked in one run: the MC module chooses with the initial state which of them a
behaviour is about (`part`, `kind`) and leaves the others' variables alone.

**BackgroundJobQueue.** A repository call is up to three steps, as in the code:
read the clock (`Begin`), take and read the row (`LockRow`, or `ClaimSelect`
with `SKIP LOCKED`), write and commit (`...Commit`). `job` is the table, `lock`
the row locks, `call` what each session is in the middle of, `run` the
`BackgroundJobContext` a worker is executing. Time is relative: a row stores how
far its `run_after` and lease are away, and a call carries the age of the clock
it read. `Crash` drops a worker's run and its transaction. Payload and result
are opaque.

**JobLifecycle.** The same operations as atomic steps without locks, copies or
clock: what the queue promises. The queue is checked and proved to implement it
(`AtomicLifecycle`; `TimelessRows`, the rows without their times, are its
`row`), and the execution modules use it as *their* queue, which is what keeps
them small.

**JobHandler, DurableExecution.** `pc` is the point a worker has reached in its
handler. `Report` is `context.heartbeat`, with its three outcomes (accepted,
lease lost, progress moved back); `ReportClamped` is the handlers' own
`report_progress`. `Lapse` lets a lease expire under a worker that is still at
work, at most `MaxLapses` times. An execution record is its status and the work
done (`done`: percentage, folds or trials); `Save` stores a runner's copy and
compares nothing, as `save` does. `Broken` is an infrastructure error at any
step, `Crash` the loss of the worker.

**ExperimentExecution, WalkForwardExecution, OptimizationExecution.** The stages
of the three runners in their order, with every progress report, cancellation
check, save and error path. Computation is a step that succeeds or fails.
`OptimizationExecution` differs where the code does: it reports progress without
raising it to what the job shows, and `fail_active` may see the session's own
copy (`SessionRecords`).

**MarketDataStream.** `watermarks` and `versions[w]` are the append-only tables,
`journal[e]` the receipt and decision of an event, an event being a window with
the checksum of its payload. Every locking read is two steps, *Seek* chooses the
version and *Lock* obtains that version's lock, so that the row can be out of
date when it is returned. What a transaction inserts appears at its commit; a
unique-key conflict makes it start over once (`Retry`) or fail. Abstracted: clocks and
`calculated_at`/`finalized_at`, open candles (filtered before ingestion), the
outbox and delivery counters, the identity of an observation and the
exact-retry path that returns a stored result. Lateness is counted in candles,
rounded up. An insert that waits for another's uncommitted key is modelled as
the conflict it meets at commit; a replay's own `IntegrityError` retry as the
replay started again. The limit of 100 windows per finalization is not reached.

**ProviderPolling.** One attempt: connection check, token bucket, call, second
route, stored run. One request is `TokenTicks` units and one unit is refilled
per tick, which is the code's fraction of a token. `started` is the time the
worker read *before* it waited for the bucket, and `MaxDelay` how long it may
wait. `overtaken` counts the acquisitions that brought a time before the stored
one, which sets the row back; it serves the property only, as the time of a grant
does. Refusals before the first route change nothing and are not actions. What
ingestion does with the candles is `MarketDataStream`.

**MarketDataRetention.** One stream with one window. The jobs' transactions are
one step each (their interleaving is `MarketDataStream`'s subject); the purge is
two, `PurgeSelect` and `PurgeCommit`, with the other transactions in between,
and the control row is held throughout (`running`). All ten scopes fill one
batch in order and share `Limit`; the order of rows of equal age is any. A
content is ingested as new once; watermark version 2 and later have passed the
window. The cutoffs use the clock at the selection. Of the audit table the last
outcome is kept. Nothing in the repository consumes the outbox, so `Deliver` is
an external action.

**WatchlistSchedule.** `row` is the entry twice, as columns and as the JSON
document, because the code keeps it twice: the scheduler selects by the columns,
everything else reads the document, and a flush writes the columns that differ
from what the session loaded but always the whole document. An operator's call is
its statements: pause and resume read the row, then the clock, then the row again
in `stage`; `create` reads the clock and then the row; each ends with a flush that
waits for a scheduler's lock. A scheduler holds the row from `SelectDue` to
`Enqueue`. `Poll` is what the poll runner refuses before it tries a route. The
routes of an entry and their validation are left out.

**MarketContext, MarketContextJobs.** The contracts are operators: alignment,
coverage, manifest, features, regime votes, view and stream health, with their
validators. `MarketContextJobs` is the state machine around them: windows are
finalized and corrected (`MarketDataStream` seen from outside; a window is stamped
with a clock reading that lies before the step that makes it visible), an evaluation
is requested, an attempt reads the windows of each timeframe with a statement of its
own and later commits all rows at once, is cancelled, refused, retried or killed. The
monitoring reader is its clock reading and five statements, with the limits of
`_MAX_RECORDS` rows and `_MAX_STREAMS` streams; identities order what bears the same
time, and as they are digests their order is a parameter. A checksum is the content it is
computed from. Feature formulas are reduced to a slope and a volatility in whole units.

**DecisionContracts, DecisionPipeline.** The four stages (strategy evaluation,
candidate ranking, risk gate, portfolio simulation) with the validators of what
they produce; and the jobs: `Claim` computes three stages from immutable rows,
`Analyze` reads the portfolios, `Commit` writes all rows. A worker whose lease
expired goes on beside its replacement (`Expire`); the unique keys stop one.
Policies are superseded, strategies deployed and portfolios traded in between; a
portfolio bears the time of its last candle, which may lie before the step that
stores it. A reader assembles the detail in five statements. What a strategy signals on
a dataset is given (`Generates`).

**AlertContracts, AlertCenter, AlertOutcomes.** Contracts with their validators;
the center (rule versions, evaluation jobs, publication, inbox, expiry), whose
workers decide on what they read and write it later; and the offline part:
simulations, outcomes, the outcome summary of two statements and the
outcome-learning review of six, each of which sees what was recorded until then;
candidate journals and decision evaluations are rows that appear meanwhile. The
statements whose results no check compares (average return, overdue simulations,
portfolios) are left out. One rule and one stream; texts and identifiers are left out.
`concurrent` remembers that two evaluations were open at one time.

**PaperPortfolio, CandidateReplay, CandidateRecords.** The ledger, whose
operations carry amounts that its validators add up anew; the replay, from the
signals of an experiment over candidates, ranking, risk policy, fill and
candle-by-candle monitoring to the exit, for *every* dataset of the bounds; and
the records handed on, where a copy is modelled by its origin and a validator by
the facts that make the copies agree. Every amount the code passes through
`quantize_money` (notional, fees, gross result) is rounded half-even to a multiple
of `Quantum`; prices are finer than that, so a loss can reach the budget by rounding
alone. Budgets are rounded and quantities cut to their unit where the code does it; a
division that `Decimal` ends at 28 digits is taken as exact. One position is open at a
time, as in the application.

**CandidateRecorder.** The recording transaction statement by statement
(portfolio, journal, rebuild: count, list, delete, get and save each projection)
for workers and the maintenance command, with READ COMMITTED visibility, the
waits for rows another transaction deletes or writes, key conflicts, crashes and
retries.

**SchemaRevisions, SchemaModels, SchemaMigrations.** The thirty-six revisions as
lists of table operations in both directions; the mapped classes of `models.py`
in the same vocabulary; and a database that is moved along the chain while it
holds rows: which rows a revision converts, creates or refuses, and when an
upgrade or a downgrade fails. A kind of row stands for all rows of its sort.
Column types and plain indexes are left out.

## 3. Runs

Twelve runs; `PROJECT.json` gives the properties of each and, for every property
of a passing run, a plausible bug it catches.

| Run | Question | Bounds | Distinct states |
|---|---|---|---|
| `job_queue_safety` | Do locks, leases, crashes, cancellation and retries leave the rows valid, one runner per attempt, stale workers rejected, cancellations kept, attempts bounded, and does the whole behave as `JobLifecycle`? | 2 workers, 1 operator, 1 job; 2 attempts, hard limit 3, lease 1 tick, 1 tick during a call, 1 crash | 247 000 |
| `liveness` | Does every accepted job end, and does every poll and replay of a stream end (no lock cycle, no lock left behind)? | queue: 1 worker, 1 operator, 1 job, 2 crashes; stream: 2 workers, 2 payloads, 2 windows, 2 answers | 112 000 |
| `durable_executions` | Is success backed by what the registries hold? While leases hold: do ended records stay, does progress never move back, is at most one fold or trial repeated, do job and execution agree? | 2 workers, 1 job; experiments: hard limit 3, 1 crash, 2 lapses; walk-forward: 3 folds, hard limit 4, 2 crashes, 1 lapse; optimization: 2 trials of 2 folds, 3 attempts, 2 crashes, 1 lapse | 2 930 000 |
| `optimization_reclaim` | *Violation*: a reclaimed optimization goes on from its trials. | 2 trials of 2 folds, no lapse, 1 crash | - |
| `stream_safety` | Do the watermark, the windows, the journal and the replays stay consistent with two workers on one stream? | 2 workers, 2 payloads, 2 windows, 3 provider answers | 911 000 |
| `polling_budget` | Does the budget hold in every interval among all workers, up to what overtaken workers are refilled again, and is a limited run retried? Does the schedule leave no backlog and no job that is refused? | 2 workers, 2 providers, burst 1, 1 tick per request, a clock reading up to 1 tick old, clock 2; 2 schedulers, 2 operators, 3 calls, clock 3, interval 2 | 4 490 000 |
| `stored_data` | Does a hold stop deletion, does the newest window survive, is the lineage of a pending replay kept? Is the head what the models declare, what blocks a downgrade, do old rows satisfy new code? | 1 event with redelivery, batches of 2 rows, 4 days, 1 manual retry; all 36 revisions, 14 kinds of rows | 2 830 000 |
| `retention_stranded` | *Violation*: the purge of a replay's rows converges over several batches. | batches of 1 row, 3 days | - |
| `alerts` | Can every row be read back, do windows and cooldowns hold, are outcomes judged once and counted once, when is a review refused? | center: 2 workers, 2 assessments, 2 rule versions, clock 3, 2 evaluation jobs, 2 acts on alerts or 1 policy; summary: 2 alerts, 4 price paths, horizon 1; review: 1 simulation, 2 journals of 2 ends, 1 evaluation of up to 4 stages | 1 890 000 |
| `decisions` | Context: are the committed rows valid chains, what can a retry take, does the monitor agree with the product view? Decisions: is the evidence a valid chain, what does a reader of the detail miss, did what was accepted respect the caps? | context: 1 stream, 2 timeframes, 3 windows to come and a correction, 1 job of 2 attempts; monitoring: 2 streams, 2 jobs, limits of 1 row and 1 stream; decisions: 2 workers, 5 strategies on 1 dataset, 2 assessments, 1 policy, 1 intent, 2 attempts, portfolios in the mode of the request and in another, traded once under any candle since | 677 000 |
| `candidates` | Does the ledger balance, is the loss bounded, what makes the lifecycle raise, does the lineage resolve, does a rebuild heal? | ledger: 2 positions, 5 instants, products rounded to tens; replay: all datasets of 4 candles of 4 shapes with an entry and a fill candle; recorder: 2 workers, the maintenance command, 3 lifecycles, 2 attempts | 1 100 000 |
| `candidates_reachable` | *Violation*: a candidate's position can be reached. | 3 lifecycles, two with one portfolio ID | - |

All passing runs together take every action of every module.

What they show beyond the single operations:

- A worker that comes back after its lease was reclaimed finds every one of its
  three reports rejected, also when the row is locked or changed between its
  clock reading and its write. The same worker's writes to the *execution
  record* are not fenced: see section 7 for what follows and for what holds
  nevertheless (`EverySuccessIsBacked`, whatever lapses).
- `ResumeLosesOneStep` counts the work: computed folds (executed trials) never
  exceed the stored ones by more than one per attempt.
- In the stream a decision may be taken on an old watermark (section 7), and
  still: watermarks only grow, no final window is touched by ingestion, the
  journal names the version each accepted event became, and of the replays of
  one version only one is applied. These follow from the unique version numbers
  and from checking at commit, not from the lock on the latest row.
- The purge cannot delete what the *first* run of a requested replay needs,
  whatever the limit cuts, since a request is selected only once its job has
  ended and the request's decision only with it.
- `RowsReadable`, `ContextRowsSound`, `EvidenceSound` and the records part of
  `OnlyUnplannedReversals` are about builders and validators written apart: no
  order of evaluations, operator acts, crashes and reclaimed attempts makes one
  produce what another refuses. The one refusal there is, of a review whose
  counts contradict each other, needs a row recorded between the two statements
  that count one area: drifted outcomes, exit reasons or stage totals
  (`ReviewFailsByRaceOnly`). The summary of outcomes is not refused; a simulation
  judged between its two statements is counted by neither (`OutcomesSound`).
- `WithinBudget` says how far the shared bucket is off: every acquisition by a worker
  that was overtaken while it waited sets the row back, and refills again at most
  what it waited for. A single worker is never overtaken.
- `RetryTakesNoLaterWindow`: a job that waits for missing inputs is served only by a
  finalizer that had read its clock before the request and was late to commit.
- `LossBounded` shows that the portfolio-risk directive hardly ever decides in the
  application: the invalidation price is tested first, and the quantity puts the
  whole budget's loss at that price. Only a close short of the stop whose loss is
  rounded up to the budget makes it the exit.
- `OnlyExitReasonsBlock`: of everything a release can have stored, only
  candidates with exit reasons that revision 9 added stop a downgrade.

## 4. Bounds and why they are enough

- *Two workers* are what a race needs; no action involves a third one, except
  where a maintenance command is a process of its own. Workers are
  interchangeable, so they are a symmetry set in the safety runs (not in the
  liveness run, where symmetry is unsound).
- *One job per queue*: jobs share no state but the workers; a worker holds one
  at a time. The proofs cover any number.
- *Attempts*: 2 by policy and a hard limit of 3 (4) give an automatic retry, a
  spent budget, a manual retry and a refused one.
- *Crashes, lapses*: one crash (two where resuming is the point) and enough
  lapses for two live workers on one execution, for experiments three.
- *Clock*: relative timers with `MaxAge` = 1 let a lease expire between the
  clock reading and the lock. The purge's 4 days pass every retention time of
  the instance (1 or 2 days), one after the other.
- *Stream*: with 2 windows and lateness 1 a window is provisional, behind the
  watermark, final and revised; 3 answers with 2 payloads give a redelivery, a
  conflict, a correction and two competing replays of one version. Three windows
  with three answers exceed 15 million states and are left to the proofs, which
  assume no bound.
- *Polling*: the clock passes two refills, and a reading one tick old lets a worker be
  overtaken by one that refills the bucket in between, which is the case the bound of
  `WithinBudget` allows for. The schedule's clock passes one missed slot, and three
  calls are two that overlap on an entry a third one created.
- *Retention*: a batch of 2 rows is cut inside and between the scopes.
- *Alerts*: two assessments an hour apart under two rule versions, one with a
  cooldown longer than the deduplication window; clock 3 passes both and the
  life of an alert. The operator acts on alerts twice (acknowledge and snooze in
  both orders) or sets quiet hours once (`OperatorActs`).
- *Context*: the three windows still to come make inputs missing, late, corrected, and
  visible after the request with an earlier time. Of the monitored streams each has
  its windows; the limits of one row and one stream make the newest rows those of the
  other stream, and a known stream hidden. `Punctual` bounds that part: no cancellation,
  requests at their boundary, and a second boundary and attempt for one stream only.
- *Decisions*: the strategies of the instance are one that is accepted, a
  neutral one, one without a plan and one beyond the risk cap; portfolios are
  absent, flat, or hold the same asset, and are recorded with the time of any earlier
  candle. The reader is in a part of its own, as its five statements multiply the
  states.
- *Candidates*: four candles are signal, fill, watch and end of data; the shapes
  touch the stop, the target, both sides of the entry and nothing, and one closes
  where the loss is less than the budget but rounds to it. A longer dataset repeats
  the watch. In the ledger the price 805 makes a product that is a tie, so that a
  rounded amount is not the sum of rounded parts.
- *Schema*: the whole chain, without a bound.

Named bounds in guards: `MaxAge`, `MaxCrashes`, `MaxLapses`, `HardLimit`,
`MaxPolls`, `MaxWindow`, `MaxClock`, `MaxDay`, `MaxTime`, `MaxHour`, `MaxDelay`, `MaxCalls`,
`MaxWatermarks`, `MaxRetries`, `Redeliveries`, `MaxVersions`, `MaxPolicies`,
`MaxActions`, `MaxJobs`, `MaxVersion`, `MaxIntents`, `MaxMoves`,
`Punctual`, `OperatorActs`, `OneSimulation`, `MaxPositions`, `MaxRank`, `MaxAttempts`.

## 5. Fairness and deadlock

*Queue* (`Fairness` in `BackgroundJobQueue`): workers poll in a loop and their
handlers are finite code; a worker in a run therefore ends it even though its
heartbeats keep changing the row (strong fairness of succeed/fail), a locking
read is granted some time (PostgreSQL queues the waiters of a row; strong,
because others may take the lock in between), `SKIP LOCKED` finds the row free
some time, and the clock goes on. Nothing is assumed of operators or crashes;
`EveryJobFinishes` is stated for the time after the last operator request,
because requests that keep the row locked may make `SKIP LOCKED` pass it over for
ever.

*Stream* (`Fairness` in `MarketDataStream`): a statement that can run does run. No poll or replay has
to start, and crashes are not excluded.

`MCLiveness` checks the two in one run: a behaviour is one of the queue or one of
the stream and is fair to the steps of that one.

No fairness is assumed elsewhere. `CHECK_DEADLOCK FALSE` is set where the system
may really stop: when all jobs have ended and the operator's or the provider's
bounded inputs are used up. The queue never stops, its workers poll, so
`job_queue_safety` checks for deadlock.

## 6. Proofs

All for any number of workers, jobs, windows, payloads, providers, lifecycles and
events and for any policy values that satisfy the `ASSUME`s next to the constants
(valid policy bounds; markers such as `NoOne` outside the sets they are added to;
positive lateness and window count; ordered retention times; natural prices,
quantities and fees and a positive quantum of money; for the replay a fee of at most the
rounded amount it is charged on, as
`fee_rate` is below one, `trd_bot/paper/portfolio.py:217`; bounds that are natural
numbers).

**Queue** (`BackgroundJobQueueProofs`): `TypeCorrect`, `SingleRunner`,
`LeaseFence`, then `StoredRowsValid`, `CancellationKept`, `BoundedAttempts`,
`StaleWorkersRejected`. `OneRunnerPerAttempt` is not inductive by itself: a
write acts on a copy of the row read one step earlier. The inductive invariant
`IInv` adds `LockInv` (the holder of a row lock is in a locking call on that row
and its copy is current), `CallInv` (who may be in which call), `RunInv` (a
running attempt was counted on its row) and `AbsentInv`. With it every commit is
shown to be a function of the *stored* row (`RowChanges`), and the row properties
follow from one lemma about those functions (`RowGoodStep`); the two-step calls
do not appear in them any more. That is also the argument by which the stale
worker is rejected: ownership is compared under the lock, and the lease owner's
attempt is the row's attempt (`LeaseMatchesAttempt`).

`QueueImplementsLifecycle` is the refinement: initial states map to initial
states, and under `SimInv` (`IInv`, the valid rows, and that a row not yet stored
has no budget) every commit is one action of `JobLifecycle` on the stored row,
while readings of the clock, locks, waits and rollbacks are stutters. So the
execution modules may be read over the real queue: a behaviour of it is, without
locks and clock, one of theirs.

**Experiment executions** (`DurableExecutionProofs`, `ExperimentExecutionProofs`):
`ExecutionTypeCorrect` and `SuccessIsAlwaysBacked`, which hold through any number
of lapsed leases; `SuccessesAgree`, `EndedIsKept` and `ProgressIsMonotone`, which
hold until a first lease lapses. A runner stores its whole copy, so everything
depends on what the copy can be at each label. `DurableExecutionProofs` says so
once for all runners: `RecordInv(working, done)`, where the two sets are the
labels at which a runner works on a running record and those after its success,
has the handler's invariant (`HandlerInv`: until a first lease lapses a worker
that has a run owns its row), the status the copy has at each label (`Fitting`),
and, until then, that the copy is the stored record (`CopyInv`). Ownership makes
the last part inductive: a save of one worker could only spoil the copy of
another one on the same job. `Kept` is what every step then does to the records.
Each step the runners share has a lemma there, and `ExperimentExecutionProofs`
adds what is its own: a percentage that fits the status (`InRange`) and what has
been stored and handed off by the time a label is reached (`Backed`), which needs
no lease, because registries only grow.

**Walk-forward executions** (`WalkForwardExecutionProofs`): `WalkForwardTypeCorrect`,
`WalkForwardSuccessIsBacked`, through any number of lapsed leases, and
`ResumeLosesOneFoldAtMost`, until a first one lapses. On the same base, `WalkInv`
ties the label of a runner to its copy of the record and to the registry:
`InRange` says which number of checkpoints fits each status, `Sound`, label by
label, that a fold is saved only while one is missing, that all have a checkpoint
when the run is built, and that the run is stored before the copy is a success.
Each is about the runner's own copy and a registry that only grows, so this needs
no lease. `ResumeInv` is the account behind the bound: the folds
computed for a job are at most those its record counts and one for each attempt,
and strictly fewer while a runner is at a label from which it will still compute
(`Fresh`), because its own attempt has not used its one yet. It needs `CopyInv` (a
fold is recomputed only if its save was lost, and only the owner saves) and one
new fact about the handler, that a worker which has a run had its attempt counted.
The number of folds is a parameter of the module without an `ASSUME`, so that it
is a natural number is a hypothesis of the three theorems.

**Optimization executions** (`OptimizationExecutionProofs`):
`OptimizationTypeCorrect`, `OptimizationSuccessIsBacked`, through any number of
lapsed leases, and `ResumeLosesOneTrialAtMost`, until a first one lapses. The
argument is the walk-forward one with trials in place of folds (`OptInv` with
`InRange` and `Sound`, and the account `ResumeInv`), with two additions. The
registry has, at every label, the experiments of all trials the runner's copy
counts, and at the labels between a trial's experiment and its record the next one
as well: that is what allows the record to grow. And `fail_active` shares the
session of the runner that raised, so what it ends may be that session's record
instead of the stored one; `SessionInv` says that until a first lease lapses the
two are the same, unless the session has loaded none. That there is a trial and
that the number of folds is natural (`Sizes`) is a hypothesis of the theorems.

**The three side by side** (`ExperimentExecutionProofs`, at its end):
`EverySuccessIsAlwaysBacked` and `AtMostOneStepIsLost` are the properties of the
run `durable_executions` for its specification `KindSpec`. `MCDurableExecutions`
takes the other two runners as instances of their proof modules, so that what is
proved of each can be cited; `BehavesAsItsKind` says that a behaviour keeps its
kind and is a behaviour of that runner. These two have the numbers of folds and
trials of that run; the theorems of each runner are for any number.

**Request budget** (`PollingRetentionProofs`): `PollingTypeCorrect`,
`ExhaustedBudgetsAreRetried`, and `RequestsWithinBudget` for every `MaxDelay`.
`WithinBudget` speaks of intervals that lie in the past and is not inductive. The
invariant is the usual account of a token bucket, for every moment since which one
counts: the tokens left and the requests granted since are together at most the
burst, what was refilled since, and an allowance that grows by `MaxDelay` with every
acquisition that was overtaken (`TokensAccounted`); `ClocksRecent` says that the time
a worker brings is at most `MaxDelay` old, which bounds how far such an acquisition
sets the row back. `OneWorkerKeepsBudget` is the corollary for the documented
baseline: the row's time is never after what a lone worker brings (`LoneWorker`), so
that nothing is overtaken and the bound is the configured one.

**Schedule** (`PollingRetentionProofs`): `ScheduleIsKept`, for any interval and any number
of schedulers and operators. `ScheduleInv` says what is true until a flush
overwrites what it had not read. The two copies of the entry agree, an active
entry is never due before it was last changed (`RowInv`), no job was
enqueued later than that or before its slot, and the slots of those enqueued since
the entry was created lie between its creation and its last slot (`Served`); what
an operator is about to write continues the entry it read or is a new one
(`OperatorInv`, for each statement its call has come to); a scheduler that holds the lock has read the row as it still is
(`SchedulerInv`). That no slot is served twice and no backlog is left
then follows from one fact about `FirstAfter`: the next slot is later than the
clock. The proof attempt changed the property: that no scheduler ever raises,
which an earlier version stated without the condition, is false when three calls
overlap (section 7); the instance of the run was too small to show it.

**Stream** (`MarketDataStreamProofs`): `StreamTypeCorrect`,
`WatermarkMonotonic`, `FinalIsBehindWatermark`, `FinalIsImmutable`,
`JournalIsTruthful`, `RevisionsDoNotCollide`. The invariant has a part for the
store (`StoreType`, `LogInv`), for each worker (`JobInv(s)`: the versions its
transaction has read exist, and the one a committing ingestion read is locked;
`StageInv(s)`: what a finalizer staged is behind the watermark it read, is still
the provisional last version of its window, and is locked) and for the locks (`LocksExclusive`). A step is
split into `Moved(s)`, what it does to the worker that takes it, and `Grow`, that
the store only grows; growth is all the *other* workers' invariants need. The
actions that write the store are few, and each is shown to keep the store's
properties.

**Retention** (`PollingRetentionProofs`): `HoldStopsPurge`,
`ReplayLineageIsKept`, `NewestWindowIsKept`. For the first the invariant is
that a hold and a purge under way exclude each other, which is what the control
row is for; every other transaction adds rows or replaces one under its key. The
other two are about a purge whose batch is older than the rows it deletes, so
their invariants (`Lineage`, `NewestFinal`) say what every row of a selected batch
still is when it is deleted: the replay of a selected decision, event or request
has ended once, and a selected window version is a provisional one beside a final
one, hence not the newest. Versions are only appended, and a replay that has ended
once counts as ended also when it is retried by hand, so no other transaction takes
that back.

**Candidates** (`CandidateAlertProofs`): `RecorderTypeCorrect`,
`StoredLineageIsSound`, `UndisturbedRebuildHeals`. The properties speak of committed
rows; the invariant `RecorderInv` adds what every open transaction is about to
store (`Backed`: a portfolio only together with its journal entry, projections
only of journals it has seen) and, as long as nothing was committed beside it,
that it has seen all of them (`Undisturbed`). A rebuild counts the journals before
it lists them; that the list is complete because as many are listed as were
counted is a fact about finite sets, and that a newest one exists is proved by
well-founded induction on their number (`FiniteMaximum`).

**Ledger** (`CandidateAlertProofs`): `MoneyConserved`, `LedgerTyped`,
`EverySnapshotIsValid`, for any starting cash, fee schedule, prices, quantities and
number of trades. The equations of `Reconciled`
are not inductive by themselves: opening a position leaves the unrealized result
as it is, which is right only because nothing is open then (`NothingOpen`).
Prices and quantities enter through their products, of which the lemmas keep the
type only, so that each step is linear arithmetic (`CloseArithmetic`).
`SnapshotInv` adds what the validators compare (the timeline's numbers, times and
last equity; the positions; the fees and results *added up anew* over all closed
positions). `Total` is a recursive function over a sequence, of which the provers
know nothing, not even that it exists; that it exists, that two such sums agree and
that one more position adds its own amount is proved by the least number for which
it would not be so (`LeastNumber`, `SumsExist`, `SumsAgree`, `TotalOfLonger`). That
is what takes the place of induction here.

**Replay** (`CandidateAlertProofs`, at its end): `LossIsBounded`,
`OnlyUnplannedReversalsRaise`, for datasets of any length, any candles, strengths,
horizons and data issues, any rank limit and any fee below its amount. `ReplayInv`
follows the application: the ranking is that of the selectable candidates at the
time of the youngest (`BatchInv`); of the candidates tried none would open, and the
one that opened is the first that does (`WaitingInv`, `TrialInv`); while the trade
is watched its quantity is what the policy allowed, its last mark is strictly
between its thresholds, its cash is what the entry left, and its timeline has one
event per candle since the fill (`HoldingInv`). The quantity puts the whole budget's
loss at the invalidation price. So between the thresholds less than the budget is
lost before it is rounded (`InsideLoss`), and at most the budget as money, where the
risk directive closes the trade; at a threshold at most the budget is lost and at most twice that is won; and since a quarter of the
equity is committed at most, an exit is never beyond the cash (`CashSuffices`): of
the three ways the lifecycle could raise, `negative_cash` is dead. That
a reversal is a signal without a plan follows from the date of the batch: no
candidate is younger than it, and every planned signal makes one. The records'
validators are then facts about the ranking, about subsequences and about counted
intervals.

**Alert center** (`CandidateAlertProofs`): `StoredRowsAreReadable`,
`WindowsAreRespected`, for any number of workers, assessments, rule versions,
policies and operator acts. Neither is inductive. Whether an evaluation job ends for
good by a disagreement of builder and validator is decided when its worker reads the
rule, the source and the newest alert, and written much later: `WorkInv` says that
whatever a worker has prepared will be accepted when it is written, however long that
takes, because rule versions are immutable and the clock only grows. For deduplication
and cooldown `SpacingInv` adds, as long as no two evaluations have been open at the
same time, that what a lone worker decided holds of *every* stored alert although
the code asks the newest one only (`AloneInv`): a finite non-empty set of alerts has
a newest one, and what that one allows all older ones allow.

**Alert outcomes** (`CandidateAlertProofs`): `OutcomesAreSound`,
`ReviewsFailByRaceOnly`. That a rounded return lies between its rounded excursions
rests on the rounding, which keeps the order (`RoundedGrows`); that summaries
partition what they count, on the cardinality of disjoint sets. A reader is a sequence
of results, and the invariants say of each what it still means when the next one is
read (`SummaryInv`, `ReviewInv`): the rows it counted are still stored, since rows are
only added, so that what a later statement counts besides was recorded in between.

**Rounding** (`CandidateAlertProofs`, at its beginning): that half-even rounding keeps
the order, is exact on whole multiples, and is within half a quantum of its quotient
(`RoundedGrows`, `RoundedWhole`, `RoundedIsClose`). The ledger, the risk budget of the
replay and the metrics of the outcomes use them.

The inductive invariants were also checked by TLC: `IInv`, `ExecInv`, `WalkInv`,
`OptInv`, the two `ResumeInv`, `RecorderInv`, `SnapshotInv`, `ReplayInv`, `CenterInv`,
`ObservationInv`, `PollInv`, `BudgetInv`, `ScheduleInv` and the two of the purge on the
instances of their runs (for `NewestFinal` and `Lineage`, one event completely and two
events for the first 13 million states); `ScheduleInv` also with a clock of 4 and 4
calls, for the first 12 million states.

**Only model-checked:**

- liveness and deadlock freedom: temporal reasoning with fairness and `ENABLED`
  are beyond the prover used;
- market context and decisions (`ContextRowsSound`, which is `RowsSound` and
  `MonitorAgrees`, `RetryTakesNoLaterWindow`, `EvidenceSound`, `AcceptedIsAdmissible`): their runs instantiate the two job
  modules beside each other with contracts that fold over sets of windows and
  candidates, and the folds take an operator as a parameter;
- the schema (`SchemaMatchesModels`, `OnlyExitReasonsBlock`, `BackfillsHold`): its
  revisions are applied by recursive operators, and the chain is a constant that TLC
  goes through completely.

Every other property of a passing run is stated by a theorem.

## 7. Known divergences

Places where a document states more than the code does. Three are kept as runs
(`optimization_reclaim`, `retention_stranded`, `candidates_reachable`) and
described under `findings` in `PROJECT.json`. Others are stated as properties in
the modules, and TLC refutes them in the configurations below, which differ from
the run named only in the constants and the property given.

| Property | Configuration | What the code does | What is documented |
|---|---|---|---|
| `EndedExecutionFinal` | `durable_executions`, experiments, `MaxLapses = 1` | `save` (`trd_bot/db/experiment_execution_repositories.py:61`) compares neither the stored status nor the lease: after a lapse it can turn an ended execution back to running. `EndedExecutionKept` is the part that holds. | `docs/v0.2/11-durable-background-jobs.md:22-23`: a stale worker may not record a result after its lease expired |
| `FailedJobEndsExecution` | `durable_executions`, experiments, `MaxLapses = 0` | The execution is failed in the handler's `except` only (`api/job_handlers.py:115`); if the last attempt ends in the report before it, in `fail_active`, or by a crash, the job fails and the execution stays queued or running. | `docs/v0.3/06-durable-experiment-execution.md:46`: at the end of the retry budget the execution is failed |
| `LateNeverAccepted` | `stream_safety`, 2 answers | An event is classified against the watermark chosen before the wait; one the latest watermark has passed may be accepted (`db/market_data_ingestion.py:94`). | `docs/v0.3/13-atomic-market-data-ingestion.md:20`: the evidence of a decision is the latest watermark; `docs/v0.3/02-event-contract-and-window-semantics.md:132`: a late event needs a replay |
| `LosingFinalizerEnds` | `stream_safety`, 1 payload, 3 windows, 2 answers | The loser of a race for a window is given the version it chose before waiting; staging raises and the poll fails (`db/market_data_finalization.py:221`). | `docs/v0.3/15-window-lifecycle-finalization.md:59-60`: it ends without a change |
| `DecisionReplayable` | `stream_safety`, 2 answers | A conflict decision can record a watermark older than the one its window was finalized at; its replay is refused for ever (`market_data/replay.py:228`). | `docs/v0.3/16-late-data-replay-revision.md:33`: the current version is the only condition |
| `ConfiguredBudget` | `polling_budget` | `acquire` stores the time its caller read before it waited; with two workers `refilled_at` can move back and an interval is refilled twice (`db/market_data_polling.py:373`). `WithinBudget` bounds by how much; `OneWorkerKeepsBudget` is the theorem for one worker. | `docs/v0.3/14-durable-watchlist-polling.md:51-52,120`: the limit is that of all workers; line 55 makes one worker the baseline |
| `LatestWatermarkKept` | `stored_data`, retention, limit 5, 2 days, no redelivery | The newest watermark of a stream that was quiet for the evidence time is purged like any other (`db/market_data_retention.py:471`). | `docs/v0.3/18-retention-safe-purge.md:113` |
| `WatermarkLineageKept` | the same | References are looked at when the batch is selected, deletes go by id (`:552`). | the same, line 105 |
| `ReceiptOutlivesDelivery` | the same with redelivery | A receipt refreshed after the selection is deleted by its key (`:547`). | the same, line 20 |

Smaller ones, seen in the same models:

- *Watchlist.* A pause or a second `create` that overlaps `enqueue_due` writes
  the document's old `last_enqueued_for` back; the job just enqueued is then
  refused for good as `poll_schedule_invalid` once the entry is active again. A
  `create` that overlaps a pause leaves the column paused and the document
  active: the entry is not polled and `resume` returns at once. `create` on a
  stream that has an entry replaces it and orphans its queued job. Three calls of
  `create` that overlap can leave columns older than the document; a scheduler
  whose clock reading is before the document's creation then builds an invalid
  entry and raises, which ends its process (`SchedulerNeverRaises` without
  `~overlapped`: one scheduler, two operators, `MaxCalls` = 4).
- *Alerts.* Two workers that evaluate at the same time may both publish within
  one deduplication window, under different versions of the rule
  (`db/alert_publication.py:117`).
- *Market context.* The retries that "inputs not ready" asks for take windows stamped
  before the request only, so they help only when a finalizer was late to commit;
  a window stamped after the request refuses the evaluation for good
  (`RetryTakesNoLaterWindow`). The fifth branch of the alignment's status is never
  reached. A stream that has an assessment is hidden by the monitoring reader beyond 100
  streams, and shown without data when its newest assessment is not among the newest
  1000 of all streams (`MonitorAgrees`).
- *Decisions.* A portfolio updated since the request is passed over, and with no
  other one the position is judged against an empty baseline
  (`db/decision_portfolio_intelligence.py:66`); one recorded after the analysis may
  bear an earlier time. The detail of an evaluation that is read while its stages are
  committed may list complete outcomes without the first records
  (`api/routes/decision_intelligence.py:128`). A strategy made for ranging
  markets never passes the alignment of a candidate with the trend, and the
  correlation cap never decides.
- *Outcomes.* A simulation judged between the two statements of the outcome summary is
  counted neither as judged nor as awaiting (`db/alert_outcomes.py:117-133`).
- *Candidates.* Trend reversal closes a trade on a signal without a plan only, and
  the portfolio-risk exit only where a loss short of the stop is rounded up to the
  budget; the freshness check and the score check never decide; the application passes neither a data-reliability nor any other
  directive (`research/candidate_application.py:228-234`); `mark_stale` and
  `invalidate` have no caller. A fill on the last candle, and two directives of
  equal priority on one candle, make the lifecycle raise in every attempt.
- *Projections.* While two recorders overlap, projections may be missing until
  the next rebuild that no other commit falls into (`RebuildHeals`).

## 8. What is not modelled, and why

- *Provider adapters, connections and probes, candle quality*: HTTP calls,
  parsing and decimal rules over a list of candles; their outcomes are inputs of
  `ProviderPolling`.
- *Backtesting engine, strategies, indicators, research analytics and reports*:
  decimal arithmetic over series. An experiment or a fold is one step that
  succeeds or fails, and signals are inputs of `CandidateReplay` and
  `DecisionPipeline`.
- *Dataset imports and file staging*: parsing and hashing around one commit; the
  job is an instance of `JobHandler`.
- *Experiment replay* (comparison of stored experiments), the manual portfolio
  API with several open positions, the data-quality directive of the monitor:
  not used by the application's own lifecycle.
- *Monitoring collector and market-data health*: samples and read-only
  summaries that no other part reads.
- *HTTP layer, frontend, maintenance commands, capacity and release tooling*:
  requests, rendering, command lines and benchmarks around the operations that
  are modelled.
- *PostgreSQL*: row locks, `SKIP LOCKED`, READ COMMITTED visibility, unique
  keys and rollback are in the modules; serialization failures and lost
  connections appear as `Broken`, `Crash`, `Fail` and failing statements.

## 9. Plan

Order of the whole project, most important behaviour first; 1 to 8 are done.

1. Job queue, its abstract life cycle, refinement, liveness, proofs.
2. Executions behind the jobs (three runners over one base).
3. Market-data stream with its proofs; request budget and watchlist schedule.
4. Retention and holds, with the proof that a hold stops the purge.
5. Schema and migrations.
6. Paper portfolio with its proof, candidate replay, records and recorder.
7. Alerts, outcomes and the review.
8. Market context and decision evaluation.
9. Monitoring collector; dataset imports with file staging; the backtesting
   engine as operators compared with a reference over bounded inputs.

Further proofs: the step-wise facts of the two evaluation jobs that do not go
through a fold (rows are only added, one chain of stages per request).
