# A verification development for trading-system-v2

TLA+ modules, TLC configurations and TLAPS proofs for the Python services under
`src/services/`. The text below says what the system consists of, which part each
module models, what the runs show, what is proved, and what is left out.

## 1. Inventory of the system

| part | state it keeps | operations | talks to |
| --- | --- | --- | --- |
| collector (`collector`) | `ohlcv_futures`, `symbols` in crypto_data; a lock per process | `collect_once`, paged `backfill`, `gaps` | exchange REST API, PostgreSQL |
| signal service (`signal-service`) | confirmed candles, indicator states, `_last_close`, `_config`; `trading_signals` | `start`, `poll`, `rewarm` | reads crypto_data, writes signal_db |
| paper wallet (`wallet-service`) | `_cash`, `_position`, kill switch; receipts, fills, positions, accounting in wallet_db | `receive`, `process`, `store`, `record_consumption`, `engage_kill_switch` | reads signal_db and crypto_data, writes wallet_db |
| runners (`*/application/runner.py`, `service-commons`) | stop event, counters, failure streaks | `run`, `drain_once`, health snapshot | the two services above |
| backtest engine (`backtest-service/engine`) | cash, `PositionBook`, pending orders, current trade, funding boundaries, evidence buffers | `run`, `step_open`, `step_close`, `finalize` | data feed, broker, matcher, catalog, evidence sink |
| run catalog, harness (`adapters/catalog_store.py`, `harness`) | `backtest_runs` and summaries | register, pre-registration, summary, aggregate, reconcile, tag, delete, purge | PostgreSQL; engines and the web API in other processes |
| evidence (`adapters/evidence_sink.py`) | buffered records per kind, files, a hash | bind, record, finalize, verify | the engine, the run directory |
| web API jobs (`web-api/jobs.py`, `data_jobs.py`) | job registry, revision and event per job, executor, collector subprocess | register, update, wait, cancel, shutdown | harness, collector CLI, SSE clients |
| execution primitives (`core-lib/execution`, `types`, `costs`) | none (pure), `Order` and `Position` objects | match, resolve_triggers, liquidation, funding, `PositionBook.apply` | wallet and engine |
| candles (`core-lib/candles.py`) | none | resample minutes to confirmed candles | signal service, wallet, engine |
| strategies, money management, indicators, patterns | per-run strategy state | pure calculations | engine and signal service |
| web application (`apps/web`), plugins, schemas | views, user code, tables | | web API |

Messages between the services are rows: the collector commits minutes, the signal service
commits signals, the wallet commits receipts. No service calls another; each polls.

What is hard here:

* **interleaving**: two processes of one wallet; a live collection against a backfill;
  a catalog reconciliation against a run in another process; a worker thread that
  updates a job while the event loop prunes it and a client waits on it;
* **crash and restart**: the wallet's cash and position and the signal service's
  indicator states live only in memory; a `RUNNING` run row survives its process;
* **lost acknowledgements and partial failures**: a commit that is durable but raises,
  a store that fails after the in-memory state moved on;
* **ordering**: identities drawn before their rows commit, candles completed late by a
  backfill, pending orders that meet a liquidation at the next open, triggers that hit in
  the same candle;
* **liveness**: one signal or one candle that raises on every poll.

Section 6 of this file and `hazards` in `PROJECT.json` name the lines.

## 2. Plan

In the order of importance; a done module is described in section 3.

1. **Paper wallet** (done): `PaperLedger` (abstract), `PaperWallet`, `PaperWalletProofs`
   with `FiniteSums`.
2. **Backtest engine** (done): `BacktestEngine`, `BacktestEngineProofs`,
   `BacktestAuditProofs`.
3. **Signal service** (done): `SignalGeneration` over `CandleStore` and `RunnerHealth`;
   `SignalGenerationProofs`.
4. **Collector** (done): `Collector`, which implements the abstract `CandleStore`;
   `CollectorProofs`.
5. **Run catalog** (done): `RunCatalog`, engines, a purge and sweeps for orphans.
6. **Web API jobs** (done): `WebJobs`, composed with `RunCatalog`; `WebJobsProofs` for both.
7. **Indicators and patterns** (done): `SeriesTerms`, `Indicators`, `CandlePatterns`,
   `SeriesStates`, `RollingWindows`, `Hikkake`, `RunningValues`, composed by
   `MCSeriesLibrary`; `RunningValuesProofs`.
8. **Left**: the order life cycle, the buffers of derived Evidence rows, spot trading,
   paired series of another timeframe.

`CandleStore` is the seam of the pipeline: the collector is shown to implement it, and the
signal service is checked over everything it allows, so no larger composition is needed.
In the same way the signal service and the wallet meet in `trading_signals`, and
`PaperWallet` is checked for signals that become visible in any order.

Abstract specifications: the ledger of the wallet (`PaperLedger`) and the table of candles
(`CandleStore`).

## 3. Modules

### PaperLedger, PaperWallet, MCPaperWallet

`PaperWallet` models `services/wallet-service`. One process is one `WalletService` with
its queue and repository; `Procs` may hold several, all started for the same wallet id,
because nothing in the code prevents it and the SQL constraints are there for it.

| in the code | in the model |
| --- | --- |
| `trading_signals` rows, complete candles | `signals`, `ready` |
| `wallet_signal_consumption`, `fills`, `positions`, `accounting_snapshots`, `wallet_accounts` | `receipts`, `fills`, `positions`, `snapshots`, `account` |
| the local variables of `receive()` | `after` (the cursor), `todo` (unconsumed rows of the page) |
| the message, the candidate execution | `msg`, `draft` |
| the rows of the symbol that the DELETE of an open transaction found | `seen` |
| `_cash`, `_position`, the kill switch | `mem` |
| the write connection | `conn` |

Every SELECT, every `process()` and every transaction is an action, so other processes,
publications, candle completions and crashes fall between them. `process()` itself works
on copies and touches nothing shared: it is one action, with a rejected, a failed and an
executed outcome. A transaction commits whole, is refused (rollback), or commits and loses its
acknowledgement, after which the connection is unusable: the service never reconnects.

`store()` is two steps, because nothing raises the isolation level: `StoreDeletes` is its
part up to `_DELETE_POSITIONS` (`wallet_repository.py:38-42,176-179`), which at READ
COMMITTED finds the rows of the symbol that are committed when it runs, and `StoreCommits`
is the rest: those rows give way to the new one. A rival may commit another row of the
symbol in between. If it has the same key, (wallet_id, symbol, side) in
`01-create-paper-wallet-ledger.sql:78`, the INSERT raises (`StoreCollides`); if it is on the
other side, both rows stand. A rival that has inserted the receipt of the same signal makes
the others wait (`Claimed`). The other locks, of a row on its way out or of the account,
decide which transaction ends first and not what the one that waited has found; the model
allows every order. `overtaken` and `torn` are history: the open transactions whose
symbol a rival has stored since their DELETE, and the symbols stored last by such a one.

`Restart` is a crash at any point followed by a new process: cash and
position start from the injected `initial_cash`, as `WalletService.__init__` has it.

Quantities and prices are small integers, and slippage is in the execution price. A fill
costs `FeeOf` its notional: the rate `FeeRate` in parts of `FeeUnit`, at most the whole
(`WalletAssumption`), rounded to a whole unit where the code has fractions. An entry sets
the fee of its exit aside at the notional of the entry, as `_entry_cash_requirement` does,
and the exit is charged on its own. The limits of `RiskGuard` and the stop check are an attribute of the
signal (`verdict`), because the model has no float sizing; where each verdict bites is
kept (before or after the simulated fill, and an equity that is not positive fails first).
Signals arrive with any kind and in any id order.

`PaperLedger` is the promise of wallet_db: a published signal gets one receipt, together
with all the legs of its intent or with none.

### BacktestEngine, MCBacktestEngine

`BacktestEngine` models one `Engine.run` of `services/backtest-service`, with the
matching, trigger, funding and liquidation code of `core-lib` it calls. The engine is one
thread; what is hard is the order of its steps inside a candle, so every step of
`step_open`, `step_close` and `run` is an action and `phase` says which one runs next.

| in the code | in the model |
| --- | --- |
| `_last_candle`, the next item of `_evaluation` and of `_history` | `candle`, `next` |
| `step_open`: the boundary at the open | `SettleAtOpen` |
| `step_open`: the carried orders (`match`, `_apply_fill`) | `FillOrder`, `OrdersFilled` |
| `step_open`: `boundaries_between(open, close)` | `SettleCrossed`, `FundingSettled` |
| `step_open`: `walk_triggers`, `resolve_triggers` | `WalkTriggers` |
| `step_close`: `_mark_grid` | `MarkGrid` |
| `step_close`: `analyze`, `_handle_signal` | `NoSignal`, `ExitSignal`, `EntrySignal`, `AmbiguousSignal` |
| `_close_at_data_gap`; `finalize` | `CloseAtDataGap`; `Finalize` |
| `_cash`, `_book`, `_active_trade`, `_stop_price`, `_take_profit_price` | `cash`, `position`, `trade` |
| `pending` | `pending` |
| `_sequence["decision"]`, `_trades` | `decisions`, `realized` (the sum of `net_pnl`) |
| the evidence database | `evidence`, the sequence of the rows the audits read |

The next candle of the tape is drawn one candle ahead, because the engine itself looks
one candle ahead. A run ends `finished`, `failed` (an exception of the code for a
legitimate reason: cash exhausted, an unaffordable entry, a refused signal), `rejected`
(the database refuses a row) or `inconsistent` (a guard against the engine's own
mistakes); after any but the first nothing more is recorded.

Abstracted: money and prices are exact integers, so Decimal rounding is not modelled; a
fill costs the flat `Fee` and slips by `Slip` per unit (multiplied on a gap); the
strategy is an arbitrary signal per candle and sizing an arbitrary quantity up to
`MaxQty`, of which the matcher fills what cash affords. A minute price at a boundary
inside a candle is any price between its low and its high. Indicators, excursions,
metrics and hashes are left out, and so is the spot market.

### CandleStore

The table `ohlcv_futures`, the clock, and `resample_confirmed_ohlcv`. Minutes and candles
are named by their open times, and `stored` are the minutes that have a row. `CompleteBuckets` is the rule all readers share: a bucket counts when it
is over and none of its minutes is missing. As a specification (`StoreSpec`) the module is
what readers rely on: rows of closed minutes appear, in any order, and stay. It promises
nothing of their values, because the collector cannot keep such a promise (`collector_partial`).

### RunnerHealth

`RunnerObservability` as operators on a record: what each `record_*` does to the last poll
and to the two failure streaks, and the verdict of a health check. A streak is counted up
to the threshold, beyond which nothing reads it. `SignalGeneration` and `Collector` keep
one such record each and call it where the runners do.

### SignalGeneration, MCSignalGeneration

One `SignalGenerationService` and its `SignalPollingRunner`, over `CandleStore`.

| in the code | in the model |
| --- | --- |
| `_config`, `_confirmed`, indicator states, `_last_close`, `_reported_missing_until` | `service` |
| the service method in progress, and where it is | `call` |
| `SignalPollingRunner.run` | `runner`, `PollDue` |
| `start`, `rewarm` | `Start`, `WarmExecution`, `WarmSeries`, then the three steps of `_process` |
| `poll` | `Poll`, `ReadFresh` (nothing new, one next candle, a gap or backlog) |
| `_process` | `Advance` (the other timeframe), `Pair`, `Judge`, `Store` |
| `_gap_reports` | `missing` |
| `trading_signals` | `signals` |

A state is the sequence of the candles it was given, which is what tells a skipped candle
or a repeated one from a right one. Every read is a step of its own, so minutes arrive
between them; any read, the strategy or the store may raise (`CallFails`), and what the
step had already done to the memory stays done, as in the code. What a strategy answers is
free. In the other stream a state is updated first, then its value is checked, then the
cursor moves (`service.py:525-528`): a call that fails at the check leaves the state one
candle ahead of its cursor, and the retried poll gives it that candle again. Modelled streams: the execution timeframe, one other timeframe, and one pair whose
reference candle may come late or never.

### Collector, MCCollector

`LiveCollector` and the two backfills (`HistoricalBackfill`, `FundingBackfill`) of one
symbol, which share only the tables. `LivePoll`, `LiveCompare`, `LiveUpsert` are the
request, the query for the latest row with the gap check, and the upsert of `collect_once`;
`BackfillFetch`, `BackfillSift`, `BackfillSave` are a page, the clock that decides which
rows are over, and the upsert with the cursor. Both can fail at every step and die.
The exchange lists minutes up to the one in progress, or one behind, and a minute may end
at any moment, also between a page and the clock reading. `rows` says of every minute
whether its row is absent, final, or `partial` (the values of a minute still in progress);
its readers see `StoredMinutes`. `bridged` is history: the holes that a backfill made by
writing past the latest row.

### RunCatalog, WebJobs, MCWebJobs

`RunCatalog` is `backtest_run` with its summary and preregistration, the Evidence files, and
the runs of any number of processes: `Reconcile`, `Register`, `Bind`, `SavePrereg`,
`Replay`, `Seal`, `UpsertSummary` are the statements of `BacktestCatalogStore` in the order
of `Engine.run`, with what the engine writes to Evidence between them; `PurgeLook`,
`Unlink`, `DeleteRow` are `purge_run`. A sweep for orphans knows the start of its
transaction (`since`), which is what `started_at < CURRENT_TIMESTAMP` compares. `outcome`
and `early` are history.

`WebJobs` composes it with `jobs.py` and `data_jobs.py`: the executor's one worker takes
dry runs, grids and sweeps from `line` and drives an engine of the catalog; data jobs are tasks
that enter `gate` (the semaphore), run a collector, and are cancelled at shutdown; `jobs`
and `finished` are the two registries with their retention; `wakes` are the `event.set()`
calls scheduled on the loop but not yet run; `stream` is where each client's event stream
is between looking, clearing, and waiting. A command line backtest runs beside all of it. A sweep (walk-forward or
in/out of sample) ends by recording its aggregate on its last run and so asks the catalog
once more; a grid records none and reports its first run as its engines left it, as a dry
run does (`jobs.py:223-230,262-293`).

### SeriesTerms, Indicators, CandlePatterns, SeriesStates

Every indicator and every candle pattern of the two registries is written as a term over
windows, recursive averages, changes, delays and pointwise combinations: `Indicators` has
one operator per indicator and the parameters of its spec, `CandlePatterns` one per
pattern. A term has two meanings in `SeriesTerms`, as the code has two implementations: a
batch function over a series, and a state updated candle by candle. A value is the
interval of candles it depends on, or NaN; the arithmetic is left out, and with it the
magnitudes. Where a division by zero keeps the previous value, as %K and DeMarker do on a
flat window, the term depends on every window so far (`OrPrevious`).
Each spec has three terms: the outputs of its batch function, those of its incremental state, and what its `warmed_up` asks for, each translated from its own code,
beside the formula of `min_history`.

`SeriesStates` is the life of such a state: made, seeded with a replay, then updated, and
seeded again. How much longer than `min_history` the replay is depends on the other specs
of a run (`Surplus`).

### RollingWindows, Hikkake, RunningValues, MCSeriesLibrary

Two parts of the library whose bookkeeping is worth its values. `RollingWindows` is
`SmaState` and `RollingExtremeState`: a running sum, a count of NaN values, and a queue of
candidates. `Hikkake` is the only pattern with a memory: both variants of
`TalibHikkakeState`, with the Near average in its bounded buffer. `RunningValues` puts the
two side by side, in any interleaving, with the property that is about both.
`MCSeriesLibrary` follows one of the three, a term's state, the windows or the hikkakes, per
behaviour, since they share nothing.

## 4. Runs

| run | what it asks | bounds |
| --- | --- | --- |
| `wallet_race` | With two processes, crashes, refused statements and lost acknowledgements, does wallet_db still implement `PaperLedger`; can a symbol have two rows other than by overlapping stores; can a held position that has not lost be closed; does every ready signal get its receipt? | 2 processes, one of which may be switched off, 2 signals of 4 kinds, page of 1 row, a fee of a quarter, 1 restart, 1 fault |
| `wallet_chain` | Does the money add up over every chain of entries, reversals and exits, and do memory, positions and account agree while the process lives? | 1 process without the kill switch (`wallet_race` has it), 4 signals of 5 kinds, page of 2, a fee of a quarter, 1 fault |
| `wallet_poison` | `run_once` promises a receipt for every permanent outcome: does it keep it? (violated) | 1 process, 3 signals, leverage 2 |
| `engine_funding` | Is every funding boundary settled exactly once, before the triggers that depend on it; do the rows reference what is already there; does the cash follow the results? | 3 candles of 2 funding intervals, 2 shapes, 3 protections, rates that pay, cost and exhaust |
| `engine_tape` | Across missing candles and the end of the data: no order is carried, every decision is executed in time, every bar is recorded, no position survives a candle that touched its levels, and only a jump of the open costs more than the margin | 4 candles of 6 shapes, gaps of up to 2 candles, 5 protections, quantities 1 and 2, cash for one bad exit |
| `engine_stop` | The design document re-anchors the initial stop to the fill: does the engine? (violated) | 3 candles |
| `engine_zero_risk` | A trade with r0 = 0 is a legal `Trade`: can it be recorded? (violated) | 3 candles |
| `signal_live` | Are signals stored and candles judged in order and once; is every skipped candle reported; do the other streams stay in step; does a lost session show, and does a live one catch up? | 8 minutes, candles of 2 and 4 minutes, 1 fault, 2 processes one after the other |
| `collector_fill` | Does a backfill store its whole range; are holes reported; is the table to its readers what `CandleStore` says, although minutes end at any moment? | 9 minutes, pages of 2, 2 backfills of 3 ranges, 2 faults |
| `collector_partial` | No candle in progress is ever stored: is that so when a minute ends between a page and the clock? (violated) | as above |
| `jobs_live` | Are the runs that jobs report evaluated in the catalog; is a run in flight proof against sweeps and purges; is no file lost; does one collector run at a time; does every stream hear the end? | plans of 3 data jobs, 2 dry runs, a grid of 2 runs, or a sweep of 2 runs and a data job; 2 runners, 1 client, 2 outside events, 1 retained job |
| `series_library` | Are batch and incremental the same for every indicator and pattern, is `min_history` exact, does a seed forget all before it; do running sums, queues and buffers say what the window says; do the hikkakes confirm once and in time? | every registered spec, up to 2 surplus candles, 2 updates, 2 seedings; series of 7 over 3 numbers and NaN, period 3; tapes of 8 candles of 5 shapes |

Two processes are enough for the races: a transaction conflicts with one other. Two
signals give a reversal after an entry and two pages; four signals are the longest chain
in which an entry, a reversal and an exit are followed by another decision. A rate of a
quarter on notionals of 4 to 10 makes the fees of an entry and of its exit differ. Two rows of one symbol and the
collision of two equal ones are both reached.

Three candles are an entry, a candle that holds and one that exits; the fourth lets a
second trade follow, or a gap fall between the two. Two missing candles put a funding
boundary strictly inside a gap. Both engine runs reach all exit reasons between them:
signal, reversal, stop, target, liquidation by price and by funding, gap and end of data.

Eight minutes let the signal service start on two candles and meet a gap, a backlog and a
late minute in the two that follow; the second process judges again what the first judged.
In the collector's run a range needs two pages and more, one range lies beyond the
latest row, and a hole is there from the start. Two outside events are enough for every
pair of a purge, an exception, a shutdown, a passing second, a stream and a command line
run. A series of 7 over a period of 3 sees every value enter and leave twice; a hikkake
spans 3 candles and its confirmation 3 more, so 8 candles hold two overlapping ones.
Periods keep their registered defaults, except for the Near average of the hikkakes,
whose period of 1 makes its buffer turn over within the tape.

`EngineInv`, `SessionInv`, `JobsInv` and `RunningValuesAgree` are conjunctions of a type
invariant and of the named parts beside it.

**Fairness.** The engine, the collector and the library are checked for safety only.
*Wallet*: a process that can take its next step takes it: the runner polls for ever,
catches every exception of a poll and drains until the queue is empty. Nothing is assumed
of the sources, of restarts or of database faults. The liveness property gives up when
every process has lost its connection: the service does not reconnect. *Signal service*:
the clock moves and the runner, which catches what a poll raises, takes its steps; nothing
is assumed of collectors, faults and restarts. *Jobs*: the worker thread and the event loop
run what is ready (a worker's step, a scheduled `event.set()`, a data job's step, a
stream's step, the steps of a shutdown); the keepalive of a stream is not assumed, so a
missed wake-up would show.

## 5. Proofs

Each theorem holds for every value of the constants that the `ASSUME`s of the component
admit; where a theorem needs more, its hypothesis says so.

**`PaperWalletProofs`**

* `LedgerInvariant`: `Spec => []LedgerInv`. `LedgerInv` is inductive as it stands. The
  ledger facts (`SnapshotIffFilled`, `FillsHaveReceipts`) are not inductive by themselves:
  a store needs to know that the drafted fills belong to the message and are the legs of
  its intent (`WorkInProgress`), and a receipt needs to know that "skipped" is only ever
  drafted for a signal that has a receipt (`SkippedOnlyAfterReceipt`), which in turn
  rests on `FillsHaveReceipts`. `ExecutionsAreWhole` discharges what `process()` drafts;
  the other lemmas take the actions in the groups that abandon a message, commit a
  ledger, commit a receipt, or move one process along.
* `WalletImplementsLedger`: `Spec => ImplementsLedger`, the refinement of `PaperLedger`
  under the mapping that reads a signal's legs off the fills table: a commit is `Fill`
  (the signal had no leg before, by `FillsHaveReceipts`), a new receipt is `Reject`, all
  other steps stutter. That a receipt is never rewritten is part of this.
* `RowsMultiplyInNothingButRaces` (`[]RowsMultiplyOnlyInRaces`) and `ExitFeeStaysReserved`
  (`[]ExitFeeReserved`). The first needs what an open transaction relies on: a row of its
  symbol that its DELETE did not find was committed by a rival, and then the transaction is
  among the overtaken ones. For the second, the invariant carries what a draft holds
  besides: whatever `process()` leaves in a draft either holds nothing or has in cash the
  fee of an exit at the notional of its entry, which is what `entry_cash_requirement` asks
  for in the last leg. That this is enough for every exit that is not at a loss is
  `SetAsideIsEnough`: with a rate of at most one (`WalletAssumption`) a rise of the
  notional costs no more in fees than it brings (`FeeGrowsLess`, which includes the
  rounding). Of the bisection of the quantity the proof needs only that its result was
  accepted by that requirement.
* `TableFollowsMemory`: `[]PositionsTableIsCurrent`, for one process that is never
  restarted. Both hypotheses are needed: a restarted or a second process starts flat and
  leaves the row of its predecessor in the table (section 6).
* `EquityIsConserved`: `[]LedgerConserved`, under the same hypotheses and for the same
  reason: a new process starts from `initial_cash` again, beside the fills of the old one.
  `ConservedInv` states the balance of what the process has in memory while its connection
  lives, and of a draft about to be stored; the account row shows what a stored draft made
  it. `ExitPaysTheResult` and
  `EntryPaysTheCost` are the arithmetic of a leg, with leverage; `ExecutionsBalance` joins
  the one or two legs of an intent; `CommitConserves` needs that none of them is in the
  table already (`FillsHaveReceipts` again), or its sum would count them once and its cash
  twice.
* The sums are those of the community modules, which fold by a recursive function over the
  subsets of a set. `FiniteSums` shows that the result does not depend on the order
  (`TakeAny`) and hence that sums add up over disjoint sets (`SumAdds`, `SumOfUnion`). An
  induction theorem with an operator parameter cannot be instantiated here; each induction
  is an argument about a smallest subset for which the claim fails (`SmallestSubset`, from
  the well-foundedness of strict inclusion).

**`BacktestEngineProofs`**

* `CashFollowsResults`: `Spec => []CashIsNetOfTrades`. The property speaks only of a flat
  engine. Its strengthening `Accounts` says what is still out while a position is held:
  cash, margin, fees and funding together are the initial capital and the results, the
  entry price is the reference price and one slippage, and the slippage of the trade is
  that slippage times the quantity. `ExitBalances` is the arithmetic of an exit;
  `SettleKeepsAccounts` shows that funding moves an amount from the margin to the cost of
  the trade, capped or not; `Typed` carries the types the arithmetic needs.

**`BacktestAuditProofs`**

* `EngineIsTyped`, `LoopStaysConsistent` (`[]NoInconsistency`), `SurvivorsAreInside`,
  `FillsFollowDecisions` (`[]TimingAuditClean`), `TradesPrecedeTheirRows`
  (`[]ReferencesResolve`) and the action property `FlatAcrossGaps` share the inductive
  invariant `Audited`. Its parts `Queue` and `Settlement` need each other. An exit queued at
  a close finds its position at the next open only if settling the boundary between the two
  never liquidates, so `Settlement` says that every boundary since the entry, up to the
  point the loop has reached, was charged: the one at the open is the one at the close
  before it, or not after the entry. And that holds on the next candle because `Queue` says
  that neither an order nor a position is carried to one that does not follow.
  `NoBoundaryBetween` is the arithmetic of boundaries. `SoundLog` says of any log that its
  executions follow their decisions and its references resolve; `AddRows`, `FlushedRows` and
  `ExitIsSound` show that what an exit appends keeps it sound, on each of its three endings.
* `LossesStayInTheMargin` (an action property). `LevelCoversMargin`: the liquidation level,
  recomputed from whatever margin funding left, is at most the margin per unit away from the
  entry, also where it is clipped at zero and `resolve_triggers` takes zero for "never set";
  that a short never has the level zero rests on a maintenance share below one
  (`MaintenanceIsLess`). `TriggersFillInTime`: whichever of stop, target and liquidation
  wins, it fills no worse than at that level unless the open is beyond it.

* `AuditIsComplete` (`[]EvidenceComplete`). The property speaks only of a finished run; its
  strengthening `Complete` is an account of the evidence in the middle of one. The POSITION
  rows in the log, then those buffered with the open trade, number the bars passed so far
  in order (`MarksBars`; `MarksJoin` when the buffer is written out), and every decision
  has its execution or is still among the pending orders (`Owed`). It needs `Audited`: that
  an exit finds its position is what makes each pending decision end in an execution.

* `FundingIsChargedOnce` (`[]FundingAuditClean`), and with it `BooksAndRowsHold`
  (`[]EngineInv`). The property speaks of the log, the code of the open trade: `FundingKept`
  joins them. `Billing` says of the log that every completed trade is billed (its rows charge
  the boundaries of its time once each and add up to its cost) and that no row uses the next
  trade id yet; `Paying` says of the open trade that its buffered rows charge the boundaries
  reached so far once each, none of them capped. That none is left out is `Settlement` of
  `Audited` again. `BilledIsPaying` is one settlement, `FlushBills` moves the bill of a trade
  into the log, where its rows have other numbers but the same sum (`SumRenamed`), and
  `WholeBill` closes it. There the theorem needs a hypothesis, `ClosesOffBoundaries`: an exit
  after a close is stamped one millisecond later, and a boundary in that millisecond would
  be inside the trade but never charged. In the code it cannot be there, because timeframes
  count minutes, hours or days and funding is due at whole hours; in the model `Span` and
  `FundingEvery` are free, and TLC finds the counterexample for 3 and 5.

**`CollectorProofs`**

* `CollectorImplementsStore`: `Spec => ImplementsStore`, however the clock moves. It does not
  follow from the table alone: `TableInv` adds what the writers have in hand. The batch of a
  live poll holds closed minutes only, since the last listed row is dropped
  (`CompletedAreClosed`), and so does a page that has passed the clock. `UpsertIsArrival`
  then makes each upsert the arrival of the minutes that were missing.
* `LiveRowsAreFinal` (`[][...]` in `LiveStoresFinalRows`): what the live collector writes is
  final, however long it waits. Where a row gets the values of a minute in progress, a
  backfill wrote it; `collector_partial` shows that one does.
* `BackfillsAreComplete` (`[]BackfillLeavesNothing`), `NoHoleGoesUnreported`
  (`[]HolesAreReported`) and `CollectorIsTyped` (`[]TypeOK`): what is *there* does not depend
  on the clock, only whether it is final does. Their invariant is `CompletenessInv`: `PageIsWhole` says that a page in hand has every listed
  row between the cursor and its own last row (`PageIsAPrefix`), so that the cursor can move
  past it, and `GapsInHand` that the gaps a live poll is about to report are those between
  the table it has seen and its batch, also when a backfill writes between the query and
  the upsert. `HighestMinute` and its like say of finite sets of minutes what SQL's `max`
  says of rows.

**`WebJobsProofs`**

* Its first part is about `RunCatalog` alone: it proves, step by step, that the statements
  of engines, sweeps and purges keep `CatalogInv`. Beside the two properties of the catalog
  it says that a run an engine is in has its row or was purged, in the state its phase
  implies (`RunsAreOpen`, `RegisteredHasNoFile`), that a run that has returned stays
  returned (`ReturnedIsReturned`), and what a purge between its look and its delete may
  rely on (`UnlinkedIsGone`). The second part cites these lemmas
  for the steps the jobs share with the catalog.
* `SuccessIsTrue` (`[]SuccessIsInTheCatalog`) rests on `ReturnedIsReturned` and on what the
  worker carries from run to run: the first run of a grid has returned before the next one
  starts (`FirstHasReturned`). Only of a sweep does it say that the run was still in the catalog when
  the job ended.
* `JobsAgree`, `FinishedIsEvaluated`, `EveryFileHasARow`, `SuccessIsTrue`, `StreamsAreHonest`
  (invariants) and `ForgottenJobsAreOld` (an action property) all follow from `JobsIInv`.
  Beside `CatalogInv` it says what the lists of finished jobs hold and that a registry that
  has dropped a job stays full (`RegistryInv`), which jobs are in the executor's queue and
  in the worker's hands (`WorkInv`), that the state of a task is that of its job, and that a
  shutdown leaves no task to enter the gate, so that the process a cancelled task still
  stops is the only one (`TaskInv`, `OneAtTheGate`). Sequences without repetition
  (`AppendOnce`, `TailOnce`, `CutOnce`) carry the queue, the gate and the lists.

**`SignalGenerationProofs`**

* `SessionsStayInOrder` (`[]SessionInv`), `GapsReachTheReport` (`[]GapsAreReported`),
  `SignalsHaveWholeCandles` (`[]SignalsRestOnWholeCandles`). None is inductive. `SignalIInv`
  adds, between calls, that the cursor of the session lies behind every signal and every
  judgement and that the last confirmed candle is the one before the cursor or (after a
  failed call) the one at it (`SessionCursor`); during a call, which candle it is about to
  judge and that nothing at or after it has been judged (`CallTarget`), and how far the
  other memories are (`CallProgress`). A re-warm has dropped the cursor: that it judges
  nothing twice rests on the candle it was started for, which is still whole when the
  warm-up reads the table, because rows stay (`CallTarget`, its clause for "warm").
* `OtherSeriesStayInStep` (`[]OtherSeriesInStep`), when the other timeframe is a multiple of
  the execution timeframe. After a failed call the state of the other series may
  have been given whole candles beyond its cursor, none past the close of the candle the
  next poll judges (`SeriesKept`); advancing gives them again, so each step back is paid for
  by a fault, and at the judgement state and cursor agree (`SeriesComplete`). The hypothesis is needed, and TLC has the counterexample: the
  two reads of a warm-up have one boundary but not one instant, so minutes that arrive
  between them can let a finer stream run ahead of the candle the next poll judges. With a
  multiple they cannot: the last candle of a whole coarse bucket is itself whole
  (`LastCandleInBucket`) and would have been read first.
* The lemmas on sequences (`InOrderIsSorted`, `ReadsWholeCandles`, `WindowOf`,
  `SortedConcat`) say what every reader gets; `InOrder` is the enumeration of a finite set
  by rank, so nothing is proved by induction over data.

**`RunningValuesProofs`**

The theorems are about `RunningSpec`, with any integers as `Values`, `NaN` none of them,
periods of at least 1, and a series and a tape of any length: the run's 7 and 8 are bounds
of TLC only.

* `ValuesAgree`: `RunningSpec => []RunningValuesAgree`. A sum says nothing of what is to
  leave it, so the invariant `WindowsKept` says what each state holds: `Slid`, that a window
  is the end of its series; `Missing`, which of its values are NaN (the count of invalid
  values is their number); and for the queue `Lined` (older candidates are strictly larger)
  with `Covered` (each value of the window since its last NaN is at or before a candidate
  that is no smaller). `NewcomerKeeps` and `ExpiryKeeps` are the trimming at the back and at
  the front. `NearKept` is the same for the Near average, where the buffer holds the last
  `NearPeriod + 4` ranges once there are as many, so `BufferSlides` finds both ranges it is
  asked for. The sums and counts move by one place (`TotalSlides`, `CountSlides`), which
  needs the library's fold only one element at a time.
* `EachMatchIsConfirmedOnce`: `RunningSpec => []ConfirmedOnceWithinThree`. Of the two fields
  the code keeps, `patternIdx` and `patternResult`, a confirmation clears only the first, so
  candle 0 then counts as announced with the old result, and a candle up to the third could
  confirm it again. `Waiting` is the invariant that says why none does: either the last thing
  said is the pattern at `patternIdx`, or more than three candles have passed.
  `LookbackIsLongEnough` is why they have: no judgement is made before the lookback.
* `HistoryIsForgotten`: `RunningSpec => []HistoryBeyondMinIsForgotten`. This compares two
  runs of one machine, a state that has seen the tape and one seeded with the end of it. The
  seed of `min_history` candles slides with the tape, so no step takes one such state to the
  next. The invariant therefore speaks of the seeds of every length at once (`AnySeed`): the
  one of `m` candles, updated, is the one of `m + 1` candles of the longer tape
  (`SeedGoesOn`). Each is `Alike` to the full state: the Near averages agree once there are
  enough candles (`NearAlike`; `StartsLateEnough`: no judgement uses one before), and either
  both wait for the same pattern, or the seeded state waits for none and the full one at
  most for one from before the seeded state's first judgement (`SameWaits`). The judgements
  begin three candles before the first answer, so by then that one is too old to be
  confirmed. `SeedAnswersAlike` reads the answer off. `ReplayGoesOn` is the one fact about
  `FoldLeft`: a replay with one candle more is one more update. It is proved from the fold's
  definition as a table over subsets of places, by a smallest counterexample, because the
  library's induction theorems cannot be instantiated.

**Only model-checked**

* `IncrementalMatchesBatch`, `ReadyAtMinHistory` and `NothingOutsideTheWindow`: a term of the
  series library nests to any depth, so its two meanings are `RECURSIVE` operators
  (`SeriesTerms`), which no module with a theorem may reach, and its properties are
  inductions over that depth.
* All liveness, and therefore the fairness assumptions, are checked by TLC alone.

## 6. Findings, observations and hazards

Four disagreements between the code and its own text are kept as runs that must fail:

* `wallet_poison`: a leveraged exit that would make cash negative raises `RuntimeError`,
  which leaves no receipt; the signal is delivered first on every later scan and blocks
  all the others.
* `engine_stop`: the design document has the initial stop recomputed from the fill price;
  the matcher does so, the engine keeps the signal's. An open beyond the stop leaves the
  stop on the winning side of the entry.
* `engine_zero_risk`: `Trade` and the metrics accept an initial risk of zero, the TRADE
  table does not; the run aborts when such a trade completes.
* `collector_partial`: `fetch_ohlcv_page` reads its clock after the response; a minute that
  ends in between is stored with the values it had so far, against the README of the
  collector and the database design.

Observations that have no run of their own:

* A restarted wallet neither reads the positions table back nor clears it: the table shows
  a position that no process holds, until the next entry of the symbol.
* An open that jumps over a stop and the liquidation price behind it fills at the open and
  takes more than the margin of an isolated position (detailed design, line 1466, says only
  the margin is at risk). `OnlyAJumpTakesMoreThanTheMargin` shows that nothing else does. A
  liquidation whose candle opens beyond the level is flagged `gap_filled` although it is
  priced at the level (line 1372 defines the flag by a fill at the open).
* `_assert_finite_indicator` of the signal service (`application/service.py:833`) does not
  read `undefined_outputs`, which `indicators/registry.py:65` has consumers read and the
  engine honours (`engine.py:548`): a flat Bollinger window makes `percent_b` NaN, and the
  cycle raises until the window moves. Which windows are flat is arithmetic the model omits.
* A failed call of the signal service leaves its candle in `_confirmed`, and perhaps in the
  states of the execution timeframe; the retried poll appends it again. The
  same happens to a state of another timeframe whose value is refused: it is updated before
  the check, and the cursor moves after it (`service.py:525-528`). `SessionInv` and
  `OtherSeriesInStep` show what stays right in spite of it.
* A purge that looks for the Evidence file between `register` and `bind` finds none; the run
  then creates one that no row names (`early` in `RunCatalog`).
* Recursive indicators, those over a true range (which reads the close before the candle)
  and those that hold their last value (%K of the stochastics and DeMarker on a flat window,
  `momentum.py:172-184,1718-1727`) depend on how long the warm-up was beyond `min_history`;
  they are outside the second half of `NothingOutsideTheWindow`, and two runs that differ in
  other specs may see them differ.
* Two processes of one wallet whose stores overlap can leave one symbol with a long and a
  short row, because the DELETE of each runs at READ COMMITTED and does not find what the
  other commits afterwards (`wallet_repository.py:38-42,176-179`); the rows stand until the
  next store of the symbol. `RowsMultiplyOnlyInRaces` shows that nothing else does it.
* A dry run or a grid reports SUCCEEDED with `summary_present=True` without looking at the
  catalog again (`jobs.py:223-230,286-293`), also when its run has been purged meanwhile.
* A backfill that saves late can put the values of a minute in progress over a row that is
  already final, not only into an absent one (`LiveStoresFinalRows`).
* The pattern state of TA-Lib patterns keeps every candle it has seen.

`hazards` in `PROJECT.json` names the lines where the code is delicate, with the
properties that would show it going wrong. An entry that cash truncates to zero
(`matcher.py:342`) aborts a backtest; it is modelled, and no text says what should
happen instead, so no property speaks of it.

## 7. Not modelled

The formulas of indicators, sizing and metrics are numerical functions of their inputs;
what can go wrong in them is arithmetic, for which a unit test is the better tool. The
backtest's data feed and the reads of the web API are SQL queries that return what is
stored. Trading plugins are user code, the web application is a view, and the strategy
manager and the reconciliation report compare given lists without any state between two
calls. Of the Evidence database the audits for funding, time and completeness and the file
beside its catalog row are modelled; the Parquet encoding and the hash are not. Limit and
stop orders and the order life cycle exist in `core-lib`, but both services submit market
orders only. `PROJECT.json` lists each part with its reason.
