# TRADING_TERMINAL: a TLA+ verification project

The program is an automated trading terminal (Python) for one client account at
a broker. Webhooks, a dashboard and scheduled strategies produce orders; a
pipeline of guards lets them through, a command service records them in SQLite,
a watcher thread follows them at the broker, and a risk manager ends the day
when the loss limit is reached. All paths below are relative to
`src/shoonya_platform/` unless they start with `src/`.

The project models how an order comes about, whether and how often it is sent,
what is recorded of it, how a position is closed and when trading stops; how a
strategy decides and lives; and the services around this core: the broker's
session and socket, the option chains, the control requests, the copies to other
accounts, the configurations and the history. It consists of TLA+ modules, TLC
configurations that check them on small instances, and proofs for TLAPS.

1. [The system](#1-the-system)
2. [Modules](#2-modules)
3. [Runs, properties and bounds](#3-runs-properties-and-bounds)
4. [Fairness](#4-fairness)
5. [Where code and documentation disagree](#5-where-code-and-documentation-disagree)
6. [Properties that do not hold](#6-properties-that-do-not-hold)
7. [Proofs](#7-proofs)
8. [What is not modelled](#8-what-is-not-modelled)
9. [Plan](#9-plan)

To reproduce: `tlc -config <run>.cfg <module>` for a run of section 3, and
`tlapm <module>.tla` for a proof module.

## 1. The system

### Threads

| thread | what it runs |
|---|---|
| HTTP workers | `process_alert` for webhooks; dashboard routes that write control intents or edit managed exits |
| OrderWatcher | polls the broker's book, dispatches registered exits, watches managed exits, about once a second |
| scheduler | `heartbeat` of the risk manager every five seconds, nightly cleanup, orphan rules |
| strategy executor | one tick loop over all strategies, with a pool of workers |
| two control consumers | claim rows of the table `control_intents` |

Shared state is one SQLite database (orders, control intents; every statement
commits on its own), the in-memory tables of the guard, of the watcher and of
the strategies, one JSON file of the risk manager, and the broker's books.

### Components

**Execution guard** (`execution/execution_guard.py`). State: per strategy the
positions it is believed to hold; per symbol and direction a total over all
strategies. Operations: `validate_and_prepare` for an entry or adjustment,
`reconcile_with_broker`, `force_close_strategy`, `force_clear_symbol`, all under
one lock. Callers: the alert pipeline, the watcher, the recovery, the executor,
the dashboard. *Hard*: the total is kept by differences over calls of several
strategies with broker maps that are partial. *Correct when*: the totals are the
sums of the positions, so that the rule against opposite positions of two
strategies reads the truth, and no call turns a position round.

**Order lifecycle** (`execution/command_service.py`, `execution/bot_execution.py`,
`persistence/repository.py`). State: the orders table (status, broker number).
Operations: `submit` for entries, `register` for exits, `execute_command` under
`_cmd_lock` in steps: login, blockers (risk, guard, duplicates), mark
`SENT_TO_BROKER`, place, record the number or `FAILED`. *Hard*: other threads
cancel, expire or fail the record between any two steps; the broker's answer may
be lost; a crash may fall anywhere. *Correct when*: the broker acknowledges one
order per command, `EXECUTED` means filled, at most one entry per strategy and
symbol is marked as sent.

**Order watcher** (`execution/order_watcher.py`). State: `_dispatched_exits`,
`_managed_exits`. Operations: poll the book and write verdicts, call `on_fill`,
dispatch registered exits, one pass over the managed exits. *Hard*: it works on
lists read earlier in the cycle, a lost session ends the thread. *Correct when*:
a strategy hears of a fill once, fills are recorded, exits are dispatched.

**Managed exits and the position exit service** (`execution/order_watcher.py`,
`execution/position_exit_service.py`). State: the table of managed exits (stop,
configured stop, anchor, failures) in memory and in the database; the monitor's
copies of it during a pass. Operations: enable, edit and remove by the
dashboard; a pass that trails, triggers, retries and merges; `exit_positions`.
*Hard*: copies merged over concurrent edits, exits from several sources over one
net quantity, retries of a dispatch whose record stays. *Correct when*: the stop
only tightens, survives a restart, retries are bounded, nobody sells more than
there is, a stop that is hit is acted on.

**Supreme risk manager** (`risk/supreme_risk.py`). State: day, result, limit,
best profit, `daily_loss_hit`, `force_exit_in_progress`, loss days, cooldown; a
JSON file of most of them. Operations: `heartbeat` and `can_execute` under an
RLock. *Hard*: stale or missing positions, the order of saving and routing
around a crash, cancelling orders while an exit is under way. *Correct when*: no
entry on a day of a breach, the limit never loosens, the positions of a breach
are exited, a cooldown holds.

**Startup recovery** (`services/recovery_service.py`). Corrects order statuses
from the broker's book, next to the running watcher thread.

**Alert pipeline** (`execution/bot_execution.py`, `bot_alert_processing.py`):
`process_alert` under the strategy's lock: reconciliation of the guard with the
broker's positions, duplicate test, the guard's plan, mixed batches (exits
first, a wait for their fills, then entries), legs one by one, the answer.
*Hard*: positions read before and used after other threads' orders; a failed
read is an empty account; locks with deadlines. *Correct when*: no entry over an
open order of the strategy, every alert is answered, an answer of failure means
that nothing went out.

**Control intents and the orphan rules** (`execution/generic_control_consumer.py`,
`strategy_control_consumer.py`, `services/orphan_position_manager.py`): requests
of the dashboard as rows of one table, two consumers, rules for positions that
belong to no strategy. *Hard*: the claims race and do not look at the type, the
write of a status may fail, a crash leaves a row `PROCESSING`. *Correct when*:
each row is done once, in order, and answered truthfully; a rule exits once.

**Strategy executor** (`strategy_runner/strategy_executor_service.py`, `state.py`,
`executor.py`, `persistence.py`, `reconciliation.py`): registration, ticks under
`_tick_lock`, legs `PENDING`, `FILLED`, `FAILED`, `CLOSE_PENDING`, `CLOSED`, state
file and resumption, the monitor's rows and the history of runs. *Hard*: a
timeout of a minute races the fill; the file is written after the alert; a
reconciliation believes what the broker shows; stop, poll and archive
interleave. *Correct when*: no leg is bought twice, a held leg stays active,
every waiting leg settles, a gain counts once.

**Strategy engines** (`entry_engine.py`, `exit_engine.py`,
`adjustment_engine.py`, `condition_engine.py`) and **market reader**: rules,
crossings, trailing stops, profit steps, budgets; strikes, expiries and files.
*Hard*: the order in which rules see one state; values of the previous tick;
counters against limits; files that change under a reader. *Correct when*:
locked profit is kept, a crossing is acted on once, the nearest option is
chosen, the reader finds the file.

**Broker client** (`brokers/shoonya/client.py`): session, recovery, retried
orders, limits with a rest after failures, the socket. *Hard*: flags without a
lock, an empty answer that says nothing, a socket that is lost again while it
is restored. *Correct when*: an answered order is not sent again, logins are
few, the restored feed delivers.

**Option chains and prices** (`market_data/option_chain/`): the supervisor's
chains with their retries and recentring, the store's files, the refresher of
the greeks. *Hard*: three threads start and remove the same chain; greeks are
computed outside the lock. *Correct when*: no store is left open, greeks come
back.

**Broker view cache** (`api/dashboard/services/broker_service.py`), **copy
trading** (`services/copy_trading_service.py`), **the fleet** (`src/master/`),
**strategy configurations** (`api/dashboard/api/`), **analytics**
(`analytics/`), **service manager** (`services/service_manager.py`): a cache
with invalidation, a fan-out behind breakers, a registry with a health poller,
files written through temporary ones, a thread that samples and records, threads
that restart themselves. Their hazards and properties are in sections 2 and 3.

**Left out**: a second source of quotes (Fyers), the HTTP, dashboard and Telegram
interfaces around these components, configuration, logging, notifications.

### Interactions

    strategy: tick --> rules --> strikes, expiries --> alert
    webhook, strategy --> alert --> guard, risk gate --> submit --> execute_command --> broker
    webhook of a master --> copies to followers;  poller --> blocks a follower
    socket --> ticks --> chains, greeks --> files --> market reader --> rules
    dashboard --> configurations --> start, stop of a strategy
    dashboard --> control intents --> exit_positions --> register --.
    risk manager --> exit_positions ------------------> register ---+--> watcher
    watcher: managed exit triggered --------------------------------'    |
    watcher --> execute_command --> broker;  broker book --> watcher --> guard,
                                                    orders table, on_fill
    recovery: broker book --> orders table;  risk manager --> orders table (FAILED)

## 2. Modules

| module | models |
|---|---|
| `ExecutionGuard` | the guard; one action per public method |
| `OrderLifecycle` | order records from submission to the broker's verdict |
| `OrderContract` | what a strategy may rely on: the abstract specification |
| `OrderRefinement` | the refinement mapping from `OrderLifecycle` to it |
| `PositionExits` | managed exits and requested exits over one position |
| `RiskManager` | the risk manager, its state file and its restarts |
| `AlertPipeline` | an alert from the webhook or a strategy to its orders, over `ExecutionGuard` |
| `ControlIntents` | the table of control requests, its consumers, the orphan rules |
| `StrategyLegs` | one live strategy: legs, orders, state file, start and stop |
| `StrategyRules` | what a strategy does by its rules: exits, entries, adjustments |
| `LegMonitor` | the rows of a run shown to the user, and the history of runs |
| `StrikeSelection`, `ExpirySelection` | which option, which expiry, which file |
| `BrokerSession`, `BrokerLimits` | calls, logins and recovery of the client; its limits |
| `MarketSocket` | the socket, its reconnection, the subscriptions |
| `OptionChains`, `ChainPrices` | the supervisor's chains and stores; prices and greeks of one |
| `ChainMetrics`, `StrategyHistory` | the analytics thread: chains; strategies |
| `BrokerViewCache` | one cache of the broker's view |
| `CopyTrading`, `ClientFleet` | alerts to followers; registry, administrator, poller |
| `ConfigStore` | the saved configurations and the routes that write them |
| `IsolatedService` | a service with the threads that run it |
| `MC...` | instances for TLC |
| `ExecutionGuardProofs` | proofs: the guard, the alerts that go through it |
| `OrderLifecycleProofs` | proofs: the order records and that they keep the contract |
| `PositionExitsProofs`, `RiskManagerProofs`, `LegMonitorProofs` | proofs about the module of that name |
| `StrategyProofs` | proofs: `StrategyLegs`, the instance of `StrategyRules` |
| `PlatformProofs`, `MarketProofs` | proofs about the instances of `MCPlatform` and of `MCMarket` |

In every module a step is what no other thread can interrupt: a method under a
lock, one SQL statement, one call of the broker. Definitions whose comment
starts with "Mutation:" are plausible bugs of the definition that follows; they
are used by nothing here and exist to see that a property fails under them.

**ExecutionGuard.** `strategyPositions`, `globalKeys` and `globalQty` are the
two dictionaries (a key with a total of zero differs from no key, and the code
relies on it). `Entry` and `Adjust` are `validate_and_prepare` with its checks as
conjuncts; `Reconcile` is `reconcile_with_broker` with its four cases per symbol,
the assignment of line 343 included; `ForceCloseFails` is the `KeyError` of
`force_close_strategy`. `Traded` and `Seen` say which symbols a strategy orders
and which ones the maps passed for it contain; the callers differ in that. One
batch has its legs on different symbols. In the runs every strategy sees the
positions of all its symbols, whoever opened them: the caller passes the account's.

**OrderLifecycle.** `status` and `brokerId` are the orders table, `book` the
broker's. `call` is the one `execute_command` that holds `_cmd_lock`; `Begin`,
`Unblocked`, `MarkSent`, `Place`, `Unanswered`, `RecordAccepted`, `RecordRefused`
and the blockers are its steps. `PollBook`, `Reconcile`, `ListOpenExits`,
`NextCycle` and `WatcherDies` are the watcher. `Breach`/`RiskCancel`, `Cancel`,
`CancelAll`, `ExpireAll`, `Crash` and `Recover` are the other writers. A write of a
status may fail and is then lost, as the code goes on (`TryMark`, `Lose`): an order
whose mark failed leaves all the same (`unmarked`). `Reconcile` writes the broker's
verdict and `NotifyFill` tells the strategy, as two steps; `ReconcileFails` is the
error that ends a poll. Live mode only; one trading day.

**OrderContract and OrderRefinement.** The contract knows three things of a
command: the numbers acknowledged for it, how the order ended, how often the
strategy was told. The mapping reads them off the broker's book and the
callbacks; of a command that left although its mark could not be written the
contract promises nothing, and the mapping shows nothing of it. Every crash, retry, cancel and status write of the detailed module
must be a stutter of the contract or one of its three steps.

**PositionExits.** One symbol, opened long. `table` is `_managed_exits`,
`record` the orders table's rows of managed exits, `exits` the market orders
made by them or by `exit_positions`. A pass of the monitor (`StartPass`, one
`Look...` per managed exit, `TriggerExit`, `PlaceExit`, `CloseRecord`, `GiveUp`,
`ScheduleRetry`, `EndPass`) works on `local`, the copy, and merges at the end.
`ReadPositions`, `CheckRecent` and `RegisterExit` are the three steps of
`exit_positions`. `execute_command` is one step with the outcomes
`OrderLifecycle` derives: the broker has the order, has refused it, has booked one
or more without an answer getting through (the record says it failed, or another
one was sent after it), or the session was lost. The dashboard edits a stop
whenever it likes, also while a pass works on its copies; `raced` and `late` record
such edits. A pass may be shown no position although there is one
(`get_positions() or []`): it then closes the managed exits as `UNSEEN`.

**RiskManager.** `risk` is the object's memory, `saved` the file, `at` where a
call is between two points at which an end of the process makes a difference.
`HeartbeatBreaches`, `HeartbeatFlattens` and `HeartbeatWatches` are the three
courses of `heartbeat`; `GateBlocks`, `GateBreaches` and `GateAllows` those of
`can_execute`. Both read the positions through `Updated`, which keeps the old
result when the answer is missing, empty or yesterday's, and see a new day in
opposite orders, as in the code. A breach goes on with `RouteExit` or
`RouteFails`, `CleanUp` and `FinishHeartbeat`. The broker shows lots, whether it
lists any rows, and their result; before the market opens the result of what is
flat is yesterday's. Days are numbers, 0 a Monday, so that the cooldown and the
consecutive loss days cross a weekend. The variables `breached`, `asked`,
`paused` and `realPeak` only record history. One product, no CNC rows; saving
the file is atomic.

**AlertPipeline.** EXTENDS `ExecutionGuard`: the calls of the guard are its
actions. `call` is how far each caller of `process_alert` is; `lock` the
strategy's lock; `view` the cached positions, which may be old or missing
(`MaxBlind`); `orders` the strategy's records, which the watcher and the broker
move between any two steps. One action per step: `Acquire`, `ReconcileGuard`,
`CheckOrders`, `CheckPositions`, `Guard`, `Route`, `RegisterBatch`,
`WaitUntilFlat`, `LookForExit`, `SendLeg`, `Answer`, and the refusals.

**ControlIntents.** `rows` is the table, with one insert action for each route;
`Claim`, `Execute`, `Settle` and `Busy` (the write of the status failed) are the
consumers; `LoadRules`, `Monitor` and `ExitFills` the orphan manager. `done` and
`exits` record what was executed.

**StrategyLegs.** `mem` is what the executor remembers, `file` what is saved of
it, `orders` and `net` the order table and the broker, `view` the list of positions
`BrokerView` had last: a call gives the account's, none, or after an error that
one. A contract is a leg at a strike, and strikes are chosen anew each time; a
booking without an answer is `UNSEEN`. A tick is `TickBegin`,
then one of exit, entry, adjustment or roll with its save as a step of its own
where the code sends first, `TickEnd`. `NotifyFill` is the callback of the
watcher; `StopExecution`, `KillSwitch`, `Crash`, `Boot`, `NextDay` come in between.

**StrategyRules.** One tick as an operator pipeline over the saved state:
`CheckExits` in the order of the code, `Enters`, `Applied` for the adjustment
rules. `Value`, `Holds`, `Evaluate` are the condition engine with `Remembered` for
the value each parameter had when a crossing of it was looked at last; `Ratcheted`, `Trailed`, `NextStep` the profit
rules, trails and lock-ins in an amount or in percent (`Amount`, `TrailOf`, `LockOf`),
with `floor` for the level a trail was set at; `MayFire`, `Fired`, `Restored` budgets, cooldowns and what a refusal takes
back.

**LegMonitor.** `cache` and `table` are the rows of a run, `listed` and `archive`
its history in memory and on disk. The loop and a user's stop each go through
`Begins`, `Refresh`, `Archive`, `Unregister`; `Poll`, `ReadHistory`, `DeleteOne`,
`DeleteAll` are the dashboard's.

**StrikeSelection** resolves the legs of one entry, header and rows of a snapshot
in steps of their own; delta, premium, straddle, interest, max pain and PCR
inflection are operators over the chain. **ExpirySelection** follows the files
of a symbol over days: creation, clean-up, the two resolutions of a strategy
(for its chain and for its executor), the reader's cached connection with the
time taken after the opening. Under WAL a snapshot moves the time of the main file
only at a checkpoint.

**BrokerSession.** `pc` and `call` per thread over the flags of the client, none
of which is locked; an order, a change, a read and a look differ in what they do
with a missing session and an empty answer. **BrokerLimits** is `get_limits` in
the steps between which other callers change count, rest and cache: a failure
counts and decides upon a login in two steps.
**MarketSocket** has the worker of a reconnection, the subscribers and the
supervisor's restart over two books of tokens (`mine`, `feed`) and what the broker
sends (`atBroker`).

**OptionChains.** A bundle is a chain with its store; `chains`, `failed`, `due`
are the dictionaries, `starter` a start in flight, `loop` the supervisor's round. A
recentring decides, pops the chain (there may be none by then), cleans up, starts,
and puts the old one back if that failed, each a step of its own.
**ChainPrices** is one chain under ticks: `Refresher` computes, compares and
commits greeks; a price that moves too far drops them. **ChainMetrics** and
**StrategyHistory** are the two collectors of the analytics thread, each with its
reads, its memory of what was last, its inserts and their failures.

**BrokerViewCache**: lock, time to live, fallback, invalidation, time passing
during the call. **CopyTrading**: deliveries whose work and answer are two steps,
the breaker per follower. **ClientFleet**: registry calls under its lock, a
poller that works on a copy. **ConfigStore**: every route that loads, changes and
writes a configuration, on threads that share the temporary file of a
configuration, the rename as the code does it, the executor that starts, restarts and resumes strategies from the files.
**IsolatedService**: `start`, `stop`, failure, restart from inside the failing
thread, the frames unwinding afterwards.

**MC modules.** `MCAlertPipeline`, `MCStrategies`, `MCPlatform`, `MCMarket` and
`MCEntriesAndRows` hold several instances that share no state: the variable `part`
names the one a behaviour is of, the variables of the others stay at their initial
values. Such a run explores the sum of the spaces of its parts. What an instance
needs of its constants is a named assumption of the MC module, and the values are
in the `.cfg`, so that the theorems about the instance hold for any others.

## 3. Runs, properties and bounds

| run | module | checks |
|---|---|---|
| `orders_entries` | MCEntriesAndRows | `OneEntryPerSlot`; rows: `GainsCountOnce` |
| `orders_exit` | MCOrderLifecycle | `AcknowledgedOnce`, `FillNotifiedOnce`, `ExitDispatched`, `KeepsContract` |
| `exits_watch` | MCPositionExits | `StopPersisted`, `BoundedRetries`, `NoReversalAlone`, `StopNeverLoosens`, `HitIsActedOn` |
| `risk_day` | MCRiskManager | `PeakIsReal`, `NoEntryAfterBreach`, `BreachRouted` |
| `alerts` | MCAlertPipeline | `NoEntryOverOpenOrder`, `OneCallerAnswered`; guard: `TotalsAreCovered`, `NoDirectionFlip`, `NoConflictUnseen` |
| `strategies` | MCStrategies | legs: `NeverDoubled`, `HeldLegsStayActive`, `WaitingLegSettles`; rules: `LockedInIsKept`, `CrossingsActedOnOnce` |
| `services` | MCPlatform | `NothingTwice`, `EveryRowTaken`, `HitsSeeTheOrder`, `BlockedForMisses`, `CopiedOnce`, `NothingSavedIsLost`, `RestoredFeedDelivers`, `TableIsMemory`, `StopIsHeard` |
| `market` | MCMarket | `AnsweredOrdersStay`, `LoginsAreFew`, `NoStoreLeaked`, `GreeksComeBack`, `DeltaIsNearest`, `ReaderFindsTheFile`, `NothingCountedTwice` |
| `guard_opposite` | MCExecutionGuard | `NoConflictingEntry` is violated |
| `orders_failed` | MCOrderLifecycle | `FailedIsNotFilled` is violated |
| `exits_twice` | MCPositionExits | `ExitIsIdempotent` is violated |
| `risk_flatten` | MCRiskManager | `Flattened` is violated |

The modules state more than the runs list: type invariants, and the properties
`ExecutedIsFilled`, `FillRecorded` (OrderLifecycle), `LimitNeverLoosens`,
`CooldownKept` (RiskManager), `RefusedEntryLeftNoOrder` (AlertPipeline),
`InOrderOfCreation`, `ExitsBeforeEntries`, `StatusIsTrue`, `RuleFiresOnce`
(ControlIntents), `StoppedStaysStopped` (StrategyLegs),
`StopLossActs`, `ReentryOnlyAfterStop`, `StepsInOrder`, `BudgetHolds`, `OnceADay`
(StrategyRules), `SeenGainsCount`, `EveryRunIsRecorded`, `DeletedStaysDeleted`
(LegMonitor), `HitsAreYoung` (BrokerViewCache), `BlockOutlivesRestart`
(ClientFleet), `SkippedForMisses` (CopyTrading),
`BooksAgree`, `ReconnectsEnd` (MarketSocket), `EventsAlternate`, `ThreadCatchesUp`
(StrategyHistory), `QuietIsSettled`, `FailureStays` (IsolatedService),
`FlagsAreReleased`, `EveryCallEnds` (BrokerSession), `RestIsKept`, `FailuresRest`
(BrokerLimits), `FailedChainsAreRetried`, `SnapshotsGoOn` (OptionChains),
`GreeksNearUnderlying`, `CommittedWhereSpotIs` (ChainPrices), `StraddleIsOneStrike`,
`PainIsBalanced` (StrikeSelection), `DefaultIsCurrent`, `AutoLeavesToday`,
`CycleHasItsChain` (ExpirySelection). TLC finds no violation of them on the same
instances; they are kept out of the runs to keep these short. To check one, add
its name to the `.cfg` (of an instance: `Name == Instance!Name` in the MC module,
and, for a liveness property, the module's fairness in its part).

**Guard** (parts of `alerts`). "guard": two strategies that share a symbol, one of
them with a second one, under any calls with any maps: adoptions overwrite totals,
removals delete keys, and `force_close_strategy` meets the missing ones. Totals are
cut at 4, the sum of what the two can hold. "blind": the two share both symbols while every
broker map is empty, as after a failed read: no opposite entry gets through. The tables have no other
data than quantities, and every comparison in the code is with zero or another
quantity, so quantities to 2 or 3 have every order relation.

**Alerts.** Two callers, two alerts out of an entry, an exit of both symbols and
an adjustment that closes one symbol and opens the other; positions may be old at
any time and missing once. Two callers are what a lock is about; two alerts let
each kind meet each other kind half done.

**Strategies.** Legs in three parts: one day with an extra leg to adjust and a crash
("extra"); two days with one leg, without kill switch or unanswered bookings
("days"); one day with two strikes, without crash, stop or expiry ("strikes"). Two
orders, one fault out of crash, expiry by hand, trade by others, unanswered booking
and list of positions that is not the account's. A leg that is entered, lost sight
of and entered again needs two orders. A third order adds no relation between leg
and order. Rules: seven configurations that between them use every exit rule, action and limit; gains in steps around the
limits, two prices so that a crossing goes up and down, six ticks, two days, a crash.

**Services.** Intents: two rows of any type, or a basket of three legs, one failing
write, one restart. Orphans: two rules on one symbol. View: two threads, a time to
live of 3 within a time of 8, so that an entry ages, is invalidated and ages again.
Fleet: one client, two misses, two calls of the administrator. Copies: three alerts,
one follower, a breaker that opens at two. Configurations: two files, two requests
at once or after one another, one crash. Socket: two losses, one recovery, two workers, three
subscribers. History: one strategy, two changes, one fault. Service: two threads,
three stops. **Market.** Session: two threads, two retries. Limits: two threads, two
failures to a rest, four calls each. Chains: two keys, a user and the supervisor, six
bundles, two faults. Prices: spot and future of three values, two moves. Strikes:
three strikes, deltas on either side of the two tolerances, all interest of 0 to 2.
Expiry: three expiries, three modes, two days, one new file. Metrics: three
snapshots, one failure. Each bound is one more than what a single race needs.

**Orders.** `orders_entries`: two entries of one strategy and symbol, which are
alike (`SYMMETRY`; the run has invariants only), two attempts each of `place_order`,
a crash, a lost write; all other writers. `orders_exit`: an entry and an exit, one
crash, two lost writes, everything else unbounded; the liveness properties and the
refinement are checked here. Two commands suffice: they interact only
through `_cmd_lock`, the duplicate check and lists of orders. `MaxBooked` has
room for every attempt of every command, so it never cuts a behaviour. The
second part of `orders_entries` is the other end of a run: one leg through two
runs, two days, polls, failing writes, a crash and deletions, at most four of
runs, days and faults together.

**Exits.** `exits_watch`: one managed exit and one requested exit of the same
strategy, prices 0 (none), 2 and 4 around a stop that starts at 1, two failures
before the monitor gives up, five exit orders, two attempts of `place_order`; one
edit at any time; one trouble, which is a square-off by hand, a lost session, a
crash, a booking without an answer or a pass that is shown no position. The price
can move back and forth, so the stop steps up, is hit and is missed. Five orders are
two failures on either side of a crash and the requested exit.

**Risk.** `risk_day`: a Friday, a Monday, a Tuesday; results -2, 0, 2 against a
limit of -2 with step 2, so that it trails to 0; one lot, one trade by hand, two
ends of the process; reads may fail or come back empty at any time. Two loss
days in a row make a cooldown: Friday and Monday do, over the weekend, and
Tuesday is inside it. A third breach would overflow the deque of loss days.

What the properties say:

- `TotalsAreCovered`: the cross-strategy rule reads the totals, not the positions.
  A total that is covered by the recorded positions stays so under every call, also
  under the adoptions and removals of strategies that share a symbol, so that
  nothing is blocked for quantities nobody holds. Excepted are the symbols that
  `force_close_strategy` leaves when it stops at a missing key. The converse, a total
  that is not below the positions, does not hold (`guard_opposite`). `NoDirectionFlip`: a flip at the broker is first dropped, then
  recorded anew. `NoConflictUnseen`: without any map no opposite entry passes.
- `NoEntryOverOpenOrder`: between the look for open orders and the sending other
  alerts and the broker move. `OneCallerAnswered`
  (`EveryAlertAnswered` for one of the callers, which are alike): over locks with deadlines and a
  wait for fills that may not come.
- `AcknowledgedOnce`: no retry, redispatch, restart or late cancel makes the
  broker acknowledge two orders for one command. (It may *book* several: an
  unanswered attempt is sent again. The property is about the acknowledged ones.)
  Excepted are commands whose mark could not be written: the code sends them all the
  same (`bot_execution.py:622`), and a restart may send such an exit again.
- `FillNotifiedOnce`, `ExitDispatched`: the watcher and the recovery tell a
  strategy of a fill once, and in the end an exit leaves `CREATED` or, if its writes
  were lost, is with the broker. `KeepsContract`: the refinement, with what an
  `EXECUTED` record promises.
- `OneEntryPerSlot`: the duplicate check and the mark are two statements, and a
  late `update_broker_id` revives withdrawn records.
- `GainsCountOnce`: the gain of a leg is added when a poll sees it closed; polls,
  the loop and the user's stop all refresh the rows, and memory and table are
  read back after a crash.
- `StopPersisted`, `StopNeverLoosens`: trailing over passes, merges, restarts and
  edits at any time. An edit during a pass is saved and then undone in the table by
  the merge (`order_watcher.py:679`): the properties name this as the one way in
  which record and table come apart and a stop goes down.
- `BoundedRetries`: the count of failures lives in a copy that is merged.
- `NoReversalAlone`: one source alone never sells too much, unless an order was
  booked without an answer (`client.py:1043`), the session lost, the process ended
  or the user squared off; each of these can sell twice, and the property says that
  nothing else does.
- `HitIsActedOn`: deferrals, retries, edits and a crash do not starve a stop that
  stays hit. A pass that is shown no position closes the managed exit over an open
  one (`order_watcher.py:423`), which the property names as an outcome (`UNSEEN`).
- `NoEntryAfterBreach`: whatever the result does later and over restarts.
- `PeakIsReal`: the limit never trails yesterday's result or a blind read.
- `BreachRouted`: an exit is asked for over one end of the process at any point.
  Two ends can lose it: the flattening saves `force_exit_in_progress` before it
  routes. A request that fails in an alert's thread counts as asked.
- `NeverDoubled`: no contract is held twice. What gets past the check is named: an
  order the table does not show as open (its answer was lost, or the service had
  marked it expired while it was at the broker), and an entry made over a list of
  positions that was none or old (`misread`). A leg entered again at another strike
  is another contract, which the check by symbol does not compare.
  `HeldLegsStayActive`: the reconciliation deactivates no leg that is held, unless
  the broker's view, after an error, has gone back to a list from before the leg was
  filled (`broker_service.py:110`); a missing list deactivates nothing, nor does any
  list at a restart. `WaitingLegSettles`
  (`EveryPendingLegSettles` for one leg in each part): by a fill, a refusal or the minute.
- `LockedInIsKept`: the stop stays at or above the level it was set at, over steps,
  trails and restarts. Two kinds of configurations are excepted: a profit target that
  itself moves the stop, and steps with a trail in percent, where more legs lengthen
  the trail (`exit_engine.py:151`). `CrossingsActedOnOnce`: the
  previous value is remembered for all rules of a tick and over a restart.
- `NothingTwice`, `EveryRowTaken`: over two consumers that claim the same table, a
  status that could not be written and a restart.
- `HitsSeeTheOrder`: an answer fetched before an order is not served after it, even
  if it is stored after the invalidation. `BlockedForMisses`: the poller's copy
  blocks nobody who has answered. `CopiedOnce`: a follower takes an alert once, and
  none the master blocked. `NothingSavedIsLost`: what was saved is in some file until
  it is deleted or overwritten, over a rename cut short by the end of the process and
  requests about other files; two requests about one file may lose it (section 6).
  `RestoredFeedDelivers`: after a reconnection the broker sends every token the client knows of, those asked for meanwhile included.
  `TableIsMemory`: between two turns, and while nothing failed, the table says what
  the thread saw last. `StopIsHeard`: a stop that no start follows ends every thread,
  one that is restarting itself too.
- `AnsweredOrdersStay`: an order the broker answered is not sent again by a retry or
  recovery. `LoginsAreFew`: forced logins between two good answers, however the
  callers overlap: `MaxFails`, and one for each other caller whose count a good
  answer reset before it decided. `NoStoreLeaked`: an open store belongs to a listed
  chain or to a thread that still starts, recentres or removes one. Excepted is a
  chain started while a recentring failed: putting back the old one drops it with its
  store open (`supervisor.py:751`).
  `GreeksComeBack`: while ticks arrive and the chain is active, however the
  underlying moves. `DeltaIsNearest`: the two passes of the query are a search for
  the nearest. `ReaderFindsTheFile`: a reader that was handed a connection to a file
  since replaced gets the right one while a chain writes it, at the next checkpoint. `NothingCountedTwice`:
  the stretches of time that build-ups cover do not overlap, over failing inserts
  and a restart.

Deadlock is not checked: when all commands are closed and the bounds are used
up, or on the last evening, nothing is left to do. Where a lock could hold
everyone up, a liveness property says that it does not.

## 4. Fairness

`Spec` has none; safety and refinement are checked and proved for it. `FairSpec`
(in the MC modules with parts, `MSpec`) adds only what the program's own threads guarantee:

- *Orders*: an `execute_command` in flight goes on, the watcher loops (weak
  fairness), and the login before an exit's dispatch succeeds if it is tried
  again and again (strong fairness of `Begin` for exits). Nothing is assumed of
  the broker's fills. The death of the thread is allowed, hence the `"dead"` in
  the properties.
- *Exits*: the watcher's passes go on (weak); a backoff ends, and the exchange
  is open and a price is there again and again when the monitor looks (strong,
  because another look or a deferral disables the action in between).
- *Risk*: the started call goes on, a dead process is restarted by its service,
  the scheduler's heartbeat comes again and again (strong for the flattening,
  because other calls of the manager come in between; weak for the others), the
  watcher dispatches. An exit that is open at the broker again and again is
  filled (strong): this one is an assumption on the broker and used by
  `Flattened` only.
- *Alerts*: a thread in `process_alert` goes on (weak); a lock that is free again
  and again is taken by who waits for it (strong, the waits are polls with a
  deadline). Nothing is assumed of fills: the wait for them times out.
- *Strategies*: a running tick goes on, a dead process is booted, the watcher
  dispatches and polls (weak), the notice of a fill gets the lock in the end
  (strong, ticks take it in between), and a minute passes for a waiting leg.
- *Services*: the consumers' loops and the restart; `run` of a service ends when it
  sees the stop event, and its thread goes on.
- *Market*: the refresher's loop and the ticks of a subscribed underlying; the
  reader's steps, and a chain that runs writes its file.

The liveness properties outside the runs need the fairness their modules state
(`FairSpec` of BrokerSession and MarketSocket, `Fairness` of StrategyHistory; for
OptionChains that the loop, the supervisor's starts and the backoffs go on).

## 5. Where code and documentation disagree

- `guard_opposite`: the guard promises to block opposite positions of two
  strategies (`execution_guard.py:126`). Adopting a broker position assigns the
  quantity to the total instead of adding it (`:343`); a later removal deletes
  the key under another strategy's position, and the opposite side is accepted.
- `orders_failed`: `FAILED` is documented as the broker's word
  (`persistence/repository.py:25`). It is also written when no answer came and
  by the risk manager, while the order may be filled.
- `exits_twice`: "EXIT execution is idempotent" (`order_watcher.py:32`). An exit
  whose dispatch lost the session stays `CREATED` and is sent by the next cycle;
  the monitor counts it as failed and makes another one.
- `risk_flatten`: the "continuous flatten loop" (`supreme_risk.py:428`) cancels
  every open order of the account, its own exit included, and
  `force_exit_in_progress` keeps it from routing another one: the position stays.

## 6. Properties that do not hold

Statements one might make of the code that its model refutes. They are defined in
the modules, with a comment that says why, and are in no run; to see the
counterexample, add the property to the run named (as in section 3).

| property | run | what happens |
|---|---|---|
| `PositionExits!StopNeverLoosens` without `m \notin raced` | `exits_watch` | the merge at the end of a pass overwrites a stop the dashboard raised during it (`order_watcher.py:687`; `:418` says that copies "don't race") |
| `AlertPipeline!EnteredOnFlat` | `alerts` | a failed positions call is an empty account: the guard forgets and the strategy enters over its own position |
| `AlertPipeline!ExitsWhatWasAsked` | `alerts` | an exit takes the position the broker shows, not the part the alert asked for |
| `AlertPipeline!ClosingAdjustmentsPass` | `alerts` | the guard sees a closing leg as one against the strategy's own position and refuses the whole adjustment |
| `ControlIntents!StrategyRowsReachTheirConsumer` | `services` | the generic consumer claims the row of a strategy and marks it `IGNORED` |
| `ClientFleet!BlockedDoNotTrade` | `services` | nothing in a client asks the permission endpoint |
| `ConfigStore!LiveLegsAreExitedLive`, `HeldStrategiesResume` | `services` | mode and status are changed in the file under a running strategy |
| `ConfigStore!NeverTorn` | `services` | two requests share one temporary file |
| `MarketSocket!RecoveredFeedDelivers` | `services` | after the supervisor's restart one book still lists what the broker has forgotten |
| `StrategyHistory!RestartRepeatsNoEntry` | `services` | the thread seeds before the strategies are registered |
| `IsolatedService!OneThread` | `services` | a stop gives up waiting, a start follows, and the old thread restarts itself |
| `StrategyLegs!KillSwitchReachesAll` | `strategies` | `exit_positions` compares contracts with the legs' symbols, which may be the underlying's |
| `StrategyLegs!SavedEntryIsFound` | `strategies` | a file whose legs all wait is deleted at the restart |
| `StrategyRules!RefusedMayTryAgain` | `strategies` | the mark of a rule stays when its adjustment is refused (`adjustment_engine.py:138`) |
| `LegMonitor!OneRecordPerRun` | `orders_entries` | the loop and a stop request archive the run before either takes it out |
| `BrokerSession!EmptyMeansFlat` | `market` | `get_positions` answers `[]` when the answer was none |
| `OptionChains!ListedChainsWork`, `ActiveChainsHaveFiles` | `market` | a recentring that failed puts a cleaned chain back; a removal unlinks the file of a chain started meanwhile |
| `ChainPrices!GreeksComeBack` with `OnFutures <- TRUE` | `market` | on MCX the last check compares the future with the spot |
| `ChainMetrics!OneSnapshotMeasured`, `NoEmptyFile` | `market` | header and rows are read by two statements; the reader creates the file it finds missing |
| `ExpirySelection!RollsForward`, `CycleIsAlive`, `ReadsTheFile` | `market` | the next expiry wraps to the first; a file is removed under a running cycle; the time kept is not that of the open file |

## 7. Proofs

The theorems hold for every value of the constants that satisfies the named
assumptions; TLC evaluates these in every run. They fix types and signs:

| assumption | of | says |
|---|---|---|
| `GuardAssumption` | ExecutionGuard | a bound on quantities, which symbols a strategy trades and sees |
| `CallersAssumption`, `BlindAssumption` | alerts | no caller is `"free"`; finitely many strategies, each with its symbols, and a bound on quantities |
| `OrderAssumption` | OrderLifecycle | entries are no exits, bounds are numbers |
| `ExitAssumption` | PositionExits | positive quantity, steps and prices; `"none"` is no source of exits |
| `RiskAssumption` | RiskManager | days are numbers, the base limit is negative |
| `LegsAssumption` | StrategyLegs | finitely many legs and strikes; the legs of the entry are not the extra ones |
| `RulesAssumption` | rules | finitely many tags; options are numbers or not set, a trail is not negative; lists of conditions and rules are finite; a profit step does one of the three things it can |
| `MarksAssumption` | rules | where an entry or a rule asks for an upward crossing, it requires it, of the spot and over the configuration's mark: the crossings that are counted |
| `IntentsAssumption`, `SymbolsAssumption` | ControlIntents | what a request may ask for, bounds; finitely many symbols |
| `ViewAssumption` | cache | a time to live of whole units, and a `None` that is no answer |
| `FleetAssumption`, `ConfigAssumption` | fleet, configurations | misses are counted, roles are those of the configuration; a name is not "no name" |
| `HistoryAssumption` | strategy history | finitely many strategies |
| `SessionAssumption`, `LimitsAssumption` | client | at least one attempt; a number of failures, finitely many callers |
| `SupervisedAssumption`, `StrikesAssumption` | chains, strikes | the supervisor is no user; deltas are numbers or unknown |

| module | theorem | states |
|---|---|---|
| ExecutionGuardProofs | `TypeCorrect` | `[]TypeOK` |
| | `DirectionsNeverFlip` | `NoDirectionFlip` |
| | `TotalsStayCovered` | `TotalsAreCovered` |
| | `ConflictsAreSeen` | `NoConflictUnseen`, where no map lists a position |
| | `EntriesFindNoOpenOrder` | `NoEntryOverOpenOrder` |
| OrderLifecycleProofs | `TypeCorrect` | `[]TypeOK` |
| | `SentOnce` | `[]AcknowledgedOnce` |
| | `ExecutedByBroker` | `[]ExecutedIsFilled` |
| | `NotifiedOnce` | `[]FillNotifiedOnce` |
| | `OneEntrySent` | `[]OneEntryPerSlot` |
| | `LifecycleKeepsContract` | `Spec => Contract!Spec` |
| PositionExitsProofs | `ExitsTypeCorrect` | `[]TypeOK` |
| | `StopIsPersisted` | `[]StopPersisted` |
| | `StopRatchets` | `StopNeverLoosens` |
| | `RetriesAreBounded` | `[]BoundedRetries` |
| | `OneSourceNeverReverses` | `[]NoReversalAlone` |
| RiskManagerProofs | `RiskTypeCorrect` | `[]TypeOK` |
| | `BreachBlocksEntries` | `NoEntryAfterBreach` |
| | `LimitRatchets` | `LimitNeverLoosens` |
| | `ProfitIsReal` | `[]PeakIsReal` |
| StrategyProofs | `LegsAreBoughtOnce` | `[]NeverDoubled` |
| | `HeldLegsAreKept` | `HeldLegsStayActive` |
| | `LockedInStaysLocked` | `[]LockedInIsKept` |
| | `CrossingsAreActedOnOnce` | `[]CrossingsActedOnOnce` |
| LegMonitorProofs | `GainsAreCountedOnce` | `[]GainsCountOnce` |
| PlatformProofs | `HitsFollowOrders` | `[]HitsSeeTheOrder` |
| | `AlertsAreCopiedOnce` | `[]CopiedOnce` |
| | `PollerBlocksForMisses` | `BlockedForMisses` |
| | `RequestsRunOnce` | `[]NothingTwice` |
| | `RestoredFeedIsWhole` | `[]RestoredFeedDelivers` |
| | `RenamesLoseNothing` | `[]NothingSavedIsLost` |
| | `TableSaysWhatWasSeen` | `[]TableIsMemory` |
| MarketProofs | `FewLogins` | `[]LoginsAreFew` |
| | `OrdersAreSentOnce` | `[]AnsweredOrdersStay` |
| | `StoresAreHeld` | `[]NoStoreLeaked` |
| | `DeltaSearchIsExact` | `[]DeltaIsNearest` |
| | `BuildUpsDoNotOverlap` | `[]NothingCountedTwice` |

*Guard.* `TotalsAreCovered` compares a total with the number of lots recorded under
it, a cardinality: `Lots` is a set of pairs of strategy and lot. A step of the guard
changes the positions of one strategy (`StepOfOne`), and of each symbol the total
follows that strategy's lots or falls behind them: an adoption assigns what it adds
to the lots, a removal subtracts what it takes from them. `LotsChange` says how the
lots of all change with those of one. Equality of total and lots does not hold when
symbols are shared (`guard_opposite` shows what follows from that). What breaks it
is an adoption, so `BlindInv` states it where no map lists a position: every total
is the sum of what the strategies are recorded with, and a direction is a key just
when its total is not zero. A sum over any number of strategies is stated without
recursion, as running totals along some numbering of them (`IsSum`), and one lemma
(`SumChanges`) says how it changes with one strategy's part.

*Alerts.* `AlertInv`: a caller past the lock holds it, and among the symbols its
`ENTRY` may still send, those with an open order of the strategy are marked as
duplicates. The look for open orders comes before the guard and the wait for the
exits of a mixed batch, and all of it is under the lock, so that no other caller
adds an order between; the broker and the watcher only close orders.

*Orders.* "One acknowledged order" is not inductive: it needs to be known that an
order which has left for the broker is marked. `SendInv` says so: the call in
flight belongs to a waiting submitter or to an exit still on the watcher's list;
from step 3 on its record is neither absent nor `CREATED`, or its command is among
the `unmarked`; whoever still waits has an existing record; and a command with an acknowledged order is waiting for
nothing, unless it is the call that has just been answered. No status write of
another thread goes back to `CREATED`, which is why cancels and expiries cannot
break it. `FillInv` adds that a known number, and the answer in flight, is of the
record's own command, that a command with a number on record is not sent again
(`KnownDone`), and that a callback was made, or is about to be (`TellingIsFilled`),
only for a record the watcher has closed. `ClaimInv` widens `OneEntryPerSlot` to include the entry between the
duplicate check and its mark: nobody else can pass the check then, because of
`_cmd_lock`, and a late number revives only a record that is marked already.

*Refinement.* Every step is shown to be `Accept`, `Settle`, `Tell` or a stutter
of the contract under `FillInv`: a second number cannot be acknowledged
(`OnlyNumber`), and the callback comes after the broker's fill and once. A step that
makes a command unmarked, or is of one, is a stutter, because the mapping has shown
nothing of it before either (`UnmarkedStep`).

*Exits.* `TypeInv` includes how a pass sorts the managed exits into those still
to look at, to keep, to drop and the one being triggered. `StopInv` relates
record, table and copy per managed exit: as long as a copy is unsettled it equals
the table, and once it is settled its stop is not below the table's and equals
the record's. An exit edited during the pass is in `raced`: of it the invariant says
only that the record has the dashboard's last value, which is in `late`, until the
merge writes the copy over the table.

*Retries.* A managed exit's orders are counted in `exits`, its failures in a copy
that is merged back and that a crash loses. `RetryInv` relates the two: beyond
what the crashes so far allowed, each order is a failure in the copy of the pass,
or in the table when there is no copy, except the one being placed; a managed
exit that is not tracked and not closed has lost its count, so it has spent no
more than that allowance; and a closed record is tracked by nobody again. Nothing
is needed about the dashboard.

*Sales.* `NoReversalAlone` speaks of the runs in which one source alone makes
orders and none is booked without an answer, and in these `SaleInv` says: at most one order is out, over no more than
the position; and as long as the source may still make one, nothing was sold,
so that the position its pass or its request has read is still the position. A
managed exit that was closed never opens again, which is what keeps a second pass
from selling what the first one sold.

*Risk.* One lemma (`Remembering`) sorts every step by what it does to the memory
and the file: nothing, a restart, in memory only, a read that is saved, a read
that is not. The invariants then take a few lines each. `BreachInv`: during a day
of a breach the flag is in the memory and in the file, both of this day.
`LimitInv`: a file of the memory's day has its limit, and otherwise the limit is
the base limit. `PeakInv`: neither memory nor file is of a day to come, and a
result better than today's best is shown only before the market opens and only
when nothing is held, which is exactly what `_update_pnl` rejects.

*Legs.* `LegInv` says of each contract of the entry, unless one of its orders was
filled though the table had it expired or not at all, or it was entered on a wrong
list: it is held once at most, and while an order of it may still buy it is not held
and no other order may buy. The table is a list that grows by a batch and is
rewritten by polls, so the lemmas say what happens to such a list. `MemoryInv` is
smaller: a strategy in the registry runs, which makes a reconciliation at a start
one of a resumed strategy; and `ViewInv` that nothing is cached while the process is
down, so that such a reconciliation is not made on an old list.

*Rules.* A tick passes the memory through the exit rules, the entry and the
adjustment rules, so the proof follows it with a relation between two memories:
`Keeps` (the stop stays locked in, and so does the place a step would put it if the
trail is an amount; the spot seen is the one seen before or that of
the tick). `RulesInv` holds it for the memory and the file, so that a restart loses
nothing, and counts a crossing that could be acted on a second time against the
crashes: only the file can be behind, and only a crash makes it the memory. What the
conditions and the rules do with it is said by three folds (`Evaluating`,
`Combining`, `Adjusting`). A fold of the community modules is a recursive function
chosen by `CHOOSE`, so it has to be shown that there is one; `FoldExists` does this
once for all of them, by a finite set's subsets of growing size, and what a fold
preserves then follows by taking a smallest subset that does not preserve it.

*Rows.* `GainInv`: a row, in the cache or in the table, has counted no more
closings than there were, and one fewer if it still shows a leg as open that is
closed by now. That second part is what a save that failed, or a table read after
a crash, leaves behind, and it is why the gain may be added once more then.

*Cache.* `ViewInv`: a call under way began after the last order, because an order
invalidates only with the lock that the call holds, and so did the call whose
answer has a stamp; a stamp of zero is too old for any hit, the clock being beyond
the time to live from the start.

*Copies, fleet.* `CopyInv`: a delivery the follower has taken is not on its way, and
not given up so that it could be sent again. `FleetInv`: the poller counts what
happened, and from its decision to the block it brings no poll can change the count.

*Requests.* `IntentInv`: a row in hand is nobody else's and will not be claimed
again, and of its legs as many are done as there are answers. A consumer looks for a
row and marks it in one transaction (`BEGIN IMMEDIATE`), so that the claim is one
step; a status that could not be written leaves the row `PROCESSING`, which nothing
claims.

*Configurations.* `ConfigInv`: what was saved is in a file that no rename is about to
unlink and no two requests are about, a request that meets no other finds in its
temporary file what it wrote, and the file a rename starts from holds what it writes
to the new one, or nothing. `saved` (`alive` in the module) leaves out what is in a
file that two requests are about: that is what the property does not promise.

*History.* `HistoryInv`: while no insert has failed, the table followed by the batch the
thread is about to insert ends, for each strategy, with an entry just when the thread
remembers the strategy as held. A batch joins the events of a set of strategies in some
order, each strategy once (`SetOnce`), so what it says of one strategy is what that
strategy's own events say (`BatchTells`). Joining is a fold as well, and `JoinedExists`
shows that there is one; `MovesAfterMoves` says which row is the last of two lists.

*Socket.* `RestoredFeedDelivers` is inductive as it stands: a subscriber's tokens enter
the client's book with the send that reaches the broker, under the lock, and a
reconnection sends the whole book under the same lock.

*Client.* `LimitsInv`: logins, and the callers that have counted a failure and not yet
decided, are together no more than the count and the callers whose count a good
answer can have reset, which is all but the one that brought it.
`SessionInv`: an order in hand has as many empty answers behind it as requests, until
the answer that ends it, and its attempt is the number of the next request; the
flags of the session that other threads change do not matter to it.

*Chains.* `ChainInv` says which thread answers for which bundle: one whose store is
about to be opened is a single thread's, and one that is aside in a recentring or
about to be dropped has no open store. A bundle that a failed recentring replaced is
`displaced` and nobody's. `OthersKeep` says what a step of one thread may
do and leave the others what they have in hand; every step is shown to be of that kind.

*Strikes, metrics.* `DeltaInv` holds the answer of the two passes against all options
of the chain; the lemma under it is that a non-empty set of distances has a least
member. `MetricsInv`: what has been measured is at most the total the next measurement
is taken against, and after a restart, which forgets the total, at most the header.

*Only model-checked.* The liveness properties (`ExitDispatched`, `HitIsActedOn`,
`BreachRouted`, `OneCallerAnswered`, `WaitingLegSettles`, `EveryRowTaken`,
`StopIsHeard`, `GreeksComeBack`, `ReaderFindsTheFile`) are out of the prover's reach.
Every other property of a passing run is stated by a theorem. The further properties
of section 3 that no theorem names were checked by TLC for its bounds only.

## 8. What is not modelled

- *Mock mode*: of `execute_command`, of the alert pipeline and of the executor;
  with it the order of `_tick_lock` and `_cmd_lock`, which mock fills take the
  other way round.
- *Alerts*: parsing, test mode, messages; several legs on one symbol.
- *Managed exits*: targets, the trailing modes other than POINTS, `trailing.py`,
  edits of other fields than the stop, several products of one symbol.
- *Risk manager*: CNC rows, warnings, OHLC statistics, status messages, the torn
  write of the state file (a save is atomic here), manual-trade signatures.
- *Startup recovery of legs*: the query uses the strategy's name as the user and
  finds nothing, so there is no behaviour to model.
- *Strategies*: most parameters a condition may name (four stand for them), the
  arithmetic of single greeks, the recover-resume intent, validation
  (`config_schema.py`), which is a pure function of a payload.
- *Broker client*: the OAuth login, normalisation of answers. *Option chains*: the
  pricing formulas, the rows, the instrument master. *Copies*: signatures of
  requests. *Analytics*: the clean-up of ticks, the PostgreSQL store, which makes
  the same calls on another server.
- *Fyers broker and chain service*: requests and translations without state beyond a
  token and a cache. *HTTP, dashboard and Telegram interfaces*: parsing and
  rendering; where a route changes state it is an action of the component's module.
- *Settings, installation scripts, logging, notifications.*

The hazards the code is exposed to, each at its line and with the properties that
cover it, are listed in `PROJECT.json`.

## 9. Plan

Done: the core with its proofs, the alert pipeline over the guard, the control
intents, the strategies (legs, rules, rows, strikes, expiries), the client, the
market data and the services around them. Next, in this order:

1. Proofs: of the safety properties outside the runs, the cooldown of the risk
   manager, the truth of a request's status, the alternation of a strategy's events
   and the books of the socket.
2. Refinement: the legs of a strategy keep an abstract position of their own, which
   `StrategyLegs` implements as `OrderLifecycle` implements its contract.
3. Mock mode of `execute_command` and the two locks of the executor, with deadlock.
4. The composition of `StrategyRules` and `StrategyLegs` over one state.
5. Managed exits: targets and the other trailing modes.
