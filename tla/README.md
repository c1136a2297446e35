# TLA+ models of the trading bot

The bot opens futures positions on Binance from candle signals, protects each
position with a take-profit and a stop-loss order, and throttles itself by risk
rules and kill switches. It is one Python process of many threads: a scheduler
that polls candles and runs the entry callbacks, a pool that fetches candles,
follow-up threads that enter a second position, one monitor thread per
position, and one thread per alert. They share locks, caches and the account on
the exchange, whose orders fill, expire and close positions at any moment. These
modules model that control; prices, indicators and texts are abstracted. Beside
the bot stands a backtest, which downloads candles with a pool of threads and
simulates the strategy with a pool of processes.

## 1. The system

| Part | Code | State it keeps | Operations | Talks to |
|---|---|---|---|---|
| Market data stream | `data_stream.py` | candle deque, frame cache and dirty mark per (symbol, interval) | `load_initial`, scheduler loop, `_fetch_and_update`, `get_dataframe` | exchange; calls the entry callback; monitors read frames |
| Signal service | `services/signal_service.py` | indicator cache | `evaluate_interval_signals` | reads frames |
| Entry service | `services/entry_service.py` | `last_close_ms`, entry lock, position cache | `_on_close`, gates, `_submit_entry`, `_launch_monitor`, follow-ups | stream, risk, kill switches, exchange, monitors, alerts |
| Position service | `services/position_service.py` | cached account snapshot | `count_active_positions`, `PositionCache`, clean-up, orphan recovery | exchange |
| Entry orders | `execution.py` | one limit or market order in the works | limit with market fallback, limit only | exchange |
| Executor registry, metadata | `services/bootstrap_service.py`, `services/exchange_metadata_service.py` | executors with their leverage, symbol filters, two locks | `get_executor`, `setup`, lazy load | exchange |
| Position monitor | `monitor_runtime.py`, `monitor_protection.py`, `monitor_orphan.py`, `execution.py` | references of TP and SL, stop level, guard timers | placement, fill check, safety check, early exit, breakeven, report | exchange; reports to risk, kill switches, cache |
| Risk manager | `risk.py` | losses in a row, day, equity, pauses | `can_trade`, `update_trade`, `save`, `load` | asked by entries, told by monitors |
| Kill switches | `services/operational_service.py` | failure counters, suspensions | `record_*`, `can_open_new_entries`, `heartbeat` | all of the above |
| State files | `persistence.py` | `logs/*.json`, `*.tmp`, `*.bad-*` | atomic write, safe load | risk, kill switches |
| Application | `services/runtime_controller.py`, `services/bootstrap_service.py`, `main.py` | shutdown event, the threads | bootstrap, recovery, signals, shutdown | everything |
| Alerts | `services/telegram_service.py` | send lock, time of the last message | `send` with retries | Telegram |
| Settings and universe | `config.py`, `services/bootstrap_service.py` | the environment, the settings, the symbols to scan | `load_env`, `from_env`, `load_symbol_universe` | `.env`; exchange |
| Loss scaling | `monitor_scaling.py`, `monitor_state.py` | levels done, attempts, backoff | `evaluate_loss_scaling` as a monitor's `scale_fn` | exchange; no caller passes it today |
| Backtest | `backtest/backtest.py` | series, cache files, granted weight, trades | download, simulate, merge, report | exchange, files |

What is hard here:

* **interleaving** of callbacks, follow-ups, monitors and the exchange between
  any two requests;
* **stale answers**: a snapshot, frame or order status read before another
  thread or the exchange changed it, and used afterwards;
* **partial failure**: two-request operations (TP and SL; cancel and replace)
  of which one fails, and requests that are carried out though their answer is
  lost;
* **restarts**: what a process leaves on the exchange and on disk, and what the
  next one makes of it;
* **time**: pauses, suspensions, guards and polls that race late answers, and
  a scheduler whose rounds may outlast the boundary they wait for.

What makes each part correct, in a sentence: the account holds at most
`max_positions` and each position is watched (entry); a limit that was hit stops
trading for its whole time and no longer (risk, kill switches); TP and SL
always exist, are never loosened, and the reported result is what happened
(monitor); the latest candles are complete, in order and evaluated once
(stream, schedule); signals rest on their own frame (signals); the reported
quantity is what is held, and the leverage is the one in force (orders,
registry); an enlarged position is covered by its orders (scaling); no saved
state is lost and no start removes a protection (files, application); settings
that depend on each other agree and what was asked for is scanned (settings);
a simulated trade is one a trader could have made, and the report is about
whole series and whole tasks (backtest).
`PROJECT.json` lists the hazards line by line.

## 2. Modules

| Module | Models | How it corresponds |
|---|---|---|
| `AccountLimit` | what the entries promise the account: at most one entry at work, let in only while there is room | abstract; `EntryService!Working` is the refinement mapping |
| `EntryService` | a callback from candle close to monitor launch, follow-ups, position cache, entry lock | one thread per scheduler and follow-up; an action per request or locked section; `Entry(t)` is the entry a thread is about to make |
| `RiskManager` | the throttle, its file, shutdown, crash, restart | a call is stamped before the lock is taken and executed later, as `can_trade(datetime.now())` is |
| `OperationalService` | suspensions and their counters | a method under the RLock is one step; time is what is left of a suspension |
| `PositionMonitor` | one monitor from launch to report, new entry or orphan | one action per request; the exchange fills and expires TP/SL pairs between them |
| `MarketDataStream` | one (symbol, interval): load, polls, frame cache, deduplicated callback | a candle is its index and whether it had closed when it was fetched |
| `CandleSchedule` | the scheduler thread over several intervals, and `stop()` | a clock; waking, polling and each callback take time, callbacks as long as they like |
| `SignalScan` | a scan of the universe with the indicator cache | the indicators of a frame are the frame they were computed from |
| `TelegramService` | alert threads, send lock, pauses, retries | time is counted down |
| `EntryOrder` | one entry order, both styles | lots filled, seen and reported are kept apart |
| `ExecutorRegistry` | executor setup and filter load of several threads | leverage of the executor and of the exchange are kept apart |
| `StateFile` | one state file over several processes | a version number held twice: fields loaded first and last |
| `BotApplication` | startup, recovery, shutdown over several processes | the parts above reduced to what crosses a restart |
| `Configuration` | from the `.env` file to the settings, from two requests to the universe | a setting of each kind; a text is what is left of a line |
| `LossScaling` | the three levels of an enlarged position | an action per request; quantities known, held and protected are kept apart |
| `BacktestDownload` | the download pool, the rate limiter, the cache files, ctrl-C | a candle is its index; granted and requested weight are kept by age |
| `BacktestSimulation` | the walk of a series, its trades, merge, sort and equity curve | a candle is the set of a trade's prices it touches; trades keep the candles they saw |
| `EntryServiceProofs`, `RiskManagerProofs`, `PositionMonitorProofs`, `OperationalServiceProofs`, `MarketDataStreamProofs` | proofs about the module of that name; the last two also about `MCServices` and `MCMarketData` | section 5 |
| `ServiceProofs` | proofs about `TelegramService`, `EntryOrder`, `LossScaling`, `StateFile`, `BotApplication`, `Configuration`, `ExecutorRegistry` and `AccountLimit` | instances with every constant and variable a parameter |
| `CandleProofs` | proofs about `CandleSchedule`, `SignalScan`, `BacktestDownload` and `BacktestSimulation` | the same; division lemmas first |
| `ExecutionProofs` | proofs about `MCExecution` | instances of `ServiceProofs` at the constants of its scenarios |

Operators with a suffix (`StepDown_Unbounded`) are mutated forms of the definition
that follows them: `PROJECT.json` names, for each property, the mutant that
breaks it.

The `MC` modules instantiate a component several times with different
constants. A variable `scenario` is chosen in the initial state and never
changes; the steps are those of the instance it names. A property
of an `MC` module bears the name of the component's property it stands for, which
it demands in the scenarios it names; it is called `...MC` where the module
extends the component, so that the name is taken, or where it combines several.
`MCMarketData`, `MCExecution` and `MCServices` hold several components side by
side, of which one moves per scenario and the others rest in a fixed state.
Modules that are only instantiated state what they assume of their constants as
an operator, which the `MC` module assumes of each of its instances.

Components are composed through what one leaves open for the other:
`EntryService` lets `can_trade` and `can_open_new_entries` answer either way
(RiskManager and OperationalService say when each does) and an order end in any
of the ways `EntryOrder` ends; `SignalScan` takes rows that arrive at any
moment, as `MarketDataStream` delivers them, and `MarketDataStream` takes polls
and callbacks at any moment, as `CandleSchedule` makes them; `LossScaling` is the
one turn `PositionMonitor` leaves out; `BotApplication` takes entries,
monitors and the file as single steps.

## 3. Runs

Passing:

| Run | Shows | Scenarios and bounds |
|---|---|---|
| `risk_scenarios` | A streak of losses costs its pause; a day over its loss limit stays closed, across restarts too; the cooldown counts from every close, old stamps included. The limit and the streak except the day of a restart, whose baseline is the balance it found | *day*: two threads, 8 ticks over two days, 4 trades, exact stamps; *skew*: stamps up to one tick old, within one day, one restart; *restart*: exact stamps, two restarts or crashes, 2 trades |
| `entry_scenarios` | Never more than `max_positions`, and every step one that `AccountLimit` allows; the lock is held by the placing thread only; every position is monitored; no candle is entered twice | *live*: 3 symbols, 2 positions, scheduler and a follow-up, 2 candles; *race*: two intervals; *limit*: limit-only; *faults*: every fault; *paper* |
| `monitor_scenarios` | Reported results happened; the stop is never moved back; a lost stop is restored; with algo orders every close is noticed | *entry*: 2 faults anywhere, expiries, outside closes, max hold; *orphan*: the same for a recovered position; *algo*: no fault. Five TP/SL pairs: no behaviour of a run needs a sixth |
| `services` | A failure at its limit suspends entries for the whole time; a recovered counter frees its suspension; alerts keep their distance and end | *race*: two callbacks, two errors or order failures at the limit, lost orphans; *recovery*: one callback, errors, order failures, idle scheduler; *endless*: no end; *turns*: 3 alerts; *ends*: 2 alerts with all 5 attempts. A suspension lasts two ticks; counters stop at their limits, beyond which the code tells nothing apart |
| `market_data` | The latest candles are complete and final; a clean frame is the series; closes are evaluated once, in order, and none is lost but in a round that lasts too long; signals use their own frame; downloaded series are whole, downloads end; simulated trades and their report are true | *tail*, *single*, *late* of the stream (a window of 4, four to six candles beyond it; one missed poll in *tail*, up to three in the others); *rounds*, *overruns* of the schedule (a higher close for every second main one, callbacks of one tick or longer than a main candle, 5 or 6 main closes); *cache* of the scan (window 2, so it fills with the second row and moves with the third); *pages*, *bans* of the downloads (2 pages, a budget one page short of two, 2 attempts); *series*, *merge* of the simulation (a series of up to four overlapping trades; 2 symbols of 2 series, failures, ctrl-C) |
| `execution` | Settings are coherent and the universe holds what was asked for; executors are at the leverage in force; quantities reported are held, nothing rests after an entry; an enlarged position is covered; saves survive; restarts keep the protection; entries, loads and shutdowns come to an end | *settings* (every file of up to two lines, every environment with up to one variable), *universe* (3 symbols, every request, every answer); *setup*, *calls* of the registry (2 threads, leverage 12 tried as 12, 7, 2, 1 against limits 0, 1, 11, 20, where 0 takes no leverage at all; in *calls* setup gets no other error, so that nothing but its own code ends it); *fallback*, *lossy*, *limit* of the order (5 or 6 lots, 3 polls); *scaling*, *faulty* (3 levels, 3 or 2 attempts); *crash*, *edited* of the file (4 processes); *restart* (limit-only, every fault), *watched* (market fallback; reads of positions and orders, clean-ups and saves may fail), *stops* (limit-only; orphans, entries and saves may fail) of the application (2 symbols, 3 processes) |

Why these bounds are enough: each is the smallest that lets its case happen and
one step of it happen again. Three symbols for two positions give two threads a
last place to compete for; a streak of two needs four trades to be broken and
rebuilt; a window of four rows overflows twice; three processes make a restart
of a restart; two faults can hit both halves of a TP/SL placement or the same
half twice; two lines of a file can name one variable twice, or both bounds that
must be in order; a budget of three makes a second page wait for the first to
age; a hold of two candles with a skip of one makes trades overlap. For the
limit of positions and for the registry the theorems remove the bounds.

Refuting, each by a property that quotes the repository:

| Run | What the code does |
|---|---|
| `risk_stuck_pause` | a daily pause saved at shutdown and loaded on a later day blocks that day: `init_equity` sets the day without clearing it |
| `monitor_stuck` | a TP that fills between fill check and safety check leaves a monitor that never ends and keeps cancelling the symbol's orders |
| `monitor_network` | a failed placement in the breakeven replacement ends the monitor with no stop on the exchange |
| `ops_renewed` | each heartbeat renews a suspension whose counter only an entry could reset |
| `stream_duplicates` | each poll appends candles the series already holds |
| `order_overfill` | lots filled between the last poll and the cancellation are bought a second time |

Further statements of the repository the models refute. Their definitions stay
in the modules and are not part of a run; to reproduce one, name it as the
INVARIANT or PROPERTY of a configuration with the constants given:

| Definition | Refuted with | Reason |
|---|---|---|
| `RiskManager!BaselineSurvivesRestart` | one restart | `init_equity` moves the drawdown baseline to the balance (risk.py:57) |
| `PositionMonitor!GivesUpOnlyWhenClosed` | two faults | the wait for the position ends while the placement is being retried |
| `PositionMonitor!NoFalseFills` | `StaleList`, `Algo` | only the breakeven arms the two-second guard |
| `PositionMonitor!OpenIsNotFilled` | `Algo`, one fault | a failed request for an algo order counts as absent |
| `PositionMonitor!ProtectionReused` | `Orphan` | the earlier orders carry another client-id prefix |
| `MarketDataStream!CleanCacheIsSeries`, `EvaluatedOnce` | one reader | a frame built outside the lock is cached as clean |
| `EntryOrder!NotFilledHoldsNothing` | `LimitOnly` | a limit-only order that filled in part is reported as not filled |
| `ExecutorRegistry!MarginTypeApplied`, `RiskBudgetUsed` | a margin fault; a limit below the setting | any margin error is passed over; sizing uses the configured leverage |
| `StateFile!OnlyCorruptMoved`, `ReportedIsMoved` | a read fault; an edit | a read error counts as corruption; a file that is no object stays |
| `BotApplication!PositionsWatched` | `DieInEntry`; `LimitOnly`, `entry` or `price_at_stop` alone | a resting order of the process before; an entry that holds a position is reported as not filled (entry_service.py:745, 944) or ends at its stop (766), and no monitor is launched |
| `BotApplication!ShutdownSavesAll` | one report during shutdown | the state is saved before the threads end |
| `TelegramService!RetryAfterHonoured` | two alerts | only the thread that got the 429 waits |
| `CandleSchedule!NothingLost` | `MaxCall` above a main period | a boundary that passes in a round is skipped, and a higher close with it |
| `Configuration!ZeroDisablesHold` | any file with the line | `.env.example:93` says 0 disables; it is raised to 1 (config.py:338) |
| `Configuration!BlockedAsWritten` | any file with the line | `4h` is upper-cased and compared with `4h` (config.py:152, signal_service.py:226) |
| `Configuration!LiveOnlyIfAsked` | an empty or misspelt switch | any text but 1, true, yes and on means live (config.py:147, 189) |
| `Configuration!OnlyLiquid` | tickers that are not answered | without prices nothing passes, and then everything does (bootstrap_service.py:178) |
| `LossScaling!MaximumRisk` | `lost` | each attempt of a level may have bought |
| `LossScaling!ClosedWhole` | `replace` | the added quantity is not in what `close_all` closes (execution.py:661) |
| `BacktestDownload!FileIsWhole` | `ban` | bans that end the paging leave the newest pages as the whole series |
| `BacktestDownload!RequestsWithinBudget` | `error` | retries are not asked of the limiter (backtest.py:13, 386) |
| `BacktestSimulation!NoOverlap` | `Skip < Hold` | 10 candles are skipped after a signal, a trade may last 50 (backtest.py:30, 142) |
| `BacktestSimulation!DrawdownHasPercent` | a first trade that loses | the peak is 0, and 0 % is printed (backtest.py:1171) |

## 4. Fairness

Fairness is given to what the code keeps doing and to nothing else. Callbacks,
setups and orders step on because each request has a timeout and the code
retries a bounded number of times; the downloads of the backtest have the
threads of their pool and a clock that lets granted weight age, though any
request may fail and any other download may take the budget first; the kill
switches have the heartbeat loop and the clock; the monitor has its loop and the
timers it waits for; the alerts have the clock, and the lock because the number
of messages is finite; the application has its main thread and the container
that restarts it. The market owes nothing: no order has to fill and no position
to close. Answers may fail for ever where a property allows it.

## 5. Proofs

Theorems for every value of the constants that the named assumptions allow:
finite, distinct identities, positive limits, a sensible order of the numbers.
In `ServiceProofs` and `CandleProofs`, whose components have no assumption of
their own, it is the first hypothesis of each theorem. The bounds the models
put on counters are constants too: the theorems hold for any of them.
`PROJECT.json` lists 60 of them; the type theorems of the components of these
two modules stand beside.

Each component has a type theorem, most
with what the labels say of the local variables, since the type alone is seldom
inductive. The others:

| Theorem | States | Hypothesis | By |
|---|---|---|---|
| `EntryServiceProofs!MaxPositionsTheorem` | `MaxPositionsHeld` | no `stray_limit` | `SafetyInv`: exactly the thread between the recheck and the end of its placement holds the lock; an order on the book is that thread's; the recheck left room for it |
| `!LockTheorem` | `LockInv` | | `EntryInv`: with it, paper trading never reaches the exchange |
| `!RefinementTheorem` | `ImplementsAccountLimit` | | `EntryInv`: one case per kind of step (outside the lock, taking it, the holder's, a fill, a close); an order given up on may fill later, as the property says |
| `!AccountTheorem` | the behaviour is one of `AccountLimit` | no `stray_limit` | `SafetyInv` and the refinement |
| `!MonitoredTheorem` | `EveryPositionMonitored` | no fault, market fallback | itself, `SafetyInv` and `EntryInv` |
| `!EnteredOnceTheorem` | `SameCandleEnteredOnce` | live account, no `stray_limit` | `EnteredInv`: what was entered is on the exchange |
| `RiskManagerProofs!CooldownTheorem` | `CooldownAfterEveryClose` | | `CooldownInv`: no trade in state or file is younger than the remembered one by more than the skew of the stamps |
| `!PauseOfOneDay` | `PauseHoldsAllDay` | calls served on the day of their stamp | `PauseInv`: state and file are paused if their day was |
| `!DailyLossTheorem`, `!StreakTheorem` | `DailyLossLimit`, `StreakServesPause` | the same | `DayInv`: since a day without a restart began, the balance is its start less what its trades lost, and the loss count is the length of the run of losses that ends the day, or the pause it cost has been set or is over. Sums and runs by induction on the trades (`LeastNumber`) |
| `!ExactStamps` | all three | exact stamps, of which the hypothesis follows | the three above |
| `PositionMonitorProofs!StopTheorem` | `StopNeverLoosened` | | `StopInv` |
| `!ResultById` | `ResultIsTrue` | orders with ids | `ResultInv`, `IdInv`: what a turn has read as filled stays filled |
| `!ResultByListing` | `ResultIsTrue` | algo orders listed at once, no fault, nobody else | `AlgoInv`: while the position is open both orders are; afterwards both are gone or one is filled |
| `OperationalServiceProofs!SuspensionTheorem` | `SuspensionServed` | | `ServedInv`: what is left of a suspension is at least what its failure still costs |
| `MarketDataStreamProofs!CleanCacheTheorem` | `CleanCacheIsSeries` | | itself, and that each row stored marks the cache |
| `!OrderTheorem` | `EvaluatedInOrder` | `OneByOne` | `AheadInv`, `FramesInv`, `OrderInv`, `EvaluatedInv`: rows in hand, frames and closes are ordered by time |
| `!TailTheorem` | `TailComplete` | `OneByOne` | `BridgeInv`, `TailInv`: the rows of a poll begin where the series is |
| `ServiceProofs!SpacingTheorem` | `TelegramService!SendsSpaced` | | `SpacingInv`: who holds the lock has waited, or still waits, what is missing |
| `!ReportTheorem` | `EntryOrder!ReportIsHeld` | | `OrderInv`: what is known filled has filled |
| `!RestTheorem` | `EntryOrder!NothingRests` | no `lost_cancel` | `RestInv` |
| `!CountTheorem` | `EntryOrder!OnlyUnseenMissing` | no `early_answer` | `CountInv` |
| `!ScalingTheorem` | `LossScaling!ScaledPositionCovered` | only `refused`, `replace` | `CoveredInv`: the quantities while a level is bought and its orders replaced |
| `!SavedTheorem` | `StateFile!SavedSurvives` | no `read`, `edit` | `SavedInv`: the file is the last save, the snapshot on its way is not older |
| `!ProtectionTheorem` | `BotApplication!ProtectionKept` | | `ProtectedInv`: a process on its way to a cleanup has seen that nothing is protected |
| `!WatchedTheorem` | `BotApplication!PositionsWatched` | market fallback, requests of entries succeed and none fills at its stop, no death in an entry, orphans can be fetched and resumed, one universe | `WatchedInv` |
| `!SettingsTheorem` | `Configuration!SettingsCoherent` | | `SettingsInv`: what a line leaves in the environment, and `BoundedLemma`: a bounded number is in its bounds |
| `!UniverseTheorem` | `Configuration!UniverseHonest` | | `UniverseInv`, `RankLemma`, `TopLemma`: ranks by volume and name are distinct, so that the top holds no more than its count and is empty only of nothing |
| `!LeverageTheorem`, `!SetupOnceTheorem`, `!StepDownTheorem` | `LeverageAgrees`, `SetupOnce`, `LeverageNotWasted` | | `SetupInv`: the lock is held by the thread in setup, its symbol has no executor, its leverage is the first or less than five below the limit |
| `!LimitTheorem` | `AccountLimit!WithinLimit` | | `LimitInv`: an entry at work keeps its room |
| `CandleProofs!ClosesTheorem` | `CandleSchedule!EachCloseOnce` | | `ScheduleInv`, and lemmas on the multiples of periods: between two looks of the loop lies at most one main close, and an interval is due exactly when it closed there |
| `!NothingLostTheorem` | `CandleSchedule!NothingLost` | `RoundsFit` | `RoundInv`: what the polls and callbacks that are left may take ends before the next main close, so that none falls into a round |
| `!IndicatorsTheorem` | `SignalScan!OwnIndicators` | | `ScanInv`, `TokenLemma`: length and last row tell two windows of one symbol apart |
| `!CacheTheorem` | the indicator cache stays within its limit, one entry of each symbol and kind | | `ScanInv` |
| `!CandidatesSorted` | every sort of `SignalScan` is stable and total, by falling score | | `ScanTypes`, `RankLemma`: the ranks are a bijection onto the places |
| `!WholeTheorem` | `BacktestDownload!SeriesWhole` | | `WholeInv`: a task has the candles after the end of its next page, and pages on while they are fewer than asked for |
| `!GrantedTheorem` | the limiter of `BacktestDownload` grants no more than `Budget` within `Ticks`; of what is requested TLC refutes it (`RequestsWithinBudget`) | | `BudgetInv`; `TotalAdd`, `TotalAged`: what a grant and a tick do to the sum |
| `!TradesTheorem` | `BacktestSimulation!TradesTrue` | | `SimulationInv`: the candles scanned so far touched nothing and are not the last, and the context at hand is that of the candle |
| `!TrueReportTheorem` | `BacktestSimulation!ReportTrue` | | `ReportInv`: what is merged are whole tasks, each in the order of its walk; `SortLemma`: the ranks of the sort are a bijection; `CurveLemma`, `StreaksLemma`: after each trade the running figures are those of the curve so far |

What the runs of `MCServices`, `MCMarketData` and `MCExecution` check is proved
too, of `MCSpec` itself and for any value of what its configuration gives:

| Theorem | States |
|---|---|
| `OperationalServiceProofs!AlertsSpacedTheorem` | `SendsSpaced` |
| `MarketDataStreamProofs!ScheduledCloses`, `!CachedIndicators`, `!DownloadedSeries`, `!SimulatedTrades`, `!SimulatedReport` | `EachCloseOnceMC`, `OwnIndicators`, `SeriesWhole`, `TradesTrue`, `ReportTrue` |
| `ExecutionProofs!PartsTypeCorrect`, `!StartupHonestTheorem`, `!LeverageAgreesTheorem`, `!ReportIsHeldTheorem`, `!ScaledCoveredTheorem`, `!SavedSurvivesTheorem`, `!PositionsWatchedTheorem`, `!ProtectionKeptTheorem` | `TypeOKMC`, `StartupHonestMC`, `LeverageAgrees`, `ReportIsHeldMC`, `ScaledPositionCovered`, `SavedSurvives`, `PositionsWatched`, `ProtectionKept` |

The argument is the same in each. A behaviour stays in its scenario
(`StaysInScenario`) and only the part of that scenario moves
(`OneComponentMoves`, `OnePartMoves`), so that it is a behaviour of the
component, as it is instantiated by the proof module at the constants of the
scenario; there the general theorem holds, once its hypotheses on those constants
are shown (that the scenario has none of the faults it excludes, that its rounds
fit: `AmpleRounds`). The assumptions on the constants are the `ASSUME`s of the
`MC` module, which TLC evaluates.

Why the hypotheses are there:

* a fault is excluded where the code does not withstand it: TLC refutes
  `MaxPositionsHeld` with `stray_limit` and a third symbol, `NothingRests` with
  `lost_cancel`, `OnlyUnseenMissing` with `early_answer`, `ScaledPositionCovered`
  with `lost` or `close`, `SavedSurvives` with `read` or `edit`,
  `PositionsWatched` with `DieInEntry`, `LimitOnly`, `entry` or
  `price_at_stop`. All other faults may happen in the proof;
* `OneByOne` says that the requests of one key do not overlap: a poll that
  outlives its wait, with a second worker free, stores old rows after new ones,
  and TLC refutes `TailComplete` and `EvaluatedInOrder`;
* `RoundsFit` says that a round which starts late, polls and makes a callback for
  every interval ends before the next main close (`RoundLimit`); nothing in the
  code enforces it, and without it TLC refutes `NothingLost`;
* a call stamped just before midnight and served after a call of the new day
  rolls the day of the risk manager back (section 6);
* an algo order that is not listed counts as filled: each part of the setting of
  `ResultByListing` is needed.

Two properties speak of a history variable for the same reason: `TailComplete`
holds until a fetch finds the series more than two candles behind (`outage`),
`CleanCacheIsSeries` and `EvaluatedInOrder` until a thread caches a frame of
rows that had changed (`stale`).

The argument that recurs is the one on the entry lock. The gates before it read
snapshots that may be outdated, and appear in no part of it; every step outside
the lock leaves positions and orders alone or makes them fewer (`OutsideStep`),
and what the holder found in the recheck therefore stays true until its order is
placed.

Only model-checked:

* liveness (`StopRestored`, `CloseIsNoticed`, `RecoveryResumes`, `SendsEnd`,
  `DownloadsEnd`, `EntryCallsEnd`, `StopsOnSignal`): fairness and ENABLED are out
  of the provers' reach;
* `EveryPositionMonitoredMC` and `SameCandleEnteredOnceMC` of `MCEntryService` and
  `TypeOKMC` of `MCMarketData`, as they stand: for the component and any
  constants they are `MonitoredTheorem`, `EnteredOnceTheorem` and the type
  theorems, which are not carried over to the scenarios of these two modules.

Every other property of the passing runs has a theorem, under the hypotheses of
the tables.

Sums, curves and counts are recursive functions. The library's induction cannot be
instantiated; a proof takes the least number at which the claim would fail
instead (`LeastNumber`), for the existence of the function as for what it
computes. Filters and folds of the library take an operator and stay out of reach,
so that no property a theorem states uses one.

## 6. What is abstracted, and what is not modelled

* Prices decide nothing but the level of a stop and whether a fill equals it.
  Quantities are lots; rounding is left out.
* `MarketDataStream` has one key, whose series does not depend on the others;
  `CandleSchedule` has the intervals and leaves the candles out.
* `TailComplete`, `CleanCacheIsSeries` and `EvaluatedInOrder` say up to when the
  code keeps them (section 5); without that they are refuted (section 3).
* The daily rules of the risk manager hold while calls are served on the day of
  their stamp: a report stamped just before midnight and executed after another
  thread's first call of the new day rolls the day back. `DailyLossLimit` and
  `StreakServesPause` except the day of a restart (`restartDay`), which starts
  from another balance and may have lost a crash's count.
* `PositionMonitor` has one monitor and one symbol; two monitors on one symbol,
  as `monitor_stuck` can cause, are not composed. The `RuntimeError` a monitor
  dies of when a placement is answered without an order id (execution.py:414) is
  left out; `LossScaling` has it (`NoId`).
* `MarketDataStream` and `SignalScan` tell rows apart by their candle and by
  whether it is closed: a forming candle that is fetched again with other values
  counts as unchanged.
* `EntryOrder` subtracts lots exactly. The code subtracts floats and rounds the
  rest down (execution.py:328, 335), so that its market order may be a lot short.
* `LossScaling` leaves out the early returns after a fill at
  monitor_scaling.py:184 and 188, for an average price or a distance of 0.
* In `BotApplication` a position closes by its TP or SL only; `PositionMonitor`
  has closes by others. Why an entry ends as not filled is in `EntryOrder`; here
  any entry may, with `LimitOnly` or the fault `entry`.
* `Configuration` has one setting of each kind; the others differ in name,
  default and bounds. It is told apart from the exchange's pairs only by what is
  tradable, liquid, allowed and asked for.
* `LossScaling` and `PositionMonitor` are not composed: nobody passes `scale_fn`.
* `ReportTrue` does not fix the order of trades entered on one candle: the sort
  is stable, so they stay in the order in which their tasks were collected, and
  the drawdown of two runs over the same candles may differ.
* Not modelled: the strategy and the indicators, pure numerical filters of a
  frame that keep no state and whose verdict depends on floating-point values
  (the scan and the simulation leave it open); the early-exit verdict, for the
  same reason; the other sizing modes and the rounding; the list of symbols, the
  CSV files and the tables of the backtest; the operational report files; the
  price helper of `exchange_utils.py`.

## 7. Plan

Models that would come next: `EntryService` with `RiskManager` and
`OperationalService` in place of free answers, and two monitors on one symbol.
