# Formal models of vaisravana-alpha

TLA+ modules that model the parts of `vaisravana_alpha` with state worth
checking, TLC configurations that check them on small instances, and TLAPS
proofs of the invariants that matter most. Paths are relative to the package,
`src/vaisravana_alpha/` in the repository, unless they start with `docs/` or
`README`.

    tlc -workers 4 -config Core.cfg MCWaveEngine     # any row of "Runs" below
    tlapm WaveEngineProofs.tla

`PROJECT.json` maps each definition to the source lines it models.

## 1. The system

vaisravana-alpha is a paper-trading scalper. One process reads prices of many
pairs, opens short-lived positions ("waves"), surfs and closes them, and keeps
two SQLite databases. A command line evaluates finished or running runs.

| component | source | state | operations |
|---|---|---|---|
| Tick handler | `engine/runtime.py` | `_last_trade_ts`, `state` (ticks, opens, closes, `stop_requested`, `started_ts`) | `on_tick` = context update, scan, admission (`_entries_allowed`, `_try_open`), `_manage_open_waves`, exit engine, cooldown purge, wallet check, heartbeat |
| Wave manager | `execution/manager.py` | `waves`, `cooldowns` | `open`, `on_tick` (R, peak, trailed stop), `evaluate_exit`, `close`, `tick_cooldowns` |
| Paper wallet | `execution/wallet.py` | balance, fees, realized; a JSON file | `charge_fee`, `credit_pnl`, `notional_for`, `save`, `load` |
| Kill switch, excluder, throttle | `execution/risk.py` | daily loss, its day, tripped | `record_loss`, `check_daily_dd` |
| Trading journal | `storage/db.py` | tables `wave_log`, `trades` | insert on open, update and insert on close, sweep at boot |
| Lifecycle | `engine/runtime.py`, `__main__.py` | stop flag file, `stop_requested` | boot, `request_stop`, `clear_stop`, `/stop`, `/resume`, signals |
| Command listener | `notify/telegram.py` | `_offset`; the update queue at Telegram | `getUpdates`, filters, dispatch |
| WebSocket feed | `marketdata/feed.py` | `_running`, one socket per `connect` task | connect, read, back off, `stop` |
| REST poller | `marketdata/rest.py` | `_running`, `_pairs` | cycle over the pairs, sleep, `stop` |
| Universe ranker and refinement | `strategy/universe_ranker.py`, `engine/runtime.py` | all pairs, scores, ranking, `first_update`, the pair list, the persisted list | list at boot, score every 60 s; the first score replaces the list and restarts both feeds |
| Agentic ledger | `storage/agentic.py` | runs, trades, gate_rejections, evaluations, decisions, iterations | `start_run`, `heartbeat`, `record_trade`, `record_rejection`, `finish_run`, `record_evaluation`, `record_decision`, `settle_iteration` |
| Evaluation layers and CLI | `evaluation/layers.py`, `evaluation/cli.py` | none of their own | six layers, promotion rule; `report`, `promote` |
| Indicator context | `engine/context.py`, `on_kline` | per pair: candle windows, averages, trend, flow, regime | `append_kline` and the refreshes, from two feeds |
| SMC zone cache | `strategy/smc.py` | zones of a pair | detection from a window, lookup by price |
| Exit engine | `engine/exit_engine.py`, `_evaluate_exit` | prices, delta, swings, volume profile, last sweep | classify, score, decide on each tick of a watched pair |
| Strategy | rest of `strategy/` | none | scan, bias, gates, levels |
| Broker boundary | `execution/broker.py` | the mode | built at boot, never called by the trading path |
| Cards, settings, statistics, collector | `notify/cards.py`, `core/`, rest of `evaluation/`, `realtime-data/` | none that trading reads | pure or outside the process |

### How they interact

* **One event loop.** The WebSocket feed, the REST poller and the universe task
  are coroutines. `on_tick` has no `await`: it is one uninterrupted step of the
  loop, but the *process* can die between any two of its durable writes.
* **One more thread.** The Telegram listener runs `/stop` and `/resume` at any
  moment, also in the middle of a tick, and touches the same flag file as the
  boot and the signal handlers.
* **Durable state.** The wallet file is saved after each mutation. The journal
  commits each statement. The agentic database commits each statement *except*
  `record_rejection`, whose transaction stays open, with SQLite's write lock,
  until the next commit of the same connection.
* **Other processes.** `alpha-eval report` and `alpha-eval promote` open their
  own connection to the agentic database while the engine writes it.

### What is hard about it, and what makes each part correct

| part | hard behaviour | correct when |
|---|---|---|
| tick handler | crash between two writes; stop during a tick; entries suppressed while waves are open; exceptions out of the exit engine | the journal, the wallet and the book agree after any crash; every open wave is valued on every tick of its pair; openings stay rate-limited over restarts |
| manager | long sequences of opens, closes, cooldowns; exchange minimum above the risk-based size; order of the exit rules | one wave per (pair, side), never above the cap, never larger than the balance; a wave that banks, banks in profit |
| wallet | fees and results saved one at a time | balance = start + realized - fees, each result credited once |
| kill switch | loss, day and trip are three pieces of state | once tripped no wave opens |
| journal | each write may fail, the failure is swallowed | it never shows a trade twice, nor a trade of an open wave |
| lifecycle | two threads and two kinds of failure on one file | a stop that was carried out and met no clear is in memory and on disk |
| feeds | an old task and its replacement poll the same flag | as long as nobody stops, each feed has a living task; after a stop none has |
| command listener | polls that fail after the server has seen them, a kill before the last handler | no command of the owner is lost; none obeyed twice or out of order within a life |
| candles | two feeds, two pollers, late answers, candles called final that are not | a window is in order and has each candle once; indicators are those of the window |
| universe | a first score that fails, ties, BTC at either end, a write that fails half way | the list holds the pairs that were to be selected, without BTC |
| exit engine | histories fed by every pair; six factors behind one decision | it sees what it describes and can ask for what it is there for |
| ledger | three reads that are three snapshots; a lock held between ticks; kills between dependent commits | a promotion rests on trades that earned it, has its report on record, and iteration status comes from a decision |

The full list, one entry per line where it bites, is under `hazards` in
`PROJECT.json`; entries without a property say why.

## 2. Modules

| module | models | lines of code it stands for |
|---|---|---|
| `WaveEngine` | tick handler, manager, wallet, kill switch, journal | `engine/runtime.py`, `execution/*.py`, `storage/db.py` |
| `TradeBook` | the abstract promise `WaveEngine` implements | - |
| `EngineLifecycle` | boot, stop flag, commands, both feeds, universe task | `engine/runtime.py`, `marketdata/*.py`, `notify/telegram.py` |
| `EvaluationLayers` | the six layers and the promotion rule, as operators | `evaluation/layers.py` |
| `ResearchLedger` | the agentic database between engine and CLI | `storage/agentic.py`, `evaluation/cli.py`, `engine/runtime.py`, `__main__.py` |
| `SmcZones` | zone detection, as operators on a window of bars | `strategy/smc.py` |
| `MarketContext` | candle windows, indicators and zones under both feeds | `engine/context.py`, `engine/runtime.py`, `marketdata/*.py` |
| `UniverseSelection` | the pairs traded: boot, ranking, refinement | `strategy/universe_ranker.py`, `engine/runtime.py` |
| `CommandChannel` | update queue, offset and dispatch over restarts | `notify/telegram.py` |
| `ExitScoring` | the exit engine and the part of `on_tick` that drives it | `engine/exit_engine.py`, `engine/runtime.py` |
| `MC...` | constants for TLC | - |
| `...Proofs` | theorems on the module of that name (`WaveEngineProofs` also on `TradeBook`) | - |
| `FoldLemmas` | induction and folds, for the proofs of every module | - |

`ResearchLedger` extends `EvaluationLayers`, `MarketContext` extends `SmcZones`.
Where modules meet:

* the tick: what it does is `WaveEngine`'s subject, whether ticks come is
  `EngineLifecycle`'s;
* a command: `CommandChannel` says which are handed to `handle_command` and
  when, `EngineLifecycle` what a stop or a resume then does to flag and memory;
* the pair list: `UniverseSelection` says which list it is, `EngineLifecycle` how
  the feeds go over to it, and what becomes of a wave on a dropped pair;
* a second poller: `EngineLifecycle` shows when there are two, `MarketContext`
  what two do to the candles;
* the exit engine: `ExitScoring` shows that it never asks for a close, which is
  why `WaveEngine` has no action for one. (It would not get one: the call at
  `engine/runtime.py:447` passes `fraction`, a parameter `close` does not have.)

### WaveEngine

`pc` cuts `on_tick` at its durable writes; one action per piece:

| action | code |
|---|---|
| `TickQuiet`, `TickOpen` | `on_tick` up to `_try_open`; a wave that is taken has its open fee charged and saved |
| `RecordOpen` | the rest of `open()`: book, `wave_log`, `_last_trade_ts` |
| `Ride`, `BeginClose` | `_manage_open_waves` on one wave: `on_tick`, `evaluate_exit`, the close fee |
| `CreditClose`, `LogClose`, `LogTrade`, `FinishClose` | the rest of `close()`, `record_loss` |
| `Housekeep` | `tick_cooldowns`, `_check_wallet` |
| `Elapse`, `Midnight`, `RequestStop`, `ClearStop`, `Crash`, `Restart` | the environment, and `_clear_stale_open_waves` |

Prices are integers in hundredths of R (one R is 1 % of the entry, the floor of
the ATR anchor), money in ten-thousandths of a quote unit, so every fee and
result is whole. Timestamps appear as the time since or until them. The outcome
of the scan is a choice of a side or none; the cards, bias and confidence are
left out. The SMC break rule is left out because the runtime never ticks zone
maturity, and with no mature zone the rule confirms nothing.

### EngineLifecycle

Coroutines move one step between two `await`s; the Telegram thread and the boot
move one file operation at a time (`OpenFlag`, `WriteFlag`, `LookAtFlag`,
`RemoveFlag`); `Crash` and `Boot` come between any two. A feed may have two
tasks, the one `run()` created and the one the restart created: that is where
the two meet on `_running`. A position is "none", "young" or "aged".

Timing enters in one place. `_refine_pair_list` sleeps five seconds after
`poller.stop()`, and the poller sleeps five seconds between cycles, so a poller
that was asleep at the stop wakes before the restart (`"waking"`). A poller that
is in the middle of a cycle, or a socket in its backoff, is *not* assumed to be
gone by then.

With a proxy configured (`marketdata/feed.py:288`) the WebSocket task sleeps and
tries again for as long as it runs: `WsFail` and `WsRetry` for ever, with `WsOpen`
never taken. The safety runs include that; the liveness runs do not (see Fairness).

### EvaluationLayers and ResearchLedger

A layer is an operator from the run's row, trades and rejection counts to a
verdict. Money is scaled so that the expected fee of a trade is 1. The deflated
Sharpe probability is real-valued: where the sample does not decide the verdict
of the statistical layer, it is a choice.

`ResearchLedger` has one action per committed statement. `Reject` adds to
`pending`, the engine's open transaction, and every other commit of the engine
flushes it; `EngineHoldsLock` is the write lock others wait for. `report` and
`promote` read the row, the trades and the rejections as three snapshots, then
commit one evaluation per layer, the decision and the iteration.
`engine.run()` never returns once it trades (the universe task it gathers has no
end), so `FinishRun` belongs to boots that are refused or fail, and the `hours`
of a run that trades stay 0 in its row.

### SmcZones and MarketContext

The exchange numbers the candles of a timeframe by open time; the last one is
forming and moves (`Trade`). A poller's request is two actions, `Fetch` (the
exchange answers with its last candles as they are) and `Dispatch` per candle,
so that anything may happen in between; `Miss` is a failure or a timeout. The
stream delivers the forming candle (`StreamForming`) and its close
(`NextCandle`), without the open time. `OnKline` is the whole handler:
`append_kline`, then for a final candle averages, trend, flow, regime and zones.

An average is kept as the closes it is computed from and a trend as the two
averages it compares, so that "current" means computed from the window as it is,
with no arithmetic of reals. Zones are exact: prices are cents.

### UniverseSelection

`Boot` takes the persisted list, or asks the exchange; `Update` is a whole
`update()` with the refinement behind it when it is the first. Ticker and book
requests go in batches and each loop ends at its first failure, so a score may
cover a prefix of the pairs and have books for a shorter one (`Answered`). A
percentile `p` of `n` pairs is kept as `(n - 1)(2p - 1)`, which makes the weighted
sum an integer and keeps its order. The ranking is defined by `Rank`, how many
pairs come before one in the stable sort of `update`.

### CommandChannel

`Poll` is a request that is answered, `PollUnanswered` one whose answer is lost
after the server has seen the offset, `Dispatch` one round of the loop over the
updates, `Kill` may come between any two. The queue at Telegram is modelled as
the listener relies on it: a request for a number confirms all lower ones. Telegram
keeps an unconfirmed update for 24 hours. The module keeps it for ever, so what it
shows of delivery is for a listener that is down for less than that.

### ExitScoring

`Process` is one call of `ExitEngine.process`: histories, swings, volume profile,
sweep, the five factors, the confidence and the decision. Scores are basis
points. A factor that reads an attribute `TickContext` does not have sees the
default of its `getattr`, which adds nothing. Trend strength and volatility
percentile are real-valued measures of the tape: their outcome is a choice.

## 3. Runs

| run | properties | what it shows |
|---|---|---|
| `core` | `TypeOK`, `ExposureBounded`, `WalletIdentity`, `LogMatchesBook`, `SettledOnce`, `EveryWaveManaged`, `BankedInProfit`, `BalanceBehindRows`, `OpensRateLimited`, `CooldownRespected`, `TripStopsOpens` | exposure, money, journal and admission with a crash, a restart, a stop or a resume between any two writes |
| `journal` | `BookSpec`, `SizedWithinBalance`, `WavesClose` | with kills and a database that may refuse any write the engine still implements `TradeBook`; a wave is never larger than its balance; while ticks arrive every wave closes |
| `lifecycle` | `TypeOK`, `FeedsStayUp`, `StopIsKept` | stop flag and feeds in every interleaving, with crashes and failing file operations |
| `feeds` | `StopQuiesces`, `KeptPairsServed` | a lasting stop ends every feed task; a position on a pair that stays in the poller's list closes, across the restart |
| `ledger` | `TypeOK`, `PromotionsEarned`, `AuditTrail`, `SettledByDecision`, `SnapshotCoherent`, `EveryTickAccounted`, `DrawdownIsWorstFall` | a run is evaluated and promoted while it is being written, with kills and refused writes on either side |
| `scoring` | `TypeOK`, `NoSweepSeen`, `NeverAsksToClose`, `ProfileKeepsHighest` | what the exit engine can see and ask for on every short tape |
| `candles` | `TypeOK`, `TimedOnce`, `OrderedWhenPolled`, `IndicatorsCurrent` | two pollers with late answers and the stream keep windows and indicators in order |
| `universe` | `SelectionTradeable`, `FirstScoreDecides`, `TiesRankByPlace` | what is traded after a first score that may be empty, partial or tied |
| `commands` | `NoCommandLost`, `ObeyedInOrder`, `EveryCommandObeyed` | commands over lost answers and kills |
| `owner_stop`, `orphan`, `two_feeds` | `StopSurvivesRestart`, `NoPositionOrphaned`, `EachCandleOnce` | the code does not do what its own text says; section 4 |

### Bounds, and why they are enough

* `core`: two pairs, three prices (a loss of 2 R, the entry, a gain of 1.3 R and
  what lies between when a wave was entered at another of them), two waves over
  all boots. Two waves on different keys, on the same key one after the other,
  or lost in a crash and followed by another are all among them; a third adds
  no new pair of actors. Ages and cooldowns are a few clock quanta, and
  saturate where the code stops telling values apart. The daily limit is low
  enough for one loss to trip the switch.
* `journal`: cap of one wave, so the cap is really hit; a pair whose minimum order
  is above the risk-based size, so the order is rounded up, at a balance where
  the 60 % rule passes at first and fails after a loss; a price at a fifth of the
  others, so that a loss is large. One pair, both sides: for `WavesClose` more
  pairs only add independent waves, and the cap couples them in `core`.
* `lifecycle`, `feeds`, `orphan`, `owner_stop`: two pairs, one kept and one
  dropped by the ranker. `feeds` has stops from the event loop only and no
  crashes, since liveness under a crash loop is nobody's claim; `lifecycle` has
  both.
* `ledger`: a run of three ticks that trades, linked to an iteration, and a second
  start that does not trade; the two thresholds on trades are 2 and 3 instead of 20
  and 40, the floor of the dominant gate 1 instead of 100; the three results give
  a run that can be promoted, a run that is ruined and one that its fees eat. One
  call of one caller: callers touch each other's data only in `settle_iteration`,
  a hazard that is listed without a run. `CHECK_DEADLOCK FALSE`: a stopped engine and
  a caller with no call left really stop.

* `scoring`: four ticks over three prices, two of them less than half a percent
  apart and one beyond it, with caps of two and three instead of 10 and 50, so
  that swings, the profile and the histories all overflow. The theorems lift the
  bounds.
* `candles`: two timeframes, of which one moves; windows of three bars with a
  `Lookback` of 1, so that every detector has work; requests for two candles, so
  that windows overlap without being equal; two pollers; three candles and two
  shapes of bar. `two_feeds` needs one poller and one timeframe only.
* `universe`: five pairs, BTC second in the list, two readings: every order with
  ties, every prefix of scored pairs and of books, two updates in each of two
  lives. One strong and two weak slots instead of three and two keep the ends
  apart or let them overlap in BTC; a list as long as the slots is reached when a
  batch fails. `CHECK_DEADLOCK FALSE`: updates and kills are bounded.
* `commands`: four updates of three kinds (ours, for a sibling bot, from another
  chat), answers of two, two kills.

Every bound is a constant named as one in the module (`MaxWaves`, `MaxTicks`,
`MaxCalls`, `Runs`, `LastCandle`, `MaxStream`, `MaxUpdates`, `MaxRestarts`) and sits in a guard.

### Fairness

* `WaveEngine!FairSpec`: the handler finishes what it began and the clock advances
  (weak fairness), and ticks of each pair keep coming (strong fairness: a kill or
  a tick of another pair comes between, again and again). The handler is
  straight-line code; the poller asks for every pair in each cycle.
* `EngineLifecycle!FairSpec`: weak fairness of the boot, the file operations and
  each task, as the event loop and the operating system schedule them. Strong
  fairness of what is tried over and over and may fail each time: a connection,
  a tick that meets a stop, and, for every pair, its price from either poller task.
  The poller asks for each pair of its list alike (`marketdata/rest.py:152`), those a
  ranking will drop included, so a pair that is no longer served is one that is no
  longer in the list. `WsOpen` is of a process without a proxy.
* `CommandChannel!FairSpec`: an answer is worked off and the process is started
  again (weak: a loop without a wait, the container's restart policy); a request
  is answered again and again (strong: each may fail, `_loop` repeats it every two
  seconds for as long as the process lives).

Safety runs use no fairness.

## 4. Where code and documentation disagree

Three runs are counterexamples TLC finds. The other entries are properties that
hold of the code and say the opposite of its text. `PROJECT.json` quotes each.

| run | property | code | the text says |
|---|---|---|---|
| `owner_stop` | `StopSurvivesRestart` fails | `engine/runtime.py:779`: the boot clears the flag before it looks for it | README: refuses to trade while the stop stands |
| `orphan` | `NoPositionOrphaned` fails | `engine/runtime.py:212`: the list is replaced without a look at open waves | comment: no open position is left unmanaged |
| `two_feeds` | `EachCandleOnce` fails | `engine/context.py:117`: a candle of the stream has no `ts` and is appended beside the polled one | docstring: the two feeds are safely redundant |
| `core` | `BalanceBehindRows` | `execution/manager.py:438`: the close fee is charged, then deducted from the credited result too | comment: the balance is not double-charged |
| `core` | `TripStopsOpens`, with midnights | `execution/risk.py:52`: midnight resets the tally, not the trip | docstring: cleared on the midnight roll |
| `scoring` | `NeverAsksToClose` | `engine/exit_engine.py:242`: most factors read attributes that do not exist | it may close positions before TP and SL |
| `scoring` | `NoSweepSeen` | `engine/exit_engine.py:280`: swings follow the price before the detection compares | the test: the sweep is detected (it passes on its spread) |
| `scoring` | `ProfileKeepsHighest` | `engine/exit_engine.py:353`: the lowest level is dropped | comment: the oldest |
| `candles` | `IndicatorsCurrent` | `marketdata/feed.py:59`: every polled candle is called final | zones from closed candles, on close only; the cache is empty in polling mode |
| `candles` | `TypeOK` | `marketdata/feed.py:138`: forming candles are returned | docstring: None if still forming |
| `universe` | `FirstScoreDecides` | `engine/runtime.py:841`: spent by a score that failed | comment: after the first successful score |
| `universe` | `TiesRankByPlace` | `strategy/universe_ranker.py:283`: ties are spread by place | comment: everything in between is proportional |
| `universe` | `SelectionTradeable` | `engine/runtime.py:194`: a weak slot BTC leaves goes to a strong pair | comment: 3 strongest + 2 weakest |

`orphan` needs `FairSpec` and no stop at all; the counterexample goes through
`StopPoller` and `RestartFeeds`, and with a `StopPoller` that keeps the dropped pair in
the list TLC finds none. The passing `KeptPairsServed` says the same from the other
side: leaving the list is the one way to lose a position short of a stop or a
restart.

`WalletIdentity` and `BalanceBehindRows` hold together: the first relates the
wallet's own numbers, which the double charge moves alike, the second the wallet to
the recorded trades.

`LongsMeetWrongBars` is proved (`LongsMisjudged`) and has no run: `_calculate_salvage`
(`engine/exit_engine.py:688`) asks for side "long" and a wave says "BUY", so every wave
is valued as a short, against its docstring (only shorts earn when the price falls)
and the comment of `decide` (a losing exit needs more confidence). `NeverAsksToClose`
holds with either sign: as long as it does, only the recorded action is wrong.

Read off the code while modelling it, with no property of their own: a stopped
engine keeps the write lock of the agentic database, because `record_rejection`
(`storage/agentic.py:392`) does not commit; a second promotion overwrites the
first one's verdict (`storage/agentic.py:438`); a killed run stays `running`
(`__main__.py:165`); a clear under way removes the flag of a stop that is newer than
it (`engine/runtime.py:358`), so that stop is in memory only, which is why `StopIsKept`
speaks of stops that meet no clear. They are among the hazards.

## 5. Theorems

TLAPS proves, for every value of the constants that satisfies the modules' `ASSUME`s:

| theorem | statement | argument |
|---|---|---|
| `TypeCorrect` | `Spec => []TypeOK` | inductive as it stands, because `TypeOK` ties `tick`, `draft`, `closing` and `todo` to `pc`: without that a step would apply a function to `None` |
| `WalletSound` | `Spec => []WalletIdentity` | each of the three steps that touch the wallet moves both sides alike (`WalletStep`) |
| `BankSound` | `Spec => []BankedInProfit` | `BankInv`: between ticks no open wave has a peak at or above the arm, so the peak that banks was set by this very tick and equals the current R |
| `ExposureSound` | `Spec => []ExposureBounded` | `ExposureInv` adds the draft: its key is free and there is room for it while its fee is charged but the wave not yet booked |
| `RateSound` | `Warmup >= TradeCooldown => (Spec => OpensRateLimited)` | `RateInv`: the time since any opening is at least `sinceTrade` or at least the uptime; after a restart only the warmup protects the limit, hence the hypothesis |
| `CooldownSound` | `Spec => CooldownRespected` | `CoolInv`: a key whose cooldown entry is gone has waited it out |
| `TripSound` | `Spec => TripStopsOpens` | `TripInv`: no draft is pending while tripped |
| `SettledSound` | `Spec => []SettledOnce` | `SettledInv` follows `settled` and `tradeRows` through the steps of `close()` and says a fresh id has neither |
| `SizeSound` | `Spec => SizedWithinBalance` | the minimum order and the risk-based size are each bounded by the balance at the opening, the first by the 60 % rule, the second by the whole units it holds |
| `LogSound` | `Spec => []LogMatchesBook` | `LogInv`: with a working database the rows shown open are the live waves less the one whose close is logged but which is still in the book; a crashed process has no live wave |
| `ManagedSound` | `Spec => []EveryWaveManaged` | `ManagedInv`: during a tick a wave may be unmanaged only if it is of the tick's pair and still to be visited; ageing enables only the rules on age (`ManagedAges`) |
| `BalanceSound` | `Spec => []BalanceBehindRows` | `BalanceInv` gives each opened wave the amount it has moved the balance by so far (open fee; less the close fee; plus the credited result); a step changes one term of the sum or adds a fresh one |
| `BookImplemented` | `Spec => BookSpec` | one lemma per step of the book, under `ExposureInv` (the draft's key is free and there is room) and `JournalInv` (a live wave is unlogged or shown open, and has no trade row, until its own close) |
| `LifecycleTypeCorrect` | `Spec => []TypeOK` | `TypeInv` adds that there is no task before the process trades and no second one before the restart |
| `StopKept` | `Spec => []StopIsKept` | `KeptInv` ties the history variable `owner` to the file operations under way |
| `FeedsUp` | `Spec => []FeedsStayUp` | `UpInv` follows both tasks of each feed through the restart |
| `LedgerTypeCorrect` | `Spec => []TypeOK` | inductive, because it ties the counters of the process to its step and the layer a caller records next to its report |
| `AuditSound` | `Spec => []AuditTrail` | `RecordInv`: the layers before the next one are on record while a caller records, all of them once it decides |
| `SettlementSound` | `Spec => []SettledByDecision` | `SettleInv`: whoever is about to settle has decided on a run of the iteration, with the action it settles for |
| `PromotionSound` | `Spec => []PromotionsEarned` | `EarnInv`: the row read has the run's starting balance and the trades read are a prefix of its trades; trades only grow at the end, so what was earned stays earned |
| `SnapshotSound` | `Spec => []SnapshotCoherent` | `SnapInv`: neither the process, nor its row, nor a row that was read shows more closes than there are trades and refused ones; the row is read first |
| `TicksAccounted` | `Spec => []EveryTickAccounted` | `AccountInv`: what the process has counted and the row does not show yet is in the open transaction, so a kill takes both; the sums over the gates move by one term at a time (`SumUpdate`, `SumPlus`) |
| `DrawdownSound` | `Spec => []DrawdownIsWorstFall` | `WorstFall`, by induction over the curve: after `k` points the pass carries their maximum, and a point lies too far below some earlier one exactly if it does below that maximum |
| `ScoringTypeCorrect` | `Spec => []TypeOK` | inductive with the caps of the histories; swings of both kinds begin with the first price |
| `SweepNeverSeen` | `Spec => []NoSweepSeen` | after `NextHighs` and `NextLows` the last swings enclose the price, whatever they were before |
| `ExitNeverAsked` | `Spec => []NeverAsksToClose` | with no sweep the high lies within half a percent, so the structural factor is at most a tenth; two factors are 0 or small, and no weighting of the rest reaches the lowest bar |
| `ProfileForgetsLowest` | `Spec => []ProfileKeepsHighest` | `EvictedIsLowest`: a level that goes is the least of a full profile, so whatever is outside stays below whatever is inside |
| `LongsMisjudged` | `Spec => LongsMeetWrongBars` | a bar moves with the sign of the salvage (`BarsBySign`), and the salvage of a long beyond its fee has the wrong one |
| `CandlesOnce`, `CandlesInOrder` | `Spec => []TimedOnce`, `Spec => []OrderedWhenPolled` | `WindowsOK`; lemmas on each case of `append_kline`: replaced, appended, sorted in (`RankOnto`: the stable ranks of a window are a permutation of its positions), trimmed; answers hold candles with an open time only (`FeedsOK`) |
| `IndicatorsAreCurrent` | `Spec => []IndicatorsCurrent` | inductive: the handler recomputes what belongs to its timeframe and leaves the rest, of windows it does not touch |
| `ContextTypeCorrect` | `Spec => []TypeOK` | beside `IInv`; `ZonesHaveRoom` goes through the detectors, `FinalBarsType` through the fold that picks the final candles |
| `FirstScoreFinal` | `Spec => []FirstScoreDecides` | while the first score is out `pairs` is the list of the boot, and once it is in nothing assigns `pairs` again in that life |
| `TiesByPlace` | `Spec => []TiesRankByPlace` | each of the five percentiles of the later pair is higher by a place (`PlaceFacts`), so its score is (`ScoreFacts`); ranks are a permutation (`RankFacts`) and follow the scores |
| `SelectionIsTradeable` | `Spec => []SelectionTradeable` | `SelectionIs`, by induction over the ranking: the loop keeps the two sides disjoint and within their slots (`FillStep`), so after place `i` they hold the weak end and the first open places up to `i`, as many as there are slots (`FirstsCount`) |
| `ChannelTypeCorrect` | `Spec => []TypeOK` | needs that an answer is a run of consecutive numbers |
| `CommandsNotLost` | `Spec => []NoCommandLost` | `Progress`: every command below the next number to dispatch, or to ask for, was obeyed, and the server forgets nothing above it |
| `CommandsInOrder` | `Spec => []ObeyedInOrder` | what this life obeyed lies below the offset, and the answer begins at it or above |

Those on `WaveEngine` are for any set of pairs, prices and waves and any limits,
those on `EngineLifecycle` for any pair lists and any sources of stops, those on
`ResearchLedger` for any number of runs, callers and calls and any results.
Those on `MarketContext` are for any number of pollers, candles and stream events
and any bars and sizes, those on `ExitScoring` for any prices, spreads, trades and
caps, those on `UniverseSelection` and `CommandChannel` for any listing, traffic and
number of restarts. `TypeOK` is a definition of its own in each module.

**Induction over data.** A sum over waves or gates, the selection loop and the
equity curve are folds, and the library's induction theorems take an operator as
parameter, which the provers cannot instantiate. `FoldLemmas` states induction
over sets instead: a set of naturals that is not empty has a least element, a set
of subsets of a finite set has a minimal one (both from the well-foundedness of
the orders), so `NatSetInduction` and `PrefixInduction` speak of a set that
contains 0 and is closed under successors. From minimal sets it follows that
the recursion behind a community fold has a solution (`FoldExists`), that any
solution stays within the type of its step (`FoldTyped`), and that a fold from
the left has a value after each prefix (`FoldFromLeft`). The lemmas on sums
(`SumUpdate`, `SumAdd`, `SumPlus`, ...) are consequences.

**Assumptions.** Beyond types and ranges of the constants: a run has finitely many
gates (`LayerAssumption`; they are named one by one in the code), the listing has no
symbol twice (`UniverseSelection`), and the hypothesis of `RateSound`.

**Only model-checked:** `WavesClose`, `StopQuiesces`, `KeptPairsServed` and
`EveryCommandObeyed`, which are liveness under fairness and out of the prover's
reach. Every invariant and every action property of the passing runs is a theorem.

## 6. Not modelled

Selection statistics (real-valued, stateless, called by nothing in the running
system); scanner, bias, gates, structure, levels (real-valued scoring without
state, a choice in `WaveEngine`); cards (text); settings (constants here); the
stand-alone collector (a script of its own); the broker boundary, which is built
and never called. Of modelled parts: the maturity of zones, which nothing calls;
`PairExcluder`, which nothing feeds; the tick parsers of the WebSocket feed, whose
ticks carry no pair; the queries behind the cards; `exit_signals` and
`compare_runs` of the agentic ledger; market breadth.

## 7. Plan

Done, in this order: `WaveEngine` and `TradeBook` (the money path), their proofs
up to the refinement; `EngineLifecycle`; `EvaluationLayers` and `ResearchLedger`;
`ExitScoring`; `CommandChannel`; `SmcZones` and `MarketContext`;
`UniverseSelection`; each with its proofs.

Next:
1. The race of a stop with a clear under way, the empty stop flag that keeps the
   process from booting, the second promotion that rewrites an iteration and the
   killed run that can be promoted, as properties of the runs that reach them.
2. Theorems on the layers alone: which reports can be promoted at all, and that
   more rejections never turn a failed run into one that passes.
3. `ModeGuard`, should the broker ever be called; zone maturity, should
   `tick_maturity` be.
4. That a promotion and the status of its iteration agree once callers no longer
   overlap.
