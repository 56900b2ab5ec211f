------------------------------ MODULE WaveEngine ------------------------------
(***************************************************************************)
(* The trading core: one AlphaEngine process with its WaveManager,         *)
(* PaperWallet, KillSwitch and SQLite journal (engine/runtime.py,          *)
(* execution/manager.py, execution/wallet.py, execution/risk.py,           *)
(* storage/db.py).                                                         *)
(*                                                                         *)
(* A price tick is handled by AlphaEngine.on_tick.  The event loop never   *)
(* suspends inside it, but the process can be killed at any point of it    *)
(* and the Telegram thread can set or clear the stop request at any point, *)
(* so the handler is cut into steps at its durable writes; pc names the    *)
(* next one.  Between two steps of a tick only Elapse, Crash, RequestStop  *)
(* and ClearStop can happen.                                               *)
(*                                                                         *)
(* Units.  Prices are integers in hundredths of R: a wave's risk (entry to *)
(* anchor) is Risk = 100 price units.  R is 1% of the entry (the floor of  *)
(* the ATR anchor), so a move of one price unit on one quote unit of       *)
(* notional is 1/10000 of a quote unit: money is counted in those, and     *)
(* fees are whole.  Time is a number of clock quanta; every stored         *)
(* timestamp appears as the time elapsed since it (or left until it),      *)
(* saturated where the code stops telling values apart.                    *)
(***************************************************************************)
EXTENDS Integers, FiniteSetsExt

CONSTANTS
  Pairs,             \* traded pairs
  Prices,            \* prices a tick may carry
  MaxWaves,          \* bound: waves ever opened, over all boots
  None,              \* "no wave", "no tick", "no row"
  MinNotional,       \* exchange minimum order, in quote units, per pair
  StartBalance,      \* paper balance of a fresh wallet
  StopAt,            \* balance at which the account counts as broke
  RiskPct,           \* share of the balance a wave is sized from, percent
  MaxTarget,         \* balance above which sizing stops growing
  OpenFee, CloseFee, \* fee per quote unit of notional
  MaxOpenWaves,      \* surface.risk.max_open_waves
  DailyLossPermille, \* surface.risk.daily_loss_limit_pct
  LossCutR,          \* surface.exits.loss_cut_r
  BreakevenR,        \* surface.exits.breakeven_floor_r
  CooldownS,         \* surface.exits.cooldown_s
  MaxAge,            \* surface.exits.max_wave_age_s
  PartialAge,        \* age from which a small profit is taken (180 s)
  TradeCooldown,     \* engine._trade_cooldown_s
  Warmup,            \* settings.warmup_s
  MayCrash, MayStop, MayFailDb \* what the environment does in this run

Sides == {"BUY", "SELL"}
Keys == Pairs \X Sides
Ids == 1..MaxWaves
Quote == 10000     \* money units in one quote unit
Risk == 100        \* price units in one R
BankArm == 20      \* evaluate_exit: peak_r >= 0.20
MaxOf(a, b) == IF a >= b THEN a ELSE b
MinOf(a, b) == IF a <= b THEN a ELSE b
AgeCap == MaxOf(MaxAge, PartialAge)

Wave == [pair : Pairs, side : Sides, entry : Prices, sl : Int, peak : Nat,
         live : Int, notional : Nat, age : Nat]
TradeRow == [net : Int, closeFee : Nat]

Reasons == {"tp_hit", "bank_08r", "tp05_hit", "reversal", "flat_tape_exit",
            "loss_cut", "anchor_hit", "partial_profit", "max_age"}

ASSUME ParameterAssumption ==
  /\ Prices \subseteq Nat /\ \A x \in Prices : x > Risk
  /\ MinNotional \in [Pairs -> Nat]
  /\ {MaxWaves, RiskPct, MaxTarget, OpenFee, CloseFee, MaxOpenWaves,
      DailyLossPermille, LossCutR, BreakevenR, CooldownS, MaxAge, PartialAge,
      TradeCooldown, Warmup} \subseteq Nat
  /\ StartBalance \in Int /\ StopAt \in Int
  /\ {MayCrash, MayStop, MayFailDb} \subseteq BOOLEAN
ASSUME NoneAssumption ==
  None \notin Int \union Wave \union TradeRow \union Keys \union (Pairs \X Prices)
              \union [id : Ids, reason : Reasons]

VARIABLES
  pc,         \* step of on_tick that is next; "idle" between ticks, "down" when not running
  tick,       \* <<pair, price>> being handled
  todo,       \* ids _manage_open_waves has still to visit
  draft,      \* wave built by open(), fee charged, not yet in the book
  closing,    \* id and reason of the wave close() is working on
  waves,      \* WaveManager.waves: id -> wave or None
  cooldown,   \* WaveManager.cooldowns: key -> time left; 0 expired, -1 no entry
  sinceTrade, \* time since _last_trade_ts
  uptime,     \* time since state.started_ts
  stop,       \* state.stop_requested
  kill,       \* KillSwitch: tripped, loss, and whether the tally's day is today
  ctxPrice,   \* ContextStore: last price per pair
  wallet,     \* PaperWallet; every mutation saves, so the file says the same
  waveLog,    \* wave_log: id -> state column
  tradeRows,  \* trades: id -> net_pnl and close_fee, or None
  nextId,     \* next wave id
  sinceOpen,  \* history: time since any wave was opened, in any boot
  sinceClose, \* history: time since a wave of the key was closed in this boot
  settled     \* history: how often a wave's PnL was credited

memory == <<waves, cooldown, sinceTrade, uptime, kill, ctxPrice>>
disk == <<wallet, waveLog, tradeRows>>
history == <<sinceOpen, sinceClose, settled>>
vars == <<pc, tick, todo, draft, closing, memory, stop, disk, nextId, history>>

-----------------------------------------------------------------------------
(* WaveManager and PaperWallet as functions of the state they read.         *)

Live == {i \in Ids : waves[i] # None}
LiveOn(p) == {i \in Live : waves[i].pair = p}
Key(w) == <<w.pair, w.side>>
Sign(side) == IF side = "BUY" THEN 1 ELSE -1

\* wave._calc_r, in hundredths of R.
CalcR(w, x) == Sign(w.side) * (x - w.entry)
Broke == wallet.balance <= StopAt

\* notional_for, then the clamp of open() between the exchange minimum and
\* the balance.
NotionalFor ==
  MaxOf(0, MinOf((MinOf(wallet.balance, MaxTarget) * RiskPct) \div 100,
                 wallet.balance)) \div Quote
Notional(p) == MaxOf(MinNotional[p], MinOf(NotionalFor, wallet.balance \div Quote))

\* Seeded defects for EntriesAllowed.
EntriesAllowed_NoWarmup == ~kill.tripped /\ sinceTrade >= TradeCooldown
EntriesAllowed_NoKill == uptime >= Warmup /\ sinceTrade >= TradeCooldown

\* _entries_allowed: kill switch, warmup, global rate limit.
EntriesAllowed ==
  /\ ~kill.tripped
  /\ uptime >= Warmup
  /\ sinceTrade >= TradeCooldown

\* Seeded defects: the live check forgotten, the sizing check forgotten, the
\* cap one too high.
KeyFree_Unchecked(k) == cooldown[k] = -1
Affordable_Unchecked(p) == ~Broke
RoomLeft_OffByOne == Cardinality(Live) <= MaxOpenWaves

\* The refusals of _try_open and WaveManager.open.  A key whose cooldown has
\* expired but is not yet purged still refuses.
KeyFree(k) == cooldown[k] = -1 /\ \A i \in Live : Key(waves[i]) # k
Affordable(p) ==
  /\ ~Broke
  /\ MinOf(wallet.balance, MaxTarget) * RiskPct > 0
  /\ 100 * MinNotional[p] * Quote <= 60 * wallet.balance
RoomLeft == Cardinality(Live) < MaxOpenWaves
ManagerOpens(p, s) == KeyFree(<<p, s>>) /\ Affordable(p) /\ RoomLeft

NewWave(p, s, x) ==
  [pair |-> p, side |-> s, entry |-> x, sl |-> x - Sign(s) * Risk, peak |-> 0,
   live |-> 0, notional |-> Notional(p), age |-> 0]

ChargeFee(wal, fee) == [wal EXCEPT !.balance = @ - fee, !.fees = @ + fee]
CreditPnl_Unbooked(wal, usd) == [wal EXCEPT !.balance = @ + usd] \* seeded defect
CreditPnl(wal, usd) == [wal EXCEPT !.balance = @ + usd, !.realized = @ + usd]

\* on_tick of the manager: live R, peak R and the stop, which is trailed to
\* the rung the peak has reached and never loosened.
TrailRung(peak) ==
  IF peak >= 80 THEN {60}
  ELSE IF peak >= 60 THEN {40}
  ELSE IF peak >= BreakevenR THEN {15} ELSE {}
TrailStop(w, peak) ==
  IF TrailRung(peak) = {} THEN w.sl
  ELSE LET new == w.entry + Sign(w.side) * (CHOOSE r \in TrailRung(peak) : TRUE)
       IN IF w.side = "BUY" THEN MaxOf(w.sl, new) ELSE MinOf(w.sl, new)
Surf(w, x) ==
  LET peak == MaxOf(w.peak, CalcR(w, x))
  IN [w EXCEPT !.live = CalcR(w, x), !.peak = peak, !.sl = TrailStop(w, peak)]

\* Seeded defects: banking waits for a pullback from the peak; a losing wave is
\* left to run past its age.
Banks_OnPullback(w) == w.peak >= BankArm /\ w.live < w.peak
AgedOut_WinnersOnly(w) == w.age >= MaxAge /\ w.live >= 0

Banks(w) == w.peak >= BankArm
AgedOut(w) == w.age >= MaxAge

\* evaluate_exit: the rules in the order the code tries them.  The take-profit
\* distance is always 1.2 times the risk: max(risk * 1.2, ...) dominates both
\* regime multiples.  The SMC break rule is left out: the runtime never ticks
\* zone maturity, so evaluate_break confirms nothing.
ExitReason(w, x) ==
  IF CalcR(w, x) >= 120 THEN "tp_hit"
  ELSE IF Banks(w) THEN "bank_08r"
  ELSE IF w.peak >= 30 THEN "tp05_hit"
  ELSE IF w.peak >= 12 /\ w.live < -2 THEN "reversal"
  ELSE IF w.peak <= 5 /\ w.live <= -15 THEN "flat_tape_exit"
  ELSE IF w.live <= -LossCutR THEN "loss_cut"
  ELSE IF Sign(w.side) * (x - w.sl) <= 0 THEN "anchor_hit"
  ELSE IF w.age >= PartialAge /\ w.peak >= 3 /\ w.live >= 3 THEN "partial_profit"
  ELSE IF AgedOut(w) THEN "max_age"
  ELSE "none"

Gross(w) == w.live * w.notional
Net_NoOpenFee(w) == Gross(w) - CloseFee * w.notional \* seeded defect
Net(w) == Gross(w) - OpenFee * w.notional - CloseFee * w.notional
Recorded(w) == [net |-> Net(w), closeFee |-> CloseFee * w.notional]

\* record_loss followed by check_daily_dd: the tally restarts when its day is
\* over, and nothing trips on an equity that is not positive.
AfterLoss(net) ==
  LET loss == (IF kill.today THEN kill.loss ELSE 0) - net
  IN [tripped |-> kill.tripped \/ (wallet.balance > 0
                     /\ loss * 1000 >= DailyLossPermille * wallet.balance),
      loss |-> loss, today |-> TRUE]
-----------------------------------------------------------------------------
FreshKill == [tripped |-> FALSE, loss |-> 0, today |-> FALSE]

Init ==
  /\ pc = "idle" /\ tick = None /\ todo = {} /\ draft = None /\ closing = None
  /\ waves = [i \in Ids |-> None]
  /\ cooldown = [k \in Keys |-> -1]
  /\ sinceTrade = TradeCooldown /\ uptime = 0
  /\ stop = FALSE /\ kill = FreshKill
  /\ ctxPrice = [p \in Pairs |-> None]
  /\ wallet = [balance |-> StartBalance, fees |-> 0, realized |-> 0]
  /\ waveLog = [i \in Ids |-> "absent"]
  /\ tradeRows = [i \in Ids |-> None]
  /\ nextId = 1
  /\ sinceOpen = TradeCooldown
  /\ sinceClose = [k \in Keys |-> CooldownS]
  /\ settled = [i \in Ids |-> 0]

\* on_tick up to the scan: a stopped engine raises instead of handling it.
TickArrives(p, x) ==
  /\ pc = "idle" /\ ~stop
  /\ tick' = <<p, x>>
  /\ ctxPrice' = [ctxPrice EXCEPT ![p] = x]

\* _manage_open_waves works on the pair's waves, whatever admission said.
ToManage_WithEntries(p) == IF EntriesAllowed THEN LiveOn(p) ELSE {} \* seeded defect
ToManage(p) == LiveOn(p)

\* The scan finds no candidate, or the candidate is refused.
TickQuiet(p, x) ==
  /\ TickArrives(p, x)
  /\ pc' = "manage" /\ todo' = ToManage(p)
  /\ UNCHANGED <<draft, closing, waves, cooldown, sinceTrade, uptime, kill, stop,
                 disk, nextId, history>>

\* The scan finds a candidate on side s and open() takes it: the open fee is
\* charged and saved before the wave is in the book.
TickOpen(p, x, s) ==
  /\ TickArrives(p, x)
  /\ nextId \in Ids
  /\ EntriesAllowed /\ ManagerOpens(p, s)
  /\ draft' = NewWave(p, s, x)
  /\ wallet' = ChargeFee(wallet, OpenFee * Notional(p))
  /\ nextId' = nextId + 1
  /\ pc' = "charged"
  /\ UNCHANGED <<todo, closing, waves, cooldown, sinceTrade, uptime, kill, stop,
                 waveLog, tradeRows, history>>

DraftId == nextId - 1

\* The rest of open() and of _try_open.  A failed insert is logged and ignored.
RecordOpen ==
  /\ pc = "charged"
  /\ waves' = [waves EXCEPT ![DraftId] = draft]
  /\ \/ waveLog' = [waveLog EXCEPT ![DraftId] = "SURFING"]
     \/ MayFailDb /\ UNCHANGED waveLog
  /\ sinceTrade' = 0 /\ sinceOpen' = 0
  /\ draft' = None
  /\ pc' = "manage" /\ todo' = LiveOn(draft.pair) \union {DraftId}
  /\ UNCHANGED <<tick, closing, cooldown, uptime, kill, ctxPrice, stop, wallet,
                 tradeRows, nextId, sinceClose, settled>>

\* _manage_open_waves visits the pair's waves in the order they were opened.
Visit(i) == pc = "manage" /\ i \in todo /\ \A j \in todo : i <= j

\* No exit rule fires: the wave rides on.
Ride(i) ==
  /\ Visit(i)
  /\ LET w == Surf(waves[i], tick[2])
     IN ExitReason(w, tick[2]) = "none" /\ waves' = [waves EXCEPT ![i] = w]
  /\ todo' = todo \ {i}
  /\ UNCHANGED <<pc, tick, draft, closing, cooldown, sinceTrade, uptime, kill,
                 ctxPrice, stop, disk, nextId, history>>

\* An exit rule fires: close() first charges and saves the close fee.
BeginClose(i) ==
  /\ Visit(i)
  /\ LET w == Surf(waves[i], tick[2])
     IN /\ ExitReason(w, tick[2]) # "none"
        /\ waves' = [waves EXCEPT ![i] = w]
        /\ closing' = [id |-> i, reason |-> ExitReason(w, tick[2])]
        /\ wallet' = ChargeFee(wallet, CloseFee * w.notional)
  /\ pc' = "feeCharged"
  /\ UNCHANGED <<tick, todo, draft, cooldown, sinceTrade, uptime, kill, ctxPrice,
                 stop, waveLog, tradeRows, nextId, history>>

\* credit_pnl receives gross minus the close fee, and saves.
CreditClose ==
  /\ pc = "feeCharged"
  /\ LET w == waves[closing.id]
     IN wallet' = CreditPnl(wallet, Gross(w) - CloseFee * w.notional)
  /\ settled' = [settled EXCEPT ![closing.id] = @ + 1]
  /\ pc' = "credited"
  /\ UNCHANGED <<tick, todo, draft, closing, memory, stop, waveLog, tradeRows,
                 nextId, sinceOpen, sinceClose>>

\* log_wave_close updates the row if the wave has one and commits; when it
\* fails, log_trade is skipped with it.
LogClose ==
  /\ pc = "credited"
  /\ \/ /\ waveLog' = [waveLog EXCEPT ![closing.id] =
                         IF @ = "absent" THEN @ ELSE "WAVE_BREAK"]
        /\ pc' = "closeLogged"
     \/ MayFailDb /\ pc' = "logged" /\ UNCHANGED waveLog
  /\ UNCHANGED <<tick, todo, draft, closing, memory, stop, wallet, tradeRows,
                 nextId, history>>

LogTrade ==
  /\ pc = "closeLogged"
  /\ \/ tradeRows' = [tradeRows EXCEPT ![closing.id] = Recorded(waves[closing.id])]
     \/ MayFailDb /\ UNCHANGED tradeRows
  /\ pc' = "logged"
  /\ UNCHANGED <<tick, todo, draft, closing, memory, stop, wallet, waveLog,
                 nextId, history>>

\* close() pops the wave from the book.
Popped_Forgotten(i) == waves \* seeded defect
Popped(i) == [waves EXCEPT ![i] = None]

\* The end of close(): the cooldown starts and the wave leaves the book; then
\* the kill switch hears of a loss.
FinishClose ==
  /\ pc = "logged"
  /\ LET i == closing.id
         w == waves[i]
     IN /\ cooldown' = [cooldown EXCEPT ![Key(w)] = CooldownS]
        /\ sinceClose' = [sinceClose EXCEPT ![Key(w)] = 0]
        /\ waves' = Popped(i)
        /\ todo' = todo \ {i}
        /\ kill' = IF Net(w) < 0 THEN AfterLoss(Net(w)) ELSE kill
  /\ closing' = None /\ pc' = "manage"
  /\ UNCHANGED <<tick, draft, sinceTrade, uptime, ctxPrice, stop, disk, nextId,
                 sinceOpen, settled>>

\* tick_cooldowns drops the entries that have expired.
Purged_Early(left) == IF left \in {0, 1} THEN -1 ELSE left \* seeded defect
Purged(left) == IF left = 0 THEN -1 ELSE left

\* tick_cooldowns, _refresh_shared_state and _check_wallet.
Housekeep ==
  /\ pc = "manage" /\ todo = {}
  /\ cooldown' = [k \in Keys |-> Purged(cooldown[k])]
  /\ stop' = (stop \/ Broke)
  /\ pc' = "idle" /\ tick' = None
  /\ UNCHANGED <<todo, draft, closing, waves, sinceTrade, uptime, kill, ctxPrice,
                 disk, nextId, history>>

-----------------------------------------------------------------------------
(* The environment.                                                         *)

CoolDown_PastExpiry(left) == left - 1 \* seeded defect
CoolDown(left) == IF left > 0 THEN left - 1 ELSE left
Older(w) == IF w = None THEN None ELSE [w EXCEPT !.age = MinOf(@ + 1, AgeCap)]

\* One clock quantum.  A handler can take that long: sending a card blocks.
Elapse ==
  /\ waves' = [i \in Ids |-> Older(waves[i])]
  /\ draft' = Older(draft)
  /\ cooldown' = [k \in Keys |-> CoolDown(cooldown[k])]
  /\ sinceTrade' = MinOf(sinceTrade + 1, TradeCooldown)
  /\ uptime' = MinOf(uptime + 1, Warmup)
  /\ sinceOpen' = MinOf(sinceOpen + 1, TradeCooldown)
  /\ sinceClose' = [k \in Keys |-> MinOf(sinceClose[k] + 1, CooldownS)]
  /\ UNCHANGED <<pc, tick, todo, closing, stop, kill, ctxPrice, disk, nextId, settled>>

\* The date changes.  Nothing but the next record_loss notices.
Midnight ==
  /\ kill.today
  /\ kill' = [kill EXCEPT !.today = FALSE]
  /\ UNCHANGED <<pc, tick, todo, draft, closing, waves, cooldown, sinceTrade, uptime,
                 ctxPrice, stop, disk, nextId, history>>

\* /stop and /resume, handled on the Telegram thread while a tick may be in
\* progress; a signal handler requests the stop the same way.
RequestStop ==
  /\ MayStop /\ pc # "down" /\ ~stop
  /\ stop' = TRUE
  /\ UNCHANGED <<pc, tick, todo, draft, closing, memory, disk, nextId, history>>
ClearStop ==
  /\ MayStop /\ pc # "down" /\ stop
  /\ stop' = FALSE
  /\ UNCHANGED <<pc, tick, todo, draft, closing, memory, disk, nextId, history>>

\* The process dies: the files keep what was written, the memory is gone.
Crash ==
  /\ MayCrash /\ pc # "down"
  /\ pc' = "down" /\ tick' = None /\ todo' = {} /\ draft' = None /\ closing' = None
  /\ waves' = [i \in Ids |-> None]
  /\ cooldown' = [k \in Keys |-> -1]
  /\ sinceTrade' = TradeCooldown /\ uptime' = 0
  /\ stop' = FALSE /\ kill' = FreshKill
  /\ ctxPrice' = [p \in Pairs |-> None]
  /\ sinceClose' = [k \in Keys |-> CooldownS]
  /\ UNCHANGED <<disk, nextId, sinceOpen, settled>>

\* _clear_stale_open_waves, on one row.
Swept_Skipped(state) == state \* seeded defect
Swept(state) == IF state = "SURFING" THEN "stale" ELSE state

\* Boot: the wallet is loaded, and _clear_stale_open_waves marks the rows of
\* the previous process closed with reason stale_on_restart.
Restart ==
  /\ pc = "down" /\ pc' = "idle"
  /\ waveLog' = [i \in Ids |-> Swept(waveLog[i])]
  /\ uptime' = 0
  /\ UNCHANGED <<tick, todo, draft, closing, waves, cooldown, sinceTrade, kill,
                 ctxPrice, stop, wallet, tradeRows, nextId, history>>

TickOn(p) == \E x \in Prices : TickQuiet(p, x) \/ \E s \in Sides : TickOpen(p, x, s)
Handle ==
  \/ RecordOpen \/ (\E i \in Ids : Ride(i) \/ BeginClose(i))
  \/ CreditClose \/ LogClose \/ LogTrade \/ FinishClose
  \/ Housekeep
Next ==
  \/ \E p \in Pairs : TickOn(p)
  \/ Handle
  \/ Elapse \/ Midnight \/ RequestStop \/ ClearStop \/ Crash \/ Restart

Spec == Init /\ [][Next]_vars

\* The event loop keeps running, the clock advances, and the poller asks for
\* every pair again in each of its cycles.
FairSpec ==
  /\ Spec /\ WF_vars(Handle) /\ WF_vars(Elapse)
  /\ \A p \in Pairs : SF_vars(TickOn(p))

-----------------------------------------------------------------------------
(* Properties.                                                              *)

ClosingSteps == {"feeCharged", "credited", "closeLogged", "logged"}

\* Every variable keeps its type, and the step of the handler says which of the
\* per-tick variables are set: the waves still to visit are in the book, and the
\* one being closed is among them.
TypeOK ==
  /\ pc \in {"idle", "down", "charged", "manage"} \union ClosingSteps
  /\ tick \in (Pairs \X Prices) \union {None}
  /\ (tick = None) <=> (pc \in {"idle", "down"})
  /\ waves \in [Ids -> Wave \union {None}]
  /\ todo \in SUBSET Live
  /\ draft \in Wave \union {None} /\ ((draft # None) <=> (pc = "charged"))
  /\ closing \in [id : Ids, reason : Reasons] \union {None}
  /\ (closing # None) <=> (pc \in ClosingSteps)
  /\ closing # None => closing.id \in todo
  /\ cooldown \in [Keys -> -1..CooldownS]
  /\ sinceTrade \in 0..TradeCooldown /\ uptime \in 0..Warmup
  /\ stop \in BOOLEAN
  /\ kill \in [tripped : BOOLEAN, loss : Nat, today : BOOLEAN]
  /\ ctxPrice \in [Pairs -> Prices \union {None}]
  /\ wallet \in [balance : Int, fees : Int, realized : Int]
  /\ waveLog \in [Ids -> {"absent", "SURFING", "WAVE_BREAK", "stale"}]
  /\ tradeRows \in [Ids -> TradeRow \union {None}]
  /\ nextId \in 1..(MaxWaves + 1) /\ (draft # None => nextId > 1)
  /\ sinceOpen \in 0..TradeCooldown
  /\ sinceClose \in [Keys -> 0..CooldownS]
  /\ settled \in [Ids -> Nat]

\* WaveManager.open never stacks a second wave on a live (pair, side) and never
\* exceeds the cap, whatever was opened, closed or refused before.
ExposureBounded ==
  /\ \A i, j \in Live : Key(waves[i]) = Key(waves[j]) => i = j
  /\ Cardinality(Live) <= MaxOpenWaves

\* PaperWallet: the balance is the starting balance plus everything realized
\* minus every fee, across crashes at any of the separate saves.
WalletIdentity ==
  wallet.balance = StartBalance + wallet.realized - wallet.fees

\* The wallet against the journal.  Once every wave that was opened has its row
\* in trades, the balance is the starting balance plus the recorded net results,
\* less a second close fee per row: close() charges that fee and then takes it
\* off the credited result too, although manager.py:433-434 says the wallet is
\* not double-charged.  A crash or a restart between two saves changes nothing.
BalanceBehindRows ==
  LET opened == 1..(nextId - 1)
      settlement == [i \in opened |-> tradeRows[i].net - tradeRows[i].closeFee]
  IN (\A i \in opened : tradeRows[i] # None) =>
        wallet.balance = StartBalance + MapThenSumSet(LAMBDA i : settlement[i], opened)

\* With a working database, between ticks the rows wave_log shows as open are
\* exactly the waves in memory, before and after a restart.
LogMatchesBook ==
  (~MayFailDb /\ pc = "idle") => {i \in Ids : waveLog[i] = "SURFING"} = Live

\* A wave's PnL reaches the wallet at most once, and a row of trades stands for
\* exactly one credit, whatever the database refused and wherever it crashed.
SettledOnce ==
  \A i \in Ids : settled[i] <= 1 /\ (tradeRows[i] # None => settled[i] = 1)

\* on_tick: suppressed entries never leave a position unmanaged.  Between ticks
\* every open wave has been valued at its pair's last price, and no exit rule
\* on price is pending at that price.
EveryWaveManaged ==
  pc = "idle" => \A i \in Live :
    LET w == waves[i] IN
      /\ w.live = CalcR(w, ctxPrice[w.pair])
      /\ ExitReason(w, ctxPrice[w.pair]) \in {"none", "partial_profit", "max_age"}

\* evaluate_exit closes as bank_08r on the peak, not on the current R: the wave
\* is nevertheless still at or above the arm when it is closed.
BankedInProfit ==
  (closing # None /\ closing.reason = "bank_08r") =>
     waves[closing.id].live >= BankArm

\* The global rate limit holds over restarts too, where _last_trade_ts is lost.
OpensRateLimited ==
  [][(draft = None /\ draft' # None) => sinceOpen >= TradeCooldown]_vars

\* Within one boot a (pair, side) that was closed is not opened again before
\* its cooldown is over.
CooldownRespected ==
  [][(draft = None /\ draft' # None) => sinceClose[Key(draft')] >= CooldownS]_vars

\* A tripped kill switch is one-way while the process lives, and from the trip
\* on the book only shrinks.
TripStopsOpens ==
  [][kill.tripped =>
       /\ {i \in Ids : waves'[i] # None} \subseteq Live
       /\ kill'.tripped \/ pc' = "down"]_vars

\* With ticks of every pair still arriving, every wave is closed in the end:
\* max_age catches those no other rule does.
WavesClose ==
  \A i \in Ids : (waves[i] # None) ~> (waves[i] = None)

\* The engine implements the position book: an id counts as used from the
\* moment its wave is in the book, or is lost with a crash before that.
Book == INSTANCE TradeBook WITH
  MaxOpen <- MaxOpenWaves,
  used <- {i \in Ids : i < nextId /\ ~(draft # None /\ i = DraftId)},
  held <- [i \in Ids |-> IF waves[i] = None THEN None ELSE Key(waves[i])],
  log <- waveLog,
  rows <- tradeRows

\* Positions are taken once, one per (pair, side) and never above the cap; the
\* journal shows a close before the trade row, each row is written once, and a
\* restart sweeps what the crash lost.
BookSpec == Book!Spec

\* WaveManager.open sizes a wave within the balance: the exchange minimum it
\* rounds up to was checked against that balance first.
SizedWithinBalance ==
  [][(draft = None /\ draft' # None) => draft'.notional * Quote <= wallet.balance]_vars
===============================================================================
