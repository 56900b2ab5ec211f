--------------------------- MODULE WaveEngineProofs ---------------------------
(***************************************************************************)
(* Proofs about the trading core, for every value of its constants that    *)
(* satisfies ParameterAssumption and NoneAssumption.                       *)
(***************************************************************************)
EXTENDS WaveEngine, FoldLemmas, TLAPS

\* The assumptions on the constants, one parameter at a time.
LEMMA Parameters ==
  /\ Prices \subseteq Nat /\ MinNotional \in [Pairs -> Nat]
  /\ MaxWaves \in Nat /\ RiskPct \in Nat /\ MaxTarget \in Nat
  /\ OpenFee \in Nat /\ CloseFee \in Nat /\ MaxOpenWaves \in Nat
  /\ DailyLossPermille \in Nat /\ LossCutR \in Nat /\ BreakevenR \in Nat
  /\ CooldownS \in Nat /\ MaxAge \in Nat /\ PartialAge \in Nat
  /\ TradeCooldown \in Nat /\ Warmup \in Nat
  /\ StartBalance \in Int /\ StopAt \in Int
  /\ MayCrash \in BOOLEAN /\ MayStop \in BOOLEAN /\ MayFailDb \in BOOLEAN
  /\ None \notin Int /\ None \notin Wave /\ None \notin Keys /\ None \notin Pairs \X Prices
  /\ None \notin [id : Ids, reason : Reasons] /\ None \notin TradeRow
  BY ParameterAssumption, NoneAssumption

\* MaxOf and MinOf are the larger and the smaller of two integers.
LEMMA MaxMin ==
  ASSUME NEW a \in Int, NEW b \in Int
  PROVE  /\ MaxOf(a, b) \in {a, b} /\ MaxOf(a, b) >= a /\ MaxOf(a, b) >= b
         /\ MinOf(a, b) \in {a, b} /\ MinOf(a, b) <= a /\ MinOf(a, b) <= b
  BY DEF MaxOf, MinOf

\* Sizing yields a natural number of quote units, whatever the balance.
LEMMA NotionalType ==
  ASSUME wallet.balance \in Int, NEW p \in Pairs
  PROVE  Notional(p) \in Nat
<1>1. MinOf(wallet.balance, MaxTarget) \in Int
  BY MaxMin, Parameters
<1>2. (MinOf(wallet.balance, MaxTarget) * RiskPct) \div 100 \in Int
  BY <1>1, Parameters
<1>3. NotionalFor \in Nat
  <2>1. MinOf((MinOf(wallet.balance, MaxTarget) * RiskPct) \div 100, wallet.balance) \in Int
    BY <1>2, MaxMin
  <2>2. MaxOf(0, MinOf((MinOf(wallet.balance, MaxTarget) * RiskPct) \div 100,
                       wallet.balance)) \in Nat
    BY <2>1, MaxMin
  <2>3. QED BY <2>2 DEF NotionalFor, Quote
<1>4. wallet.balance \div Quote \in Int
  BY DEF Quote
<1>5. MinOf(NotionalFor, wallet.balance \div Quote) \in Int
  BY <1>3, <1>4, MaxMin
<1>6. MinNotional[p] \in Nat
  BY Parameters
<1>7. QED BY <1>5, <1>6, MaxMin DEF Notional

\* A wave built by open() is a wave.
LEMMA NewWaveType ==
  ASSUME wallet.balance \in Int, NEW p \in Pairs, NEW s \in Sides, NEW x \in Prices
  PROVE  NewWave(p, s, x) \in Wave
<1>1. x \in Int /\ Sign(s) \in Int
  BY Parameters DEF Sign
<1>2. x - Sign(s) * Risk \in Int
  BY <1>1 DEF Risk, Sign
<1>3. QED
  BY <1>2, NotionalType DEF NewWave, Wave

\* Surfing keeps a wave a wave, keeps its key and notional, and never lowers
\* its peak.
LEMMA SurfType ==
  ASSUME NEW w \in Wave, NEW x \in Prices
  PROVE  /\ Surf(w, x) \in Wave
         /\ Key(Surf(w, x)) = Key(w)
         /\ Surf(w, x).notional = w.notional
         /\ Surf(w, x).live = CalcR(w, x)
         /\ Surf(w, x).peak = MaxOf(w.peak, CalcR(w, x))
<1> DEFINE peak == MaxOf(w.peak, CalcR(w, x))
<1>1. w.peak \in Nat /\ w.sl \in Int /\ w.entry \in Int /\ x \in Int
  <2>1. w.peak \in Nat /\ w.sl \in Int /\ w.entry \in Prices
    BY DEF Wave
  <2>2. \A y \in Prices : y \in Int
    BY Parameters
  <2>3. QED BY <2>1, <2>2
<1>2. CalcR(w, x) \in Int
  BY <1>1 DEF CalcR, Sign
<1>3. peak \in Nat
  BY <1>1, <1>2, MaxMin
<1>4. TrailStop(w, peak) \in Int
  <2>1. CASE TrailRung(peak) = {}
    BY <2>1, <1>1 DEF TrailStop
  <2>2. CASE TrailRung(peak) # {}
    <3> DEFINE r == CHOOSE q \in TrailRung(peak) : TRUE
    <3>1. r \in TrailRung(peak)
      BY <2>2
    <3>2. r \in Int
      BY <3>1 DEF TrailRung
    <3>3. w.entry + Sign(w.side) * r \in Int
      BY <3>2, <1>1 DEF Sign
    <3> HIDE DEF r
    <3>4. TrailStop(w, peak) \in {w.sl, w.entry + Sign(w.side) * r}
      BY <2>2, <3>3, <1>1, MaxMin DEF TrailStop, r
    <3>5. QED BY <3>3, <3>4, <1>1
  <2>3. QED BY <2>1, <2>2
<1> HIDE DEF peak
<1>5. Surf(w, x) = [w EXCEPT !.live = CalcR(w, x), !.peak = peak, !.sl = TrailStop(w, peak)]
  BY DEF Surf, peak
<1>6. QED
  BY <1>2, <1>3, <1>4, <1>5 DEF Wave, Key, peak

\* A quantum older, a wave is still a wave, and nothing else about it changed.
LEMMA OlderType ==
  ASSUME NEW w \in Wave \union {None}
  PROVE  /\ Older(w) \in Wave \union {None}
         /\ (Older(w) = None) <=> (w = None)
         /\ w # None => Older(w) = [w EXCEPT !.age = MinOf(w.age + 1, AgeCap)]
<1>1. CASE w = None
  BY <1>1 DEF Older
<1>2. CASE w # None
  <2>1. w \in Wave /\ w.age \in Nat
    BY <1>2 DEF Wave
  <2>2. AgeCap \in Nat
    BY Parameters, MaxMin DEF AgeCap
  <2>3. MinOf(w.age + 1, AgeCap) \in Nat
    BY <2>1, <2>2, MaxMin
  <2>4. Older(w) = [w EXCEPT !.age = MinOf(w.age + 1, AgeCap)]
    BY <1>2 DEF Older
  <2>5. Older(w) \in Wave
    BY <2>1, <2>3, <2>4 DEF Wave
  <2>6. QED BY <2>4, <2>5, <1>2, Parameters
<1>3. QED BY <1>1, <1>2

\* The kill switch after a loss keeps its type.
LEMMA AfterLossType ==
  ASSUME kill \in [tripped : BOOLEAN, loss : Nat, today : BOOLEAN],
         NEW net \in Int, net < 0
  PROVE  AfterLoss(net) \in [tripped : BOOLEAN, loss : Nat, today : BOOLEAN]
<1>1. (IF kill.today THEN kill.loss ELSE 0) - net \in Nat
  OBVIOUS
<1>2. kill.tripped \in BOOLEAN
  OBVIOUS
<1>3. QED
  BY <1>1, <1>2, Zenon DEF AfterLoss

\* Fees and results are integers.
LEMMA MoneyType ==
  ASSUME NEW w \in Wave
  PROVE  Gross(w) \in Int /\ Net(w) \in Int
         /\ OpenFee * w.notional \in Int /\ CloseFee * w.notional \in Int
<1>1. w.live \in Int /\ w.notional \in Int
  BY DEF Wave
<1>2. OpenFee \in Int /\ CloseFee \in Int
  BY Parameters
<1>3. OpenFee * w.notional \in Int /\ CloseFee * w.notional \in Int /\ Gross(w) \in Int
  BY <1>1, <1>2 DEF Gross
<1>4. QED BY <1>3 DEF Net

\* What log_trade writes is a row, and the two amounts the balance is behind.
LEMMA RecordedType ==
  ASSUME NEW w \in Wave
  PROVE  /\ Recorded(w) \in TradeRow /\ Recorded(w) # None
         /\ Recorded(w).net = Net(w) /\ Recorded(w).closeFee = CloseFee * w.notional
<1>1. CloseFee * w.notional \in Nat
  BY Parameters DEF Wave
<1>2. Recorded(w) \in TradeRow
  BY <1>1, MoneyType DEF Recorded, TradeRow
<1>3. QED BY <1>2, Parameters DEF Recorded

WalletRec == [balance : Int, fees : Int, realized : Int]

\* Charging and crediting keep the wallet's type and its identity.
LEMMA WalletStep ==
  ASSUME NEW wal \in WalletRec, NEW usd \in Int
  PROVE  /\ ChargeFee(wal, usd) \in WalletRec
         /\ CreditPnl(wal, usd) \in WalletRec
         /\ wal.balance = StartBalance + wal.realized - wal.fees =>
              /\ ChargeFee(wal, usd).balance =
                   StartBalance + ChargeFee(wal, usd).realized - ChargeFee(wal, usd).fees
              /\ CreditPnl(wal, usd).balance =
                   StartBalance + CreditPnl(wal, usd).realized - CreditPnl(wal, usd).fees
<1>1. wal.balance \in Int /\ wal.fees \in Int /\ wal.realized \in Int
  BY DEF WalletRec
<1> DEFINE less == wal.balance - usd
          more == wal.balance + usd
          fees == wal.fees + usd
          real == wal.realized + usd
<1>2. less \in Int /\ more \in Int /\ fees \in Int /\ real \in Int
  BY <1>1
<1>3. /\ ChargeFee(wal, usd) = [wal EXCEPT !.balance = less, !.fees = fees]
      /\ CreditPnl(wal, usd) = [wal EXCEPT !.balance = more, !.realized = real]
  BY DEF ChargeFee, CreditPnl
<1>4. /\ ChargeFee(wal, usd) \in WalletRec /\ ChargeFee(wal, usd).balance = less
      /\ ChargeFee(wal, usd).fees = fees /\ ChargeFee(wal, usd).realized = wal.realized
  <2> HIDE DEF less, fees
  <2>1. QED BY <1>2, <1>3 DEF WalletRec
<1>5. /\ CreditPnl(wal, usd) \in WalletRec /\ CreditPnl(wal, usd).balance = more
      /\ CreditPnl(wal, usd).fees = wal.fees /\ CreditPnl(wal, usd).realized = real
  <2> HIDE DEF more, real
  <2>1. QED BY <1>2, <1>3 DEF WalletRec
<1>6. StartBalance \in Int
  BY Parameters
<1>7. QED BY <1>1, <1>4, <1>5, <1>6

LEMMA InitType == Init => TypeOK
<1> SUFFICES ASSUME Init PROVE TypeOK
  OBVIOUS
<1>1. nextId \in 1..(MaxWaves + 1) /\ sinceTrade \in 0..TradeCooldown
      /\ uptime \in 0..Warmup /\ sinceOpen \in 0..TradeCooldown
  BY Parameters DEF Init
<1>2. cooldown \in [Keys -> -1..CooldownS] /\ sinceClose \in [Keys -> 0..CooldownS]
  BY Parameters DEF Init
<1>3. wallet \in [balance : Int, fees : Int, realized : Int]
      /\ kill \in [tripped : BOOLEAN, loss : Nat, today : BOOLEAN]
  BY Parameters DEF Init, FreshKill
<1>4. waves \in [Ids -> Wave \union {None}] /\ todo \in SUBSET Live
      /\ ctxPrice \in [Pairs -> Prices \union {None}]
      /\ waveLog \in [Ids -> {"absent", "SURFING", "WAVE_BREAK", "stale"}]
      /\ tradeRows \in [Ids -> TradeRow \union {None}] /\ settled \in [Ids -> Nat]
  BY DEF Init
<1>5. QED
  BY <1>1, <1>2, <1>3, <1>4 DEF Init, TypeOK, ClosingSteps

\* Every step of the handler and of its environment keeps the types.
LEMMA NextType == TypeOK /\ [Next]_vars => TypeOK'
<1> SUFFICES ASSUME TypeOK, [Next]_vars PROVE TypeOK'
  OBVIOUS
<1> USE DEF TypeOK, ClosingSteps, memory, disk, history
<1>1. ASSUME NEW p \in Pairs, NEW x \in Prices, TickQuiet(p, x) PROVE TypeOK'
  BY <1>1, Parameters DEF TickQuiet, TickArrives, ToManage, LiveOn, Live
<1>2. ASSUME NEW p \in Pairs, NEW x \in Prices, NEW s \in Sides, TickOpen(p, x, s)
      PROVE  TypeOK'
  <2>1. draft' \in Wave /\ draft' # None
    BY <1>2, NewWaveType, Parameters DEF TickOpen
  <2>2. wallet' \in [balance : Int, fees : Int, realized : Int]
    <3>1. OpenFee * Notional(p) \in Int
      BY NotionalType, Parameters
    <3>2. QED BY <1>2, <3>1, WalletStep DEF TickOpen, WalletRec
  <2>3. nextId' \in 1..(MaxWaves + 1)
    BY <1>2, Parameters DEF TickOpen, Ids
  <2>4. tick' \in Pairs \X Prices /\ tick' # None
        /\ ctxPrice' \in [Pairs -> Prices \union {None}]
    BY <1>2, Parameters DEF TickOpen, TickArrives
  <2>5. nextId' > 1 /\ closing = None
    BY <1>2, Parameters DEF TickOpen, TickArrives, Ids
  <2>6. QED BY <1>2, <2>1, <2>2, <2>3, <2>4, <2>5 DEF TickOpen, TickArrives, Live
<1>3. CASE RecordOpen
  <2>1. draft \in Wave
    BY <1>3 DEF RecordOpen
  <2>2. waves' \in [Ids -> Wave \union {None}] /\ draft' = None
    BY <1>3, <2>1 DEF RecordOpen
  <2>3. waveLog' \in [Ids -> {"absent", "SURFING", "WAVE_BREAK", "stale"}]
    BY <1>3 DEF RecordOpen
  <2>4. sinceTrade' \in 0..TradeCooldown /\ sinceOpen' \in 0..TradeCooldown
    BY <1>3, Parameters DEF RecordOpen
  <2>5. DraftId \in Ids
    BY <1>3, Parameters DEF RecordOpen, DraftId, Ids
  <2>6. todo' \in SUBSET Live'
    BY <1>3, <2>1, <2>5, Parameters DEF RecordOpen, LiveOn, Live
  <2>7. QED BY <1>3, <2>2, <2>3, <2>4, <2>6 DEF RecordOpen
<1>4. ASSUME NEW i \in Ids, Ride(i) PROVE TypeOK'
  <2>1. i \in todo /\ waves[i] \in Wave /\ tick[2] \in Prices /\ closing = None
    BY <1>4 DEF Ride, Visit, Live
  <2>2. Surf(waves[i], tick[2]) \in Wave
    BY <2>1, SurfType
  <2>3. waves' \in [Ids -> Wave \union {None}] /\ todo' \in SUBSET Live'
    BY <1>4, <2>2, Parameters DEF Ride, Live
  <2>4. QED BY <1>4, <2>1, <2>3 DEF Ride, Visit
<1>5. ASSUME NEW i \in Ids, BeginClose(i) PROVE TypeOK'
  <2> DEFINE w == Surf(waves[i], tick[2])
  <2>1. i \in todo /\ waves[i] \in Wave /\ tick[2] \in Prices /\ closing = None
    BY <1>5 DEF BeginClose, Visit, Live
  <2>2. w \in Wave
    BY <2>1, SurfType
  <2> HIDE DEF w
  <2>3. waves' \in [Ids -> Wave \union {None}] /\ todo' \in SUBSET Live'
    BY <1>5, <2>2, Parameters DEF BeginClose, Live, w
  <2>4. ExitReason(w, tick[2]) # "none" => ExitReason(w, tick[2]) \in Reasons
    BY DEF ExitReason, Reasons
  <2>5. closing' \in [id : Ids, reason : Reasons] /\ closing'.id = i /\ closing' # None
    <3>1. closing' = [id |-> i, reason |-> ExitReason(w, tick[2])]
          /\ ExitReason(w, tick[2]) # "none"
      BY <1>5 DEF BeginClose, w
    <3>2. QED BY <3>1, <2>4, Parameters
  <2>6. wallet' \in [balance : Int, fees : Int, realized : Int]
    BY <1>5, <2>2, MoneyType, WalletStep DEF BeginClose, WalletRec, w
  <2>7. QED BY <1>5, <2>1, <2>3, <2>5, <2>6 DEF BeginClose, Visit
<1>6. CASE CreditClose
  <2>1. closing.id \in Ids /\ waves[closing.id] \in Wave
    BY <1>6 DEF CreditClose, Live
  <2>2. wallet' \in [balance : Int, fees : Int, realized : Int]
    <3>1. Gross(waves[closing.id]) - CloseFee * waves[closing.id].notional \in Int
      BY <2>1, MoneyType
    <3>2. QED BY <1>6, <3>1, WalletStep DEF CreditClose, WalletRec
  <2>3. settled' \in [Ids -> Nat]
    BY <1>6, <2>1 DEF CreditClose
  <2>4. QED BY <1>6, <2>2, <2>3 DEF CreditClose, Live
<1>7. CASE LogClose
  BY <1>7 DEF LogClose, Live
<1>8. CASE LogTrade
  <2>1. closing.id \in Ids /\ waves[closing.id] \in Wave
    BY <1>8 DEF LogTrade, Live
  <2>2. tradeRows' \in [Ids -> TradeRow \union {None}]
    BY <1>8, <2>1, RecordedType DEF LogTrade
  <2>3. QED BY <1>8, <2>2 DEF LogTrade, Live
<1>9. CASE FinishClose
  <2> DEFINE w == waves[closing.id]
  <2>1. closing.id \in Ids /\ w \in Wave /\ Key(w) \in Keys
    BY <1>9 DEF FinishClose, Live, Wave, Key, Keys
  <2>2. kill' \in [tripped : BOOLEAN, loss : Nat, today : BOOLEAN]
    <3>1. Net(w) \in Int
      BY <2>1, MoneyType
    <3>2. CASE Net(w) < 0
      BY <3>1, <3>2, <1>9, AfterLossType DEF FinishClose
    <3>3. CASE ~(Net(w) < 0)
      BY <3>3, <1>9 DEF FinishClose
    <3>4. QED BY <3>2, <3>3
  <2>3. waves' \in [Ids -> Wave \union {None}] /\ todo' \in SUBSET Live'
    BY <1>9, <2>1 DEF FinishClose, Popped, Live
  <2>4. cooldown' \in [Keys -> -1..CooldownS] /\ sinceClose' \in [Keys -> 0..CooldownS]
    BY <1>9, <2>1, Parameters DEF FinishClose
  <2>5. QED BY <1>9, <2>2, <2>3, <2>4 DEF FinishClose
<1>10. CASE Housekeep
  BY <1>10, Parameters DEF Housekeep, Purged, Live
<1>11. CASE Elapse
  <2>1. waves' \in [Ids -> Wave \union {None}] /\ todo' \in SUBSET Live'
    BY <1>11, OlderType DEF Elapse, Live
  <2>2. draft' \in Wave \union {None} /\ ((draft' = None) <=> (draft = None))
    BY <1>11, OlderType DEF Elapse
  <2>3. cooldown' \in [Keys -> -1..CooldownS]
    BY <1>11, Parameters DEF Elapse, CoolDown
  <2>4. sinceClose' \in [Keys -> 0..CooldownS]
    BY <1>11, MaxMin, Parameters DEF Elapse
  <2>5. /\ sinceTrade' \in 0..TradeCooldown /\ uptime' \in 0..Warmup
        /\ sinceOpen' \in 0..TradeCooldown
    BY <1>11, MaxMin, Parameters DEF Elapse
  <2>6. QED BY <1>11, <2>1, <2>2, <2>3, <2>4, <2>5 DEF Elapse
<1>12. CASE Midnight
  BY <1>12 DEF Midnight, Live
<1>13. CASE RequestStop \/ ClearStop
  <2>1. CASE RequestStop
    BY <2>1 DEF RequestStop, Live
  <2>2. CASE ClearStop
    BY <2>2 DEF ClearStop, Live
  <2>3. QED BY <1>13, <2>1, <2>2
<1>14. CASE Crash
  <2>1. kill' \in [tripped : BOOLEAN, loss : Nat, today : BOOLEAN]
    BY <1>14 DEF Crash, FreshKill
  <2>2. cooldown' \in [Keys -> -1..CooldownS] /\ sinceClose' \in [Keys -> 0..CooldownS]
        /\ sinceTrade' \in 0..TradeCooldown /\ uptime' \in 0..Warmup
    BY <1>14, Parameters DEF Crash
  <2>3. waves' \in [Ids -> Wave \union {None}] /\ todo' \in SUBSET Live'
    BY <1>14 DEF Crash, Live
  <2>4. QED BY <1>14, <2>1, <2>2, <2>3 DEF Crash
<1>15. CASE Restart
  BY <1>15, Parameters DEF Restart, Swept, Live
<1>16. CASE UNCHANGED vars
  BY <1>16 DEF vars, Live
<1>17. QED
  BY <1>1, <1>2, <1>3, <1>4, <1>5, <1>6, <1>7, <1>8, <1>9, <1>10, <1>11,
     <1>12, <1>13, <1>14, <1>15, <1>16 DEF Next, Handle, TickOn

\* The handler and its environment never leave the types, and the per-tick
\* variables always fit the step of the handler (TypeOK).
THEOREM TypeCorrect == Spec => []TypeOK
<1>1. QED BY InitType, NextType, PTL DEF Spec

\* PaperWallet's balance is at every step, crashes included, the starting
\* balance plus what was realized minus the fees.
THEOREM WalletSound == Spec => []WalletIdentity
<1>1. Init => WalletIdentity
  BY Parameters DEF Init, WalletIdentity
<1>2. TypeOK /\ WalletIdentity /\ [Next]_vars => WalletIdentity'
  <2> SUFFICES ASSUME TypeOK, WalletIdentity, [Next]_vars PROVE WalletIdentity'
    OBVIOUS
  <2> USE DEF WalletIdentity
  <2>1. wallet \in WalletRec
    BY DEF TypeOK, WalletRec
  <2>2. ASSUME NEW p \in Pairs, NEW x \in Prices, NEW s \in Sides, TickOpen(p, x, s)
        PROVE  WalletIdentity'
    <3>1. OpenFee * Notional(p) \in Int
      BY <2>1, NotionalType, Parameters DEF WalletRec
    <3>2. QED BY <2>1, <2>2, <3>1, WalletStep DEF TickOpen
  <2>3. ASSUME NEW i \in Ids, BeginClose(i) PROVE WalletIdentity'
    <3>1. waves[i] \in Wave /\ tick[2] \in Prices
      BY <2>3 DEF TypeOK, BeginClose, Visit, Live
    <3>2. CloseFee * Surf(waves[i], tick[2]).notional \in Int
      BY <3>1, SurfType, MoneyType
    <3>3. QED BY <2>1, <2>3, <3>2, WalletStep DEF BeginClose
  <2>4. CASE CreditClose
    <3>1. waves[closing.id] \in Wave
      BY <2>4 DEF CreditClose, TypeOK, ClosingSteps, Live
    <3>2. Gross(waves[closing.id]) - CloseFee * waves[closing.id].notional \in Int
      BY <3>1, MoneyType
    <3>3. QED BY <2>1, <2>4, <3>2, WalletStep DEF CreditClose
  <2>5. CASE UNCHANGED wallet
    BY <2>5
  <2>6. QED
    BY <2>2, <2>3, <2>4, <2>5
    DEF Next, Handle, TickOn, vars, disk, TickQuiet, RecordOpen, Ride, LogClose,
        LogTrade, FinishClose, Housekeep, Elapse, Midnight,
        RequestStop, ClearStop, Crash, Restart
<1>3. QED BY <1>1, <1>2, TypeCorrect, PTL DEF Spec

-----------------------------------------------------------------------------
\* No wave carries a peak at the bank arm from one visit to the next: the tick
\* that lifts the peak there closes the wave.
BankInv ==
  /\ draft # None => draft.peak < BankArm
  /\ \A i \in Live : (closing # None /\ closing.id = i) \/ waves[i].peak < BankArm
  /\ BankedInProfit

\* A wave closed as bank_08r is at or above the bank arm when it is closed.
THEOREM BankSound == Spec => []BankedInProfit
<1>1. Init => BankInv
  BY DEF Init, BankInv, BankedInProfit, Live
<1>2. TypeOK /\ BankInv /\ [Next]_vars => BankInv'
  <2> SUFFICES ASSUME TypeOK, BankInv, [Next]_vars PROVE BankInv'
    OBVIOUS
  <2> USE DEF BankInv, BankedInProfit, Live, memory
  <2>1. ASSUME NEW p \in Pairs, NEW x \in Prices, NEW s \in Sides, TickOpen(p, x, s)
        PROVE  BankInv'
    BY <2>1 DEF TickOpen, NewWave, BankArm
  <2>2. CASE RecordOpen
    <3>1. closing = None /\ closing' = None /\ draft' = None /\ draft # None
      BY <2>2 DEF RecordOpen, TypeOK, ClosingSteps
    <3>2. waves' = [waves EXCEPT ![DraftId] = draft]
      BY <2>2 DEF RecordOpen
    <3>3. \A i \in Live' : waves'[i] = draft \/ (i \in Live /\ waves'[i] = waves[i])
      BY <3>2 DEF TypeOK
    <3>4. QED BY <3>1, <3>3
  <2>3. ASSUME NEW i \in Ids, Ride(i) PROVE BankInv'
    <3> DEFINE w == Surf(waves[i], tick[2])
    <3>1. waves[i] \in Wave /\ tick[2] \in Prices /\ closing = None
      BY <2>3 DEF TypeOK, ClosingSteps, Ride, Visit
    <3>2. w \in Wave
      BY <3>1, SurfType
    <3> HIDE DEF w
    <3>3. ExitReason(w, tick[2]) = "none"
      BY <2>3 DEF Ride, w
    <3>4. w.peak < BankArm
      BY <3>2, <3>3 DEF ExitReason, Banks, Wave, BankArm
    <3>5. waves' = [waves EXCEPT ![i] = w] /\ draft' = draft /\ closing' = closing
      BY <2>3 DEF Ride, w
    <3>6. QED BY <3>1, <3>4, <3>5 DEF TypeOK
  <2>4. ASSUME NEW i \in Ids, BeginClose(i) PROVE BankInv'
    <3> DEFINE w == Surf(waves[i], tick[2])
    <3>1. waves[i] \in Wave /\ tick[2] \in Prices /\ closing = None /\ i \in Live
      BY <2>4 DEF TypeOK, ClosingSteps, BeginClose, Visit
    <3>2. w \in Wave /\ w.live \in Int /\ w.peak = MaxOf(waves[i].peak, w.live)
          /\ waves[i].peak \in Nat /\ waves[i].peak < BankArm
      BY <3>1, SurfType DEF Wave
    <3> HIDE DEF w
    <3>3. ExitReason(w, tick[2]) = "bank_08r" => w.live >= BankArm
      BY <3>2 DEF ExitReason, Banks, MaxOf, BankArm
    <3>4. /\ waves' = [waves EXCEPT ![i] = w] /\ draft' = draft
          /\ closing' = [id |-> i, reason |-> ExitReason(w, tick[2])]
      BY <2>4 DEF BeginClose, w
    <3>5. closing'.id = i /\ closing'.reason = ExitReason(w, tick[2])
      BY <3>4
    <3>6. waves'[i] = w
      BY <3>4 DEF TypeOK
    <3>7. \A j \in Live' : closing'.id = j \/ waves'[j].peak < BankArm
      BY <3>1, <3>4, <3>5 DEF TypeOK
    <3>8. closing' # None
      BY <2>4, NextType DEF BeginClose, TypeOK, ClosingSteps
    <3>9. QED BY <3>3, <3>4, <3>5, <3>6, <3>7, <3>8
  <2>5. CASE FinishClose
    BY <2>5 DEF FinishClose, Popped, TypeOK
  <2>6. CASE Elapse
    <3>1. \A i \in Live' : /\ i \in Live /\ waves[i] \in Wave
                           /\ waves'[i] = [waves[i] EXCEPT !.age = MinOf(waves[i].age + 1, AgeCap)]
      BY <2>6, OlderType DEF Elapse, TypeOK
    <3>2. \A i \in Live' : /\ i \in Live /\ waves'[i].peak = waves[i].peak
                           /\ waves'[i].live = waves[i].live
      BY <3>1 DEF Wave
    <3>3. draft' # None => draft # None /\ draft'.peak = draft.peak
      <4>1. draft # None => draft \in Wave
        BY DEF TypeOK
      <4>2. draft' # None =>
              draft # None /\ draft' = [draft EXCEPT !.age = MinOf(draft.age + 1, AgeCap)]
        BY <2>6, OlderType DEF Elapse, TypeOK
      <4>3. QED BY <4>1, <4>2 DEF Wave
    <3>4. closing' = closing /\ (closing # None => closing.id \in Live')
      BY <2>6, NextType DEF Elapse, TypeOK
    <3>5. QED BY <3>2, <3>3, <3>4
  <2>7. CASE Crash
    BY <2>7 DEF Crash
  <2>8. CASE UNCHANGED <<waves, draft, closing>>
    BY <2>8
  <2>9. QED
    BY <2>1, <2>2, <2>3, <2>4, <2>5, <2>6, <2>7, <2>8
    DEF Next, Handle, TickOn, vars, TickQuiet, CreditClose, LogClose, LogTrade,
        Housekeep, Midnight, RequestStop, ClearStop, Restart
<1>3. BankInv => BankedInProfit
  BY DEF BankInv
<1>4. QED BY <1>1, <1>2, <1>3, TypeCorrect, PTL DEF Spec

-----------------------------------------------------------------------------
\* What a step can do to the book: it enters the draft, or it lets waves go and
\* leaves the pair and side of the others alone.
LEMMA BookStep ==
  ASSUME TypeOK, [Next]_vars
  PROVE  \/ RecordOpen
         \/ Live' \subseteq Live /\ \A i \in Live' : Key(waves'[i]) = Key(waves[i])
<1> DEFINE Kept == Live' \subseteq Live /\ \A i \in Live' : Key(waves'[i]) = Key(waves[i])
<1> USE DEF Live, memory
<1>1. ASSUME NEW i \in Ids, Ride(i) \/ BeginClose(i) PROVE Kept
  <2> DEFINE w == Surf(waves[i], tick[2])
  <2>1. i \in Live /\ waves[i] \in Wave /\ tick[2] \in Prices
    BY <1>1 DEF TypeOK, ClosingSteps, Ride, BeginClose, Visit
  <2>2. Key(w) = Key(waves[i])
    BY <2>1, SurfType
  <2> HIDE DEF w
  <2>3. waves' = [waves EXCEPT ![i] = w]
    BY <1>1 DEF Ride, BeginClose, w
  <2>4. QED BY <2>1, <2>2, <2>3 DEF TypeOK
<1>2. CASE FinishClose
  BY <1>2 DEF FinishClose, Popped, TypeOK
<1>3. CASE Elapse
  <2>1. \A i \in Live' : /\ i \in Live /\ waves[i] \in Wave
                         /\ waves'[i] = [waves[i] EXCEPT !.age = MinOf(waves[i].age + 1, AgeCap)]
    BY <1>3, OlderType DEF Elapse, TypeOK
  <2>2. QED BY <2>1 DEF Key, Wave
<1>4. CASE Crash
  BY <1>4 DEF Crash
<1>5. CASE UNCHANGED waves
  BY <1>5
<1>6. QED
  BY <1>1, <1>2, <1>3, <1>4, <1>5
  DEF Next, Handle, TickOn, vars, TickQuiet, TickOpen, TickArrives, CreditClose, LogClose,
      LogTrade, Housekeep, Midnight, RequestStop, ClearStop, Restart

\* What a step can do to the draft: admission makes one, time leaves its pair
\* and side alone, and otherwise it is unchanged or gone.
LEMMA DraftStep ==
  ASSUME TypeOK, [Next]_vars
  PROVE  \/ draft' = None
         \/ draft # None /\ Key(draft') = Key(draft)
         \/ \E p \in Pairs, x \in Prices, s \in Sides : TickOpen(p, x, s)
<1> USE DEF memory
<1>1. CASE Elapse
  <2>1. draft \in Wave \union {None} /\ draft' = Older(draft)
    BY <1>1 DEF Elapse, TypeOK
  <2>2. CASE draft = None
    BY <2>1, <2>2 DEF Older
  <2>3. CASE draft # None
    <3>1. draft \in Wave /\ draft' = [draft EXCEPT !.age = MinOf(draft.age + 1, AgeCap)]
      BY <2>1, <2>3, OlderType
    <3>2. QED BY <2>3, <3>1 DEF Key, Wave
  <2>4. QED BY <2>2, <2>3
<1>2. CASE RecordOpen \/ Crash
  BY <1>2 DEF RecordOpen, Crash
<1>3. CASE UNCHANGED draft
  BY <1>3
<1>4. QED
  BY <1>1, <1>2, <1>3
  DEF Next, Handle, TickOn, vars, TickQuiet, Ride, BeginClose, CreditClose, LogClose,
      LogTrade, FinishClose, Housekeep, Midnight, RequestStop,
      ClearStop, Restart

LEMMA LiveFinite == IsFiniteSet(Live) /\ Cardinality(Live) \in Nat
<1>1. IsFiniteSet(Ids)
  BY Parameters, FS_Interval DEF Ids
<1>2. QED
  BY <1>1, FS_Subset, FS_CardinalityType DEF Live

\* What open() checked still holds of the draft when it enters the book.
ExposureInv ==
  /\ ExposureBounded
  /\ draft # None => /\ \A i \in Live : Key(waves[i]) # Key(draft)
                     /\ Cardinality(Live) < MaxOpenWaves

LEMMA ExposureKept == Spec => []ExposureInv
<1>1. Init => ExposureInv
  <2> SUFFICES ASSUME Init PROVE ExposureInv
    OBVIOUS
  <2>1. Live = {} /\ draft = None
    BY DEF Init, Live
  <2>2. QED BY <2>1, FS_EmptySet, Parameters DEF ExposureInv, ExposureBounded
<1>2. TypeOK /\ ExposureInv /\ [Next]_vars => ExposureInv'
  <2> SUFFICES ASSUME TypeOK, ExposureInv, [Next]_vars PROVE ExposureInv'
    OBVIOUS
  <2>1. TypeOK' /\ IsFiniteSet(Live) /\ Cardinality(Live) \in Nat
    BY NextType, LiveFinite
  <2>2. CASE RecordOpen
    <3>1. draft # None /\ draft' = None /\ DraftId \in Ids
          /\ waves' = [waves EXCEPT ![DraftId] = draft]
      BY <2>2, Parameters DEF RecordOpen, TypeOK, DraftId, Ids
    <3>2. Live' = Live \union {DraftId}
      BY <3>1 DEF Live, TypeOK
    <3>3. Cardinality(Live') <= MaxOpenWaves
      <4>1. Cardinality(Live \union {DraftId}) \in {Cardinality(Live), Cardinality(Live) + 1}
        BY <2>1, FS_AddElement
      <4>2. Cardinality(Live) < MaxOpenWaves
        BY <3>1 DEF ExposureInv
      <4> DEFINE n == Cardinality(Live)
                m == Cardinality(Live')
      <4>3. n \in Nat /\ m \in {n, n + 1} /\ n < MaxOpenWaves
        BY <2>1, <3>2, <4>1, <4>2
      <4> HIDE DEF n, m
      <4>4. m <= MaxOpenWaves
        BY <4>3, Parameters
      <4>5. QED BY <4>4 DEF m
    <3>4. \A i \in Live' : \/ i = DraftId /\ waves'[i] = draft
                           \/ i # DraftId /\ i \in Live /\ waves'[i] = waves[i]
      <4>1. DOMAIN waves = Ids /\ Live \subseteq Ids
        BY DEF TypeOK, Live
      <4>2. QED BY <3>1, <3>2, <4>1
    <3>5. \A i, j \in Live' : Key(waves'[i]) = Key(waves'[j]) => i = j
      BY <3>1, <3>4 DEF ExposureInv, ExposureBounded
    <3>6. QED BY <3>1, <3>3, <3>5 DEF ExposureInv, ExposureBounded
  <2>3. CASE Live' \subseteq Live /\ \A i \in Live' : Key(waves'[i]) = Key(waves[i])
    <3>1. Cardinality(Live') <= Cardinality(Live) /\ Cardinality(Live') \in Nat
      BY <2>1, <2>3, FS_Subset, FS_CardinalityType
    <3>2. ExposureBounded'
      BY <2>1, <2>3, <3>1, Parameters DEF ExposureInv, ExposureBounded
    <3>3. CASE draft' = None
      BY <3>2, <3>3 DEF ExposureInv
    <3>4. CASE draft # None /\ Key(draft') = Key(draft)
      BY <2>1, <2>3, <3>1, <3>2, <3>4, Parameters DEF ExposureInv
    <3>5. ASSUME NEW p \in Pairs, NEW x \in Prices, NEW s \in Sides, TickOpen(p, x, s)
          PROVE  ExposureInv'
      <4>1. Key(draft') = <<p, s>> /\ waves' = waves /\ Live' = Live
        BY <3>5 DEF TickOpen, NewWave, Key, Live
      <4>2. KeyFree(<<p, s>>) /\ RoomLeft
        BY <3>5 DEF TickOpen, ManagerOpens
      <4>3. QED BY <3>2, <4>1, <4>2 DEF ExposureInv, KeyFree, RoomLeft
    <3>6. QED BY <3>3, <3>4, <3>5, DraftStep
  <2>4. QED BY <2>2, <2>3, BookStep
<1>3. QED BY <1>1, <1>2, TypeCorrect, PTL DEF Spec

\* At most one wave per (pair, side) and at most MaxOpenWaves in all, at every
\* step of every interleaving (ExposureBounded).
THEOREM ExposureSound == Spec => []ExposureBounded
<1>1. ExposureInv => ExposureBounded
  BY DEF ExposureInv
<1>2. QED BY <1>1, ExposureKept, PTL

-----------------------------------------------------------------------------
\* Within a boot the limiter remembers the last open; over a restart, which
\* forgets it, the warmup has not been up for longer than that.
RateInv == sinceOpen >= sinceTrade \/ sinceOpen >= uptime

\* With a warmup at least as long as the rate limit (90 s and 60 s by default),
\* no two opens are closer than the limit, restarts included (OpensRateLimited).
THEOREM RateSound == Warmup >= TradeCooldown => (Spec => OpensRateLimited)
<1> SUFFICES ASSUME Warmup >= TradeCooldown PROVE Spec => OpensRateLimited
  OBVIOUS
<1>1. Init => RateInv
  BY Parameters DEF Init, RateInv
<1>2. TypeOK /\ RateInv /\ [Next]_vars => RateInv'
  <2> SUFFICES ASSUME TypeOK, RateInv, [Next]_vars PROVE RateInv'
    OBVIOUS
  <2> USE DEF RateInv, memory, history
  <2>1. sinceOpen \in 0..TradeCooldown /\ sinceTrade \in 0..TradeCooldown
        /\ uptime \in 0..Warmup
    BY DEF TypeOK
  <2>2. CASE RecordOpen
    BY <2>2 DEF RecordOpen
  <2>3. CASE Elapse
    BY <2>1, <2>3, Parameters DEF Elapse, MinOf
  <2>4. CASE Crash \/ Restart
    BY <2>1, <2>4, Parameters DEF Crash, Restart
  <2>5. CASE UNCHANGED <<sinceOpen, sinceTrade, uptime>>
    BY <2>5
  <2>6. QED
    BY <2>2, <2>3, <2>4, <2>5
    DEF Next, Handle, TickOn, vars, TickQuiet, TickOpen, TickArrives, Ride, BeginClose,
        CreditClose, LogClose, LogTrade, FinishClose, Housekeep,
        Midnight, RequestStop, ClearStop
<1>3. TypeOK /\ RateInv /\ [Next]_vars
        => (draft = None /\ draft' # None => sinceOpen >= TradeCooldown)
  <2> SUFFICES ASSUME TypeOK, RateInv, [Next]_vars, draft = None, draft' # None
               PROVE  sinceOpen >= TradeCooldown
    OBVIOUS
  <2>1. PICK p \in Pairs, x \in Prices, s \in Sides : TickOpen(p, x, s)
    BY DraftStep
  <2>2. EntriesAllowed
    BY <2>1 DEF TickOpen
  <2>3. QED BY <2>2, Parameters DEF EntriesAllowed, RateInv, TypeOK
<1>4. QED BY <1>1, <1>2, <1>3, TypeCorrect, PTL DEF Spec, OpensRateLimited

\* A key's cooldown entry accounts for the time since its last close.
CoolInv ==
  \A k \in Keys : IF cooldown[k] = -1 THEN sinceClose[k] >= CooldownS
                  ELSE sinceClose[k] + cooldown[k] >= CooldownS

\* A (pair, side) closed in this boot is not opened again before its cooldown is
\* over (CooldownRespected).
THEOREM CooldownSound == Spec => CooldownRespected
<1>1. Init => CoolInv
  BY Parameters DEF Init, CoolInv
<1>2. TypeOK /\ CoolInv /\ [Next]_vars => CoolInv'
  <2> SUFFICES ASSUME TypeOK, CoolInv, [Next]_vars PROVE CoolInv'
    OBVIOUS
  <2> USE DEF CoolInv, memory, history
  <2>1. cooldown \in [Keys -> -1..CooldownS] /\ sinceClose \in [Keys -> 0..CooldownS]
    BY DEF TypeOK
  <2>2. CASE FinishClose
    BY <2>1, <2>2, Parameters DEF FinishClose
  <2>3. CASE Housekeep
    BY <2>1, <2>3, Parameters DEF Housekeep, Purged
  <2>4. CASE Elapse
    BY <2>1, <2>4, Parameters DEF Elapse, CoolDown, MinOf
  <2>5. CASE Crash
    BY <2>1, <2>5, Parameters DEF Crash
  <2>6. CASE UNCHANGED <<cooldown, sinceClose>>
    BY <2>6
  <2>7. QED
    BY <2>2, <2>3, <2>4, <2>5, <2>6
    DEF Next, Handle, TickOn, vars, TickQuiet, TickOpen, TickArrives, RecordOpen, Ride,
        BeginClose, CreditClose, LogClose, LogTrade, Midnight,
        RequestStop, ClearStop, Restart
<1>3. TypeOK /\ CoolInv /\ [Next]_vars
        => (draft = None /\ draft' # None => sinceClose[Key(draft')] >= CooldownS)
  <2> SUFFICES ASSUME TypeOK, CoolInv, [Next]_vars, draft = None, draft' # None
               PROVE  sinceClose[Key(draft')] >= CooldownS
    OBVIOUS
  <2>1. PICK p \in Pairs, x \in Prices, s \in Sides : TickOpen(p, x, s)
    BY DraftStep
  <2>2. Key(draft') = <<p, s>> /\ <<p, s>> \in Keys
    BY <2>1 DEF TickOpen, NewWave, Key, Keys
  <2>3. KeyFree(<<p, s>>)
    BY <2>1 DEF TickOpen, ManagerOpens
  <2>4. QED BY <2>2, <2>3 DEF KeyFree, CoolInv
<1>4. QED BY <1>1, <1>2, <1>3, TypeCorrect, PTL DEF Spec, CooldownRespected

\* An admitted entry is never under way when the switch is tripped.
TripInv == kill.tripped => draft = None

\* A trip of the kill switch is final in its process: the switch stays tripped
\* and the book only shrinks (TripStopsOpens).
THEOREM TripSound == Spec => TripStopsOpens
<1>1. Init => TripInv
  BY DEF Init, TripInv
<1> DEFINE TripStep ==
      kill.tripped => /\ Live' \subseteq Live
                      /\ kill'.tripped \/ pc' = "down"
<1>2. TypeOK /\ TripInv /\ [Next]_vars => TripInv' /\ TripStep
  <2> SUFFICES ASSUME TypeOK, TripInv, [Next]_vars PROVE TripInv' /\ TripStep
    OBVIOUS
  <2> USE DEF TripInv, memory
  <2>1. ~RecordOpen \/ ~kill.tripped
    BY DEF RecordOpen, TypeOK
  <2>2. kill.tripped => Live' \subseteq Live
    BY <2>1, BookStep
  <2>3. kill.tripped => draft' = None
    <3>1. ASSUME NEW p \in Pairs, NEW x \in Prices, NEW s \in Sides, TickOpen(p, x, s)
          PROVE  ~kill.tripped
      BY <3>1 DEF TickOpen, EntriesAllowed
    <3>2. QED BY <3>1, DraftStep
  <2>4. CASE FinishClose
    <3>1. draft' = None
      BY <2>4 DEF FinishClose, TypeOK
    <3>2. kill.tripped => kill'.tripped
      BY <2>4 DEF FinishClose, AfterLoss
    <3>3. QED BY <2>2, <3>1, <3>2
  <2>5. CASE Midnight
    BY <2>2, <2>5 DEF Midnight, TypeOK
  <2>6. CASE Crash
    BY <2>2, <2>6 DEF Crash, FreshKill
  <2>7. CASE UNCHANGED kill
    BY <2>2, <2>3, <2>7
  <2>8. QED
    BY <2>4, <2>5, <2>6, <2>7
    DEF Next, Handle, TickOn, vars, TickQuiet, TickOpen, TickArrives, RecordOpen, Ride,
        BeginClose, CreditClose, LogClose, LogTrade, Housekeep,
        Elapse, RequestStop, ClearStop, Restart
<1>3. QED
  <2>1. TripStep <=> (kill.tripped =>
           /\ {i \in Ids : waves'[i] # None} \subseteq Live
           /\ kill'.tripped \/ pc' = "down")
    BY DEF Live
  <2>2. QED BY <1>1, <1>2, <2>1, TypeCorrect, PTL DEF Spec, TripStopsOpens

-----------------------------------------------------------------------------
CreditedSteps == {"credited", "closeLogged", "logged"}
Fresh(i) == i >= nextId \/ (draft # None /\ i = DraftId)

\* An id is credited between CreditClose and the end of its close(), and never
\* before its wave is in the book.
SettledInv ==
  /\ SettledOnce
  /\ \A i \in Ids : Fresh(i) => i \notin Live /\ settled[i] = 0
  /\ \A i \in Live : settled[i] = 0 \/ (pc \in CreditedSteps /\ closing.id = i)
  /\ pc \in CreditedSteps => settled[closing.id] = 1

\* No wave's PnL reaches the wallet twice, and every trade row stands for one
\* credit, whatever the database refuses and wherever the process is killed
\* (SettledOnce).
THEOREM SettledSound == Spec => []SettledOnce
<1>1. Init => SettledInv
  BY DEF Init, SettledInv, SettledOnce, Live, CreditedSteps, Fresh
<1>2. TypeOK /\ SettledInv /\ [Next]_vars => SettledInv'
  <2> SUFFICES ASSUME TypeOK, SettledInv, [Next]_vars PROVE SettledInv'
    OBVIOUS
  <2>1. /\ DOMAIN waves = Ids /\ Live \subseteq Ids /\ todo \subseteq Live
        /\ settled \in [Ids -> Nat] /\ DOMAIN tradeRows = Ids
        /\ Ids \subseteq Int /\ nextId \in Int /\ DraftId = nextId - 1
    BY DEF TypeOK, Live, Ids, DraftId
  <2>2. closing # None => closing.id \in Ids
    BY <2>1 DEF TypeOK
  <2> USE DEF SettledInv, SettledOnce, CreditedSteps, memory, disk, history
  <2>3. ASSUME NEW p \in Pairs, NEW x \in Prices, NEW s \in Sides, TickOpen(p, x, s)
        PROVE  SettledInv'
    <3>1. /\ nextId' = nextId + 1 /\ DraftId' = nextId /\ Live' = Live /\ pc' = "charged"
          /\ UNCHANGED <<settled, tradeRows>>
      BY <2>3, <2>1 DEF TickOpen, DraftId, Live
    <3>2. \A i \in Ids : Fresh(i)' => Fresh(i)
      BY <3>1, <2>1 DEF Fresh
    <3>3. \A i \in Live : settled[i] = 0
      BY <2>3 DEF TickOpen, TickArrives
    <3>4. QED BY <3>1, <3>2, <3>3
  <2>4. CASE RecordOpen
    <3>1. /\ draft' = None /\ draft # None /\ nextId' = nextId /\ pc = "charged"
          /\ pc' = "manage" /\ UNCHANGED <<settled, tradeRows>>
          /\ waves' = [waves EXCEPT ![DraftId] = draft]
      BY <2>4 DEF RecordOpen, TypeOK
    <3>2. Live' \subseteq Live \union {DraftId}
      BY <2>1, <3>1 DEF Live
    <3>3. \A i \in Live' : settled[i] = 0
      BY <3>1, <3>2, <2>1 DEF Fresh, Live
    <3>4. \A i \in Ids : Fresh(i)' => Fresh(i) /\ i # DraftId
      BY <3>1, <2>1 DEF Fresh
    <3>5. QED BY <3>1, <3>2, <3>3, <3>4, <2>1
  <2>5. CASE CreditClose
    <3>1. /\ pc = "feeCharged" /\ pc' = "credited" /\ closing.id \in Live
          /\ settled' = [settled EXCEPT ![closing.id] = @ + 1]
          /\ Live' = Live /\ UNCHANGED <<closing, draft, nextId, tradeRows>>
      BY <2>5, <2>1 DEF CreditClose, TypeOK, ClosingSteps, Live
    <3>2. settled[closing.id] = 0
      BY <3>1
    <3>3. settled'[closing.id] = 1 /\ \A i \in Ids \ {closing.id} : settled'[i] = settled[i]
      <4> DEFINE c == closing.id
      <4>1. c \in Ids /\ settled[c] = 0
        BY <2>1, <3>1, <3>2
      <4>2. settled' = [settled EXCEPT ![c] = settled[c] + 1]
        BY <3>1
      <4> HIDE DEF c
      <4>3. settled' = [settled EXCEPT ![c] = 1]
        BY <4>1, <4>2
      <4>4. settled'[c] = 1 /\ \A i \in Ids \ {c} : settled'[i] = settled[i]
        BY <2>1, <4>1, <4>3
      <4>5. QED BY <4>4 DEF c
    <3>4. \A i \in Ids : Fresh(i)' => Fresh(i) /\ i # closing.id
      BY <3>1 DEF Fresh, DraftId
    <3>5. QED BY <2>1, <3>1, <3>3, <3>4
  <2>6. CASE LogTrade
    <3>1. /\ pc = "closeLogged" /\ pc' = "logged" /\ Live' = Live
          /\ UNCHANGED <<closing, draft, nextId, settled>>
          /\ \A i \in Ids : tradeRows'[i] # tradeRows[i] => i = closing.id
      BY <2>6, <2>1 DEF LogTrade, Live
    <3>2. \A i \in Ids : Fresh(i)' => Fresh(i)
      BY <3>1 DEF Fresh, DraftId
    <3>3. QED BY <2>2, <3>1, <3>2
  <2>7. CASE FinishClose
    <3>1. /\ pc' = "manage" /\ waves' = [waves EXCEPT ![closing.id] = None]
          /\ UNCHANGED <<draft, nextId, settled, tradeRows>>
      BY <2>7 DEF FinishClose, Popped
    <3>2. Live' = Live \ {closing.id}
      BY <2>1, <3>1 DEF Live
    <3>3. \A i \in Ids : Fresh(i)' => Fresh(i)
      BY <3>1 DEF Fresh, DraftId
    <3>4. QED BY <3>1, <3>2, <3>3, <2>1
  <2>8. CASE Crash
    <3>1. Live' = {} /\ pc' = "down" /\ draft' = None
          /\ UNCHANGED <<nextId, settled, tradeRows>>
      BY <2>8, <2>1 DEF Crash, Live
    <3>2. \A i \in Ids : Fresh(i)' => Fresh(i)
      BY <3>1 DEF Fresh
    <3>3. QED BY <3>1, <3>2
  <2>9. ASSUME NEW i \in Ids, BeginClose(i) PROVE SettledInv'
    <3>1. /\ Live' = Live /\ pc = "manage" /\ pc' = "feeCharged"
          /\ UNCHANGED <<draft, nextId, settled, tradeRows>>
      <4>1. i \in Live /\ waves[i] \in Wave /\ tick[2] \in Prices
        BY <2>9 DEF TypeOK, ClosingSteps, BeginClose, Visit, Live
      <4>2. Surf(waves[i], tick[2]) # None
        BY <4>1, SurfType, Parameters
      <4>3. QED BY <2>1, <2>9, <4>1, <4>2 DEF BeginClose, Visit, Live
    <3>2. \A j \in Ids : Fresh(j)' => Fresh(j)
      BY <3>1 DEF Fresh, DraftId
    <3>3. QED BY <3>1, <3>2
  <2>10. ASSUME /\ Live' \subseteq Live /\ UNCHANGED <<nextId, settled, tradeRows>>
                /\ draft' # None <=> draft # None
                /\ \/ pc \in CreditedSteps /\ pc' \in CreditedSteps /\ closing' = closing
                   \/ pc' \notin CreditedSteps /\ pc \notin CreditedSteps
         PROVE  SettledInv'
    <3>1. \A i \in Ids : Fresh(i)' => Fresh(i)
      BY <2>10 DEF Fresh, DraftId
    <3>2. QED BY <2>10, <3>1
  <2>11. CASE Elapse
    <3>1. draft' # None <=> draft # None
      BY <2>11, OlderType DEF Elapse, TypeOK
    <3>2. Live' \subseteq Live
      BY <2>11, BookStep DEF Elapse, RecordOpen
    <3>3. QED BY <2>10, <2>11, <3>1, <3>2 DEF Elapse
  <2>12. ASSUME NEW i \in Ids, Ride(i) PROVE SettledInv'
    <3>1. Live' \subseteq Live
      BY <2>12, BookStep DEF Ride, Visit, RecordOpen
    <3>2. QED BY <2>10, <2>12, <3>1 DEF Ride, Visit
  <2>13. CASE LogClose \/ Housekeep \/ Midnight \/ RequestStop
              \/ ClearStop \/ Restart
    BY <2>10, <2>13
    DEF LogClose, Housekeep, Midnight, RequestStop, ClearStop, Restart, Live
  <2>14. ASSUME NEW p \in Pairs, NEW x \in Prices, TickQuiet(p, x) PROVE SettledInv'
    BY <2>10, <2>14 DEF TickQuiet, TickArrives, Live
  <2>15. CASE UNCHANGED vars
    BY <2>10, <2>15 DEF vars, Live
  <2>16. QED
    BY <2>3, <2>4, <2>5, <2>6, <2>7, <2>8, <2>9, <2>11, <2>12, <2>13, <2>14, <2>15
    DEF Next, Handle, TickOn
<1>3. SettledInv => SettledOnce
  BY DEF SettledInv
<1>4. QED BY <1>1, <1>2, <1>3, TypeCorrect, PTL DEF Spec
-----------------------------------------------------------------------------
\* A wave is never larger than the balance it is opened on, although sizing
\* rounds it up to the exchange minimum: the minimum was compared with that very
\* balance (SizedWithinBalance).
THEOREM SizeSound == Spec => SizedWithinBalance
<1>1. TypeOK /\ [Next]_vars
        => (draft = None /\ draft' # None => draft'.notional * Quote <= wallet.balance)
  <2> SUFFICES ASSUME TypeOK, [Next]_vars, draft = None, draft' # None
               PROVE  draft'.notional * Quote <= wallet.balance
    OBVIOUS
  <2>1. PICK p \in Pairs, x \in Prices, s \in Sides : TickOpen(p, x, s)
    BY DraftStep
  <2>2. draft'.notional = Notional(p) /\ Affordable(p)
    BY <2>1 DEF TickOpen, ManagerOpens, NewWave
  <2>3. wallet.balance \in Int /\ MinNotional[p] \in Nat
    BY Parameters DEF TypeOK
  <2> DEFINE whole == wallet.balance \div Quote
             sized == MinOf(NotionalFor, whole)
  <2>4. whole \in Int /\ whole * Quote <= wallet.balance
    BY <2>3 DEF Quote
  <2>5. MinNotional[p] * Quote <= wallet.balance
    <3>1. 100 * MinNotional[p] * Quote <= 60 * wallet.balance
      BY <2>2 DEF Affordable
    <3>2. QED BY <2>3, <3>1 DEF Quote
  <2>6. NotionalFor \in Int
    <3>1. MinOf(wallet.balance, MaxTarget) * RiskPct \in Int
      BY <2>3, MaxMin, Parameters
    <3>2. MinOf((MinOf(wallet.balance, MaxTarget) * RiskPct) \div 100, wallet.balance) \in Int
      BY <2>3, <3>1, MaxMin
    <3>3. QED BY <3>2, MaxMin DEF NotionalFor, Quote
  <2>7. sized \in Int /\ sized <= whole
    BY <2>4, <2>6, MaxMin
  <2>8. Notional(p) \in {MinNotional[p], sized}
    BY <2>3, <2>7, MaxMin DEF Notional
  <2> HIDE DEF sized, whole
  <2>9. CASE Notional(p) = sized
    BY <2>2, <2>3, <2>4, <2>7, <2>9 DEF Quote
  <2>10. QED BY <2>2, <2>5, <2>8, <2>9
<1>2. QED BY <1>1, TypeCorrect, PTL DEF Spec, SizedWithinBalance

-----------------------------------------------------------------------------
\* With a working database the journal shows as open the waves in memory, less
\* the one whose close is already logged but which is still in the book; what a
\* crash left behind is swept before the next tick.
LoggedSteps == {"closeLogged", "logged"}
Shown == {i \in Ids : waveLog[i] = "SURFING"}
LogInv ==
  ~MayFailDb =>
    /\ pc = "down" => Live = {}
    /\ pc # "down" => \A i \in Ids :
         i \in Shown <=> (i \in Live /\ ~(pc \in LoggedSteps /\ closing.id = i))

\* Surfing and ageing change the waves, never which ids are live.
LEMMA LiveKept ==
  ASSUME TypeOK, Elapse \/ \E i \in Ids : Ride(i) \/ BeginClose(i)
  PROVE  Live' = Live
<1>1. CASE Elapse
  <2>1. \A i \in Ids : (waves[i] = None) <=> (waves'[i] = None)
    BY <1>1, OlderType, Parameters DEF Elapse, TypeOK
  <2>2. QED BY <2>1 DEF Live
<1>2. ASSUME NEW i \in Ids, Ride(i) \/ BeginClose(i) PROVE Live' = Live
  <2> DEFINE w == Surf(waves[i], tick[2])
  <2>1. i \in Live /\ waves[i] \in Wave /\ tick[2] \in Prices
    BY <1>2 DEF TypeOK, ClosingSteps, Ride, BeginClose, Visit, Live
  <2>2. w # None
    BY <2>1, SurfType, Parameters
  <2> HIDE DEF w
  <2>3. waves' = [waves EXCEPT ![i] = w]
    BY <1>2 DEF Ride, BeginClose, w
  <2>4. QED BY <2>1, <2>2, <2>3 DEF TypeOK, Live
<1>3. QED BY <1>1, <1>2

\* With a working database, between ticks the journal shows as open exactly the
\* waves in memory, wherever the process was killed and restarted
\* (LogMatchesBook).
THEOREM LogSound == Spec => []LogMatchesBook
<1>1. Init => LogInv
  BY DEF Init, LogInv, Shown, Live, LoggedSteps
<1>2. TypeOK /\ LogInv /\ [Next]_vars => LogInv'
  <2> SUFFICES ASSUME TypeOK, LogInv, [Next]_vars, ~MayFailDb PROVE LogInv'
    BY DEF LogInv
  <2> USE DEF LogInv, LoggedSteps, memory, disk
  <2>1. DOMAIN waves = Ids /\ DOMAIN waveLog = Ids /\ Live \subseteq Ids /\ todo \subseteq Live
    BY DEF TypeOK, Live
  <2>2. CASE RecordOpen
    <3>1. /\ DraftId \in Ids /\ draft # None /\ pc = "charged" /\ pc' = "manage"
          /\ waves' = [waves EXCEPT ![DraftId] = draft]
          /\ waveLog' = [waveLog EXCEPT ![DraftId] = "SURFING"]
      BY <2>2, Parameters DEF RecordOpen, TypeOK, DraftId, Ids
    <3>2. Live' = Live \union {DraftId} /\ Shown' = Shown \union {DraftId}
      BY <2>1, <3>1 DEF Live, Shown
    <3>3. QED BY <3>1, <3>2
  <2>3. CASE LogClose
    <3>1. /\ pc = "credited" /\ pc' = "closeLogged" /\ closing' = closing /\ Live' = Live
          /\ closing.id \in Live
      BY <2>3, <2>1 DEF LogClose, TypeOK, ClosingSteps, Live
    <3>2. Shown' = Shown \ {closing.id}
      BY <2>1, <2>3 DEF LogClose, Shown
    <3>3. QED BY <3>1, <3>2, <2>1
  <2>4. CASE FinishClose
    <3>1. pc = "logged" /\ pc' = "manage" /\ closing.id \in Live /\ waveLog' = waveLog
          /\ waves' = [waves EXCEPT ![closing.id] = None]
      BY <2>4, <2>1 DEF FinishClose, Popped, TypeOK, ClosingSteps
    <3>2. Live' = Live \ {closing.id} /\ Shown' = Shown
      BY <2>1, <3>1 DEF Live, Shown
    <3>3. QED BY <3>1, <3>2
  <2>5. CASE Crash
    BY <2>5 DEF Crash, Live
  <2>6. CASE Restart
    <3>1. pc = "down" /\ pc' = "idle" /\ Live = {} /\ Live' = Live
      BY <2>6 DEF Restart, Live
    <3>2. Shown' = {}
      BY <2>6 DEF Restart, Swept, Shown
    <3>3. QED BY <3>1, <3>2
  <2>7. ASSUME Live' = Live, UNCHANGED waveLog, pc' = "down" <=> pc = "down",
               \/ pc' \notin LoggedSteps /\ pc \notin LoggedSteps
               \/ pc' \in LoggedSteps /\ pc \in LoggedSteps /\ closing' = closing
        PROVE  LogInv'
    BY <2>7 DEF Shown
  <2>8. CASE Elapse \/ \E i \in Ids : Ride(i) \/ BeginClose(i)
    BY <2>7, <2>8, LiveKept DEF Elapse, Ride, BeginClose, Visit
  <2>9. CASE UNCHANGED vars
    BY <2>7, <2>9 DEF vars, Live
  <2>10. QED
    BY <2>2, <2>3, <2>4, <2>5, <2>6, <2>7, <2>8, <2>9
    DEF Next, Handle, TickOn, TickQuiet, TickOpen, TickArrives, CreditClose, LogTrade,
        Housekeep, Midnight, RequestStop, ClearStop, Live
<1>3. LogInv => LogMatchesBook
  BY DEF LogInv, LogMatchesBook, Shown, LoggedSteps, Live
<1>4. QED BY <1>1, <1>2, <1>3, TypeCorrect, PTL DEF Spec

-----------------------------------------------------------------------------
\* Between ticks every wave is managed; during a tick the waves of its pair that
\* are still to be visited may not be.
Timed == {"none", "partial_profit", "max_age"}
Managed(w, x) == w.live = CalcR(w, x) /\ ExitReason(w, x) \in Timed
Waiting(i) == tick # None /\ waves[i].pair = tick[1] /\ (pc = "charged" \/ i \in todo)
ManagedInv ==
  /\ \A i \in Live : Managed(waves[i], ctxPrice[waves[i].pair]) \/ Waiting(i)
  /\ \A i \in todo : waves[i].pair = tick[1]
  /\ pc \in {"idle", "down", "charged"} => todo = {}
  /\ tick # None => ctxPrice[tick[1]] = tick[2]
  /\ draft # None => draft.pair = tick[1]

\* Time changes which rule on age may fire, and no rule on price.
LEMMA ManagedAges ==
  ASSUME NEW w \in Wave, NEW x, NEW a \in Nat, Managed(w, x)
  PROVE  Managed([w EXCEPT !.age = a], x)
<1> DEFINE o == [w EXCEPT !.age = a]
<1>1. /\ o.peak = w.peak /\ o.live = w.live /\ o.sl = w.sl /\ o.side = w.side
      /\ o.entry = w.entry
  BY DEF Wave
<1>2. CalcR(o, x) = CalcR(w, x) /\ Banks(o) = Banks(w)
  BY <1>1 DEF CalcR, Banks
<1> HIDE DEF o
<1>3. ExitReason(o, x) \in Timed
  BY <1>1, <1>2 DEF ExitReason, Managed, Timed
<1>4. QED BY <1>1, <1>2, <1>3 DEF Managed, o

\* A wave that rides on is managed at the price of the tick.
LEMMA ManagedRides ==
  ASSUME NEW w \in Wave, NEW x \in Prices, ExitReason(Surf(w, x), x) = "none"
  PROVE  Managed(Surf(w, x), x) /\ Surf(w, x).pair = w.pair
<1>1. Surf(w, x).entry = w.entry /\ Surf(w, x).side = w.side /\ Surf(w, x).pair = w.pair
  BY DEF Surf, Wave
<1>2. CalcR(Surf(w, x), x) = CalcR(w, x)
  BY <1>1 DEF CalcR
<1>3. QED BY <1>1, <1>2, SurfType DEF Managed, Timed

\* Between ticks every open wave has been valued at its pair's last price and no
\* rule on price is pending, whether or not entries were allowed, and whether or
\* not the exit engine cut the tick short (EveryWaveManaged).
THEOREM ManagedSound == Spec => []EveryWaveManaged
<1>1. Init => ManagedInv
  BY DEF Init, ManagedInv, Live
<1>2. TypeOK /\ ManagedInv /\ [Next]_vars => ManagedInv'
  <2> SUFFICES ASSUME TypeOK, ManagedInv, [Next]_vars PROVE ManagedInv'
    OBVIOUS
  <2> USE DEF memory
  <2>1. /\ DOMAIN waves = Ids /\ Live \subseteq Ids /\ todo \subseteq Live
        /\ \A i \in Live : waves[i] \in Wave /\ waves[i].pair \in Pairs
        /\ DOMAIN ctxPrice = Pairs
    BY DEF TypeOK, Live, Wave
  <2>2. ASSUME NEW p \in Pairs, NEW x \in Prices, TickArrives(p, x), waves' = waves,
               \/ pc' = "charged" /\ draft'.pair = p /\ todo' = todo
               \/ pc' = "manage" /\ todo' = LiveOn(p) /\ draft' = None
        PROVE  ManagedInv'
    <3>1. /\ tick = None /\ pc = "idle" /\ tick' = <<p, x>> /\ Live' = Live
          /\ ctxPrice' = [ctxPrice EXCEPT ![p] = x]
      BY <2>2 DEF TickArrives, TypeOK, Live
    <3>2. tick' # None /\ tick'[1] = p /\ ctxPrice'[p] = x /\ todo = {}
      <4>1. todo = {}
        BY <3>1 DEF ManagedInv
      <4>2. QED BY <2>1, <3>1, <4>1, Parameters
    <3>3. \A i \in Live : Managed(waves[i], ctxPrice[waves[i].pair])
      BY <3>1 DEF ManagedInv, Waiting
    <3>4. \A i \in Live : waves[i].pair = p \/ ctxPrice'[waves[i].pair] = ctxPrice[waves[i].pair]
      BY <2>1, <3>1
    <3>5. QED
      BY <2>1, <2>2, <3>1, <3>2, <3>3, <3>4 DEF ManagedInv, Waiting, LiveOn
  <2>3. CASE RecordOpen
    <3>1. /\ draft # None /\ draft' = None /\ DraftId \in Ids /\ pc = "charged" /\ pc' = "manage"
          /\ waves' = [waves EXCEPT ![DraftId] = draft] /\ tick' = tick /\ ctxPrice' = ctxPrice
          /\ todo' = LiveOn(draft.pair) \union {DraftId} /\ tick # None
      BY <2>3, Parameters DEF RecordOpen, TypeOK, DraftId, Ids
    <3>2. \A i \in Live' : \/ i = DraftId /\ waves'[i] = draft
                           \/ i # DraftId /\ i \in Live /\ waves'[i] = waves[i]
      BY <2>1, <3>1 DEF Live
    <3>3. draft.pair = tick[1]
      BY <3>1 DEF ManagedInv
    <3>4. \A i \in todo' : waves'[i].pair = tick[1]
      BY <2>1, <3>1, <3>3 DEF LiveOn
    <3>5. \A i \in Live' : Managed(waves'[i], ctxPrice'[waves'[i].pair]) \/ Waiting(i)'
      <4> SUFFICES ASSUME NEW i \in Live', waves'[i].pair # tick[1]
                   PROVE  Managed(waves'[i], ctxPrice'[waves'[i].pair])
        BY <2>1, <3>1, <3>2, <3>3 DEF Waiting, LiveOn
      <4>1. i \in Live /\ waves'[i] = waves[i]
        BY <3>2, <3>3
      <4>2. QED BY <3>1, <4>1 DEF ManagedInv, Waiting
    <3>6. QED BY <3>1, <3>4, <3>5 DEF ManagedInv
  <2>4. ASSUME NEW i \in Ids, Ride(i) \/ BeginClose(i) PROVE ManagedInv'
    <3> DEFINE w == Surf(waves[i], tick[2])
    <3>1. /\ i \in Live /\ i \in todo /\ waves[i] \in Wave /\ tick[2] \in Prices
          /\ pc = "manage" /\ tick # None
      BY <2>1, <2>4 DEF TypeOK, ClosingSteps, Ride, BeginClose, Visit
    <3>2. waves[i].pair = tick[1] /\ ctxPrice[tick[1]] = tick[2] /\ w.pair = waves[i].pair
      BY <3>1 DEF ManagedInv, Surf, Wave
    <3>3. ExitReason(w, tick[2]) = "none" => Managed(w, tick[2])
      BY <3>1, ManagedRides
    <3>4. /\ waves' = [waves EXCEPT ![i] = w] /\ Live' = Live
          /\ UNCHANGED <<tick, ctxPrice, draft>>
          /\ \/ ExitReason(w, tick[2]) = "none" /\ todo' = todo \ {i} /\ pc' = pc
             \/ todo' = todo /\ pc' = "feeCharged"
      BY <2>4, LiveKept DEF Ride, BeginClose
    <3> HIDE DEF w
    <3>5. \A j \in Ids \ {i} : waves'[j] = waves[j]
      BY <3>4, <2>1
    <3>6. waves'[i] = w
      BY <3>4, <2>1
    <3>7. ASSUME NEW j \in Live'
          PROVE  Managed(waves'[j], ctxPrice'[waves'[j].pair]) \/ Waiting(j)'
      <4>1. CASE j = i
        BY <3>1, <3>2, <3>3, <3>4, <3>6, <4>1 DEF Waiting
      <4>2. CASE j # i
        BY <2>1, <3>1, <3>4, <3>5, <4>2 DEF ManagedInv, Waiting
      <4>3. QED BY <4>1, <4>2
    <3>8. \A j \in todo' : waves'[j].pair = tick'[1]
      BY <2>1, <3>2, <3>4, <3>5, <3>6 DEF ManagedInv
    <3>9. QED BY <3>1, <3>4, <3>7, <3>8 DEF ManagedInv
  <2>5. CASE FinishClose
    <3>1. /\ pc = "logged" /\ pc' = "manage" /\ waves' = [waves EXCEPT ![closing.id] = None]
          /\ todo' = todo \ {closing.id} /\ UNCHANGED <<tick, draft, ctxPrice>>
      BY <2>5 DEF FinishClose, Popped
    <3>2. Live' = Live \ {closing.id} /\ \A i \in Live' : waves'[i] = waves[i]
      BY <2>1, <3>1 DEF Live
    <3>3. QED BY <2>1, <3>1, <3>2 DEF ManagedInv, Waiting
  <2>6. CASE Crash
    BY <2>6 DEF Crash, Live, ManagedInv
  <2>7. CASE Elapse
    <3>1. Live' = Live /\ UNCHANGED <<pc, tick, todo, ctxPrice>>
      BY <2>7, LiveKept DEF Elapse
    <3>2. AgeCap \in Nat
      BY Parameters, MaxMin DEF AgeCap
    <3>3. ASSUME NEW i \in Live
          PROVE  /\ waves'[i].pair = waves[i].pair
                 /\ \A x : Managed(waves[i], x) => Managed(waves'[i], x)
      <4> DEFINE a == MinOf(waves[i].age + 1, AgeCap)
      <4>1. waves[i] \in Wave /\ waves'[i] = [waves[i] EXCEPT !.age = a]
        BY <2>1, <2>7, OlderType DEF Elapse, Live
      <4>2. a \in Nat
        <5>1. waves[i].age \in Nat
          BY <4>1 DEF Wave
        <5>2. QED BY <3>2, <5>1, MaxMin
      <4> HIDE DEF a
      <4>3. QED BY <4>1, <4>2, ManagedAges DEF Wave
    <3>4. draft # None => draft' # None /\ draft'.pair = draft.pair
      <4>1. draft \in Wave \union {None} /\ draft' = Older(draft)
        BY <2>7 DEF Elapse, TypeOK
      <4>2. QED BY <4>1, OlderType DEF Wave
    <3>5. draft = None => draft' = None
      BY <2>7 DEF Elapse, Older
    <3>6. QED BY <2>1, <3>1, <3>3, <3>4, <3>5 DEF ManagedInv, Waiting
  <2>8. ASSUME Live' = Live, UNCHANGED <<waves, todo, draft, ctxPrice>>,
               \/ tick' = tick /\ pc' = pc
               \/ tick' = tick /\ pc' \in ClosingSteps /\ pc \in ClosingSteps
               \/ tick' = tick /\ {pc, pc'} = {"down", "idle"}
               \/ tick' = None /\ todo = {} /\ pc # "charged"
        PROVE  ManagedInv'
    <3>1. pc # "charged" => draft = None
      BY DEF TypeOK
    <3>2. QED BY <2>8, <3>1 DEF ManagedInv, Waiting, ClosingSteps
  <2>9. CASE \/ CreditClose \/ LogClose \/ LogTrade \/ Midnight \/ RequestStop \/ ClearStop
             \/ UNCHANGED vars
    BY <2>8, <2>9
    DEF CreditClose, LogClose, LogTrade, Midnight, RequestStop, ClearStop, vars, Live,
        ClosingSteps
  <2>10. CASE Housekeep \/ Restart
    BY <2>8, <2>10 DEF Housekeep, Restart, Live
  <2>11. ASSUME NEW p \in Pairs, NEW x \in Prices,
                TickQuiet(p, x) \/ \E s \in Sides : TickOpen(p, x, s)
         PROVE  ManagedInv'
    <3>1. TickArrives(p, x) /\ waves' = waves
      BY <2>11 DEF TickQuiet, TickOpen
    <3>2. \/ pc' = "charged" /\ draft'.pair = p /\ todo' = todo
          \/ pc' = "manage" /\ todo' = LiveOn(p) /\ draft' = None
      BY <2>11, <3>1 DEF TickQuiet, TickOpen, TickArrives, ToManage, NewWave, TypeOK
    <3>3. QED BY <2>2, <3>1, <3>2
  <2>12. QED
    BY <2>3, <2>4, <2>5, <2>6, <2>7, <2>9, <2>10, <2>11 DEF Next, Handle, TickOn
<1>3. TypeOK /\ ManagedInv => EveryWaveManaged
  BY DEF TypeOK, ManagedInv, EveryWaveManaged, Managed, Timed, Waiting
<1>4. QED BY <1>1, <1>2, <1>3, TypeCorrect, PTL DEF Spec
-----------------------------------------------------------------------------
(* The trading core implements the position book of TradeBook: each step of *)
(* on_tick is one step of the book or leaves it alone.                      *)

\* The journal before and during a close: a fresh id has no rows; a live wave is
\* unlogged or shown as open until its own close is logged, and has no trade row
\* until the last step of its close.
JournalInv ==
  /\ pc = "down" => Live = {}
  /\ \A i \in Ids : Fresh(i) => i \notin Live /\ waveLog[i] = "absent" /\ tradeRows[i] = None
  /\ \A i \in Live : /\ \/ waveLog[i] \in {"absent", "SURFING"}
                        \/ pc \in LoggedSteps /\ closing.id = i
                     /\ \/ tradeRows[i] = None
                        \/ pc = "logged" /\ closing.id = i
  /\ pc = "closeLogged" => waveLog[closing.id] # "SURFING"

LEMMA JournalKept == Spec => []JournalInv
<1>1. Init => JournalInv
  BY DEF Init, JournalInv, Live
<1>2. TypeOK /\ JournalInv /\ [Next]_vars => JournalInv'
  <2> SUFFICES ASSUME TypeOK, JournalInv, [Next]_vars PROVE JournalInv'
    OBVIOUS
  <2> USE DEF JournalInv, LoggedSteps, memory, disk
  <2>1. /\ DOMAIN waves = Ids /\ DOMAIN waveLog = Ids /\ DOMAIN tradeRows = Ids
        /\ Live \subseteq Ids /\ todo \subseteq Live
        /\ Ids \subseteq Int /\ nextId \in Int /\ DraftId = nextId - 1
        /\ pc \in ClosingSteps => closing.id \in Live
    BY DEF TypeOK, Live, Ids, DraftId
  <2>2. ASSUME NEW p \in Pairs, NEW x \in Prices, NEW s \in Sides, TickOpen(p, x, s)
        PROVE  JournalInv'
    <3>1. /\ nextId' = nextId + 1 /\ DraftId' = nextId /\ Live' = Live
          /\ pc = "idle" /\ pc' = "charged" /\ UNCHANGED <<waveLog, tradeRows>>
      BY <2>2, <2>1 DEF TickOpen, TickArrives, DraftId, Live
    <3>2. \A i \in Ids : Fresh(i)' => Fresh(i)
      BY <3>1, <2>1 DEF Fresh
    <3>3. QED BY <3>1, <3>2
  <2>3. CASE RecordOpen
    <3>1. /\ draft' = None /\ draft # None /\ nextId' = nextId /\ pc = "charged"
          /\ pc' = "manage" /\ UNCHANGED tradeRows
          /\ waves' = [waves EXCEPT ![DraftId] = draft]
          /\ waveLog' \in {waveLog, [waveLog EXCEPT ![DraftId] = "SURFING"]}
          /\ DraftId \in Ids
      BY <2>3, Parameters DEF RecordOpen, TypeOK, DraftId, Ids
    <3>2. Live' = Live \union {DraftId} /\ Fresh(DraftId)
      BY <2>1, <3>1 DEF Live, Fresh
    <3>3. \A i \in Ids : Fresh(i)' => Fresh(i) /\ i # DraftId
      BY <3>1, <2>1 DEF Fresh
    <3>4. QED BY <2>1, <3>1, <3>2, <3>3
  <2>4. CASE LogClose
    <3>1. /\ pc = "credited" /\ closing' = closing /\ closing.id \in Live /\ Live' = Live
          /\ UNCHANGED <<draft, nextId, tradeRows>>
          /\ \/ pc' = "logged" /\ UNCHANGED waveLog
             \/ pc' = "closeLogged" /\ waveLog' = [waveLog EXCEPT ![closing.id] =
                  IF waveLog[closing.id] = "absent" THEN waveLog[closing.id] ELSE "WAVE_BREAK"]
      BY <2>4, <2>1 DEF LogClose, ClosingSteps, Live
    <3>2. \A i \in Ids : Fresh(i)' => Fresh(i) /\ i # closing.id
      BY <3>1 DEF Fresh, DraftId
    <3>3. QED BY <2>1, <3>1, <3>2
  <2>5. CASE LogTrade
    <3>1. /\ pc = "closeLogged" /\ pc' = "logged" /\ closing' = closing
          /\ closing.id \in Live /\ Live' = Live /\ UNCHANGED <<draft, nextId, waveLog>>
          /\ \A i \in Ids : i # closing.id => tradeRows'[i] = tradeRows[i]
      BY <2>5, <2>1 DEF LogTrade, ClosingSteps, Live
    <3>2. \A i \in Ids : Fresh(i)' => Fresh(i) /\ i # closing.id
      BY <3>1 DEF Fresh, DraftId
    <3>3. QED BY <2>1, <3>1, <3>2
  <2>6. CASE FinishClose
    <3>1. /\ pc = "logged" /\ pc' = "manage" /\ waves' = [waves EXCEPT ![closing.id] = None]
          /\ UNCHANGED <<draft, nextId, waveLog, tradeRows>>
      BY <2>6 DEF FinishClose, Popped
    <3>2. Live' = Live \ {closing.id}
      BY <2>1, <3>1 DEF Live
    <3>3. \A i \in Ids : Fresh(i)' => Fresh(i)
      BY <3>1 DEF Fresh, DraftId
    <3>4. QED BY <3>1, <3>2, <3>3
  <2>7. CASE Crash
    <3>1. /\ Live' = {} /\ pc' = "down" /\ draft' = None
          /\ UNCHANGED <<nextId, waveLog, tradeRows>>
      BY <2>7 DEF Crash, Live
    <3>2. \A i \in Ids : Fresh(i)' => Fresh(i)
      BY <3>1 DEF Fresh
    <3>3. QED BY <3>1, <3>2
  <2>8. CASE Restart
    <3>1. /\ Live = {} /\ Live' = {} /\ pc' = "idle" /\ UNCHANGED <<draft, nextId, tradeRows>>
      BY <2>8 DEF Restart, Live
    <3>2. \A i \in Ids : waveLog[i] = "absent" => waveLog'[i] = "absent"
      BY <2>8 DEF Restart, Swept
    <3>3. \A i \in Ids : Fresh(i)' => Fresh(i)
      BY <3>1 DEF Fresh, DraftId
    <3>4. QED BY <3>1, <3>2, <3>3
  <2>9. ASSUME Live' = Live, UNCHANGED <<nextId, waveLog, tradeRows>>,
               (draft' # None) <=> (draft # None), (pc' = "down") <=> (pc = "down"),
               \/ pc' \notin LoggedSteps /\ pc \notin LoggedSteps
               \/ pc' = pc /\ closing' = closing
        PROVE  JournalInv'
    <3>1. \A i \in Ids : Fresh(i)' => Fresh(i)
      BY <2>9 DEF Fresh, DraftId
    <3>2. QED BY <2>9, <3>1
  <2>10. CASE Elapse
    <3>1. (draft' # None) <=> (draft # None)
      BY <2>10, OlderType DEF Elapse, TypeOK
    <3>2. QED BY <2>9, <2>10, <3>1, LiveKept DEF Elapse
  <2>11. CASE \E i \in Ids : Ride(i) \/ BeginClose(i)
    BY <2>9, <2>11, LiveKept DEF Ride, BeginClose, Visit
  <2>12. CASE UNCHANGED vars
    BY <2>9, <2>12 DEF vars, Live
  <2>13. ASSUME NEW p \in Pairs, NEW x \in Prices, TickQuiet(p, x) PROVE JournalInv'
    BY <2>9, <2>13 DEF TickQuiet, TickArrives, Live
  <2>14. CASE CreditClose \/ Housekeep \/ Midnight \/ RequestStop
              \/ ClearStop
    BY <2>9, <2>14
    DEF CreditClose, Housekeep, Midnight, RequestStop, ClearStop, Live
  <2>15. QED
    BY <2>2, <2>3, <2>4, <2>5, <2>6, <2>7, <2>8, <2>10, <2>11, <2>12, <2>13, <2>14
    DEF Next, Handle, TickOn
<1>3. QED BY <1>1, <1>2, TypeCorrect, PTL DEF Spec
-----------------------------------------------------------------------------
(* The refinement mapping.                                                  *)

Used == {i \in Ids : i < nextId /\ ~(draft # None /\ i = DraftId)}
HeldKeys == [i \in Ids |-> IF waves[i] = None THEN None ELSE Key(waves[i])]

LEMMA KeyType ==
  ASSUME NEW w \in Wave
  PROVE  Key(w) \in Keys /\ Key(w) # None
BY Parameters DEF Wave, Key, Keys

LEMMA HeldIsLive == TypeOK => Book!Held = Live
<1> SUFFICES ASSUME TypeOK PROVE Book!Held = Live
  OBVIOUS
<1>1. \A i \in Ids : HeldKeys[i] # None <=> waves[i] # None
  BY KeyType DEF HeldKeys, TypeOK
<1>2. QED BY <1>1 DEF Book!Held, HeldKeys, Live

LEMMA BookCardinality == \A S : Book!Cardinality(S) = Cardinality(S)
BY DEF Book!Cardinality, Cardinality, Book!IsFiniteSet, IsFiniteSet

\* Steps that touch no row, take no id and let go of no wave leave the book alone.
LEMMA BookStutters ==
  ASSUME TypeOK, TypeOK', [Next]_vars, ~RecordOpen, Live' = Live, Used' = Used,
         UNCHANGED <<waveLog, tradeRows>>
  PROVE  UNCHANGED Book!vars
<1>1. \A i \in Live : Key(waves'[i]) = Key(waves[i])
  BY BookStep
<1>2. HeldKeys' = HeldKeys
  BY <1>1 DEF HeldKeys, Live
<1>3. QED BY <1>2 DEF Book!vars, Used, HeldKeys

\* An opening takes the draft's id on a free key.
LEMMA BookTakes ==
  ASSUME TypeOK, TypeOK', ExposureInv, RecordOpen
  PROVE  Book!Next
<1>1. /\ draft \in Wave /\ draft' = None /\ draft # None /\ DraftId \in Ids
      /\ nextId' = nextId /\ UNCHANGED tradeRows /\ DraftId' = DraftId
      /\ waves' = [waves EXCEPT ![DraftId] = draft] /\ DOMAIN waves = Ids
      /\ waveLog' \in {waveLog, [waveLog EXCEPT ![DraftId] = "SURFING"]}
  BY Parameters DEF RecordOpen, TypeOK, DraftId, Ids
<1>2. DraftId < nextId /\ Ids \subseteq Int
  <2>1. nextId \in Int
    BY DEF TypeOK
  <2>2. QED BY <2>1 DEF DraftId, Ids
<1>3. DraftId \notin Used /\ Used' = Used \union {DraftId}
  BY <1>1, <1>2 DEF Used
<1>4. \A j \in Live : HeldKeys[j] # Key(draft)
  <2>1. \A j \in Live : j \in Ids /\ waves[j] # None /\ Key(waves[j]) # Key(draft)
    BY <1>1 DEF ExposureInv, Live
  <2>2. QED BY <2>1 DEF HeldKeys
<1>5. Cardinality(Live) < MaxOpenWaves
  BY <1>1 DEF ExposureInv
<1>6. HeldKeys' = [HeldKeys EXCEPT ![DraftId] = Key(draft)]
  BY <1>1 DEF HeldKeys
<1>7. Key(draft) \in Keys
  BY <1>1, KeyType
<1>8. PICK i \in Ids, k \in Keys : i = DraftId /\ k = Key(draft)
  BY <1>1, <1>7
<1>9. Book!Cardinality(Book!Held) < MaxOpenWaves
  BY <1>5, HeldIsLive, BookCardinality
<1>10. Book!Take(i, k)
  BY <1>1, <1>3, <1>4, <1>6, <1>8, <1>9, HeldIsLive DEF Book!Take, Used, HeldKeys
<1>11. QED BY <1>10 DEF Book!Next

\* Logging a close marks the row, if there is one.
LEMMA BookMarks ==
  ASSUME TypeOK, TypeOK', JournalInv, LogClose
  PROVE  Book!Next \/ UNCHANGED Book!vars
<1> DEFINE i == closing.id
<1>1. /\ i \in Live /\ i \in Ids /\ pc = "credited" /\ waves' = waves /\ Used' = Used
      /\ UNCHANGED tradeRows /\ DOMAIN waveLog = Ids
      /\ waveLog' \in {waveLog, [waveLog EXCEPT ![i] =
                                   IF waveLog[i] = "absent" THEN waveLog[i] ELSE "WAVE_BREAK"]}
  BY DEF LogClose, TypeOK, ClosingSteps, Live, memory, Used, DraftId
<1>2. waveLog[i] \in {"absent", "SURFING"}
  BY <1>1 DEF JournalInv, LoggedSteps
<1>3. HeldKeys' = HeldKeys
  BY <1>1 DEF HeldKeys
<1>4. CASE waveLog' = waveLog
  BY <1>1, <1>3, <1>4 DEF Book!vars, Used, HeldKeys
<1>5. CASE waveLog' # waveLog
  <2>1. waveLog[i] = "SURFING" /\ waveLog' = [waveLog EXCEPT ![i] = "WAVE_BREAK"]
    BY <1>1, <1>2, <1>5 DEF TypeOK
  <2>2. Book!MarkClosed(i)
    BY <1>1, <1>3, <2>1, HeldIsLive DEF Book!MarkClosed, Used, HeldKeys
  <2>3. QED BY <1>1, <2>2 DEF Book!Next
<1>6. QED BY <1>4, <1>5

\* The trade row is written once, after the close is on record.
LEMMA BookWrites ==
  ASSUME TypeOK, TypeOK', JournalInv, LogTrade
  PROVE  Book!Next \/ UNCHANGED Book!vars
<1> DEFINE i == closing.id
           row == Recorded(waves[i])
<1>1. /\ i \in Live /\ i \in Ids /\ pc = "closeLogged" /\ waves' = waves /\ Used' = Used
      /\ UNCHANGED waveLog /\ DOMAIN tradeRows = Ids /\ waves[i] \in Wave
      /\ tradeRows' \in {tradeRows, [tradeRows EXCEPT ![i] = row]}
  BY DEF LogTrade, TypeOK, ClosingSteps, Live, memory, Used, DraftId
<1>2. waveLog[i] # "SURFING" /\ tradeRows[i] = None
  BY <1>1 DEF JournalInv, LoggedSteps
<1>3. HeldKeys' = HeldKeys
  BY <1>1 DEF HeldKeys
<1>4. row # None
  BY <1>1, RecordedType
<1> HIDE DEF row, i
<1>5. CASE tradeRows' = tradeRows
  BY <1>1, <1>3, <1>5 DEF Book!vars, Used, HeldKeys
<1>6. CASE tradeRows' = [tradeRows EXCEPT ![i] = row]
  <2>1. tradeRows'[i] # None /\ tradeRows' = [tradeRows EXCEPT ![i] = tradeRows'[i]]
    BY <1>1, <1>4, <1>6
  <2>2. Book!WriteRow(i)
    BY <1>1, <1>2, <1>3, <2>1, HeldIsLive DEF Book!WriteRow, Used, HeldKeys
  <2>3. QED BY <1>1, <2>2 DEF Book!Next
<1>7. QED BY <1>1, <1>5, <1>6

\* The end of a close releases the position, a crash loses them all and may burn
\* the id of the draft, a restart sweeps the journal.
LEMMA BookLetsGo ==
  ASSUME TypeOK, TypeOK', JournalInv, FinishClose \/ Crash \/ Restart
  PROVE  Book!Next
<1>1. CASE FinishClose
  <2>0. PICK i \in Ids : i = closing.id
    BY <1>1 DEF FinishClose, TypeOK, ClosingSteps, Live
  <2>1. /\ i \in Live /\ i \in Ids /\ waves' = [waves EXCEPT ![i] = None] /\ Used' = Used
        /\ UNCHANGED <<waveLog, tradeRows>> /\ DOMAIN waves = Ids
    BY <1>1, <2>0 DEF FinishClose, Popped, TypeOK, ClosingSteps, Live, disk, Used, DraftId
  <2>2. HeldKeys' = [HeldKeys EXCEPT ![i] = None]
    BY <2>1 DEF HeldKeys
  <2>3. Book!Release(i)
    BY <2>1, <2>2, HeldIsLive DEF Book!Release, Used, HeldKeys
  <2>4. QED BY <2>1, <2>3 DEF Book!Next
<1>2. CASE Crash
  <2>1. /\ waves' = [i \in Ids |-> None] /\ draft' = None /\ nextId' = nextId
        /\ UNCHANGED <<waveLog, tradeRows>>
    BY <1>2 DEF Crash, disk
  <2>2. HeldKeys' = [i \in Ids |-> None]
    BY <2>1 DEF HeldKeys
  <2>3. Used' = Used \/ \E i \in Ids : Used' = Used \union {i}
    <3>1. CASE draft = None
      BY <2>1, <3>1 DEF Used, DraftId
    <3>2. CASE draft # None
      <4>1. DraftId \in Ids /\ DraftId < nextId
        BY <3>2, Parameters DEF TypeOK, DraftId, Ids
      <4>2. Used' = Used \union {DraftId}
        BY <2>1, <3>2, <4>1 DEF Used
      <4>3. QED BY <4>1, <4>2
    <3>3. QED BY <3>1, <3>2
  <2>4. Book!Lose
    BY <2>1, <2>2, <2>3 DEF Book!Lose, Used, HeldKeys
  <2>5. QED BY <2>4 DEF Book!Next
<1>3. CASE Restart
  <2>1. /\ waveLog' = [i \in Ids |-> IF waveLog[i] = "SURFING" THEN "stale" ELSE waveLog[i]]
        /\ Live = {} /\ waves' = waves /\ Used' = Used /\ UNCHANGED tradeRows
    BY <1>3 DEF Restart, Swept, JournalInv, Used, DraftId
  <2>2. HeldKeys' = HeldKeys
    BY <2>1 DEF HeldKeys
  <2>3. Book!Sweep
    BY <2>1, <2>2, HeldIsLive DEF Book!Sweep, Used, HeldKeys
  <2>4. QED BY <2>3 DEF Book!Next
<1>4. QED BY <1>1, <1>2, <1>3

\* The engine implements the position book (BookSpec), with crashes between any
\* two of its writes and a database that may refuse each of them.
THEOREM BookImplemented == Spec => BookSpec
<1>1. Init => Book!Init
  <2> SUFFICES ASSUME Init PROVE Book!Init
    OBVIOUS
  <2>1. Used = {}
    <3>1. \A i \in Ids : ~(i < 1)
      BY DEF Ids
    <3>2. nextId = 1
      BY DEF Init
    <3>3. QED BY <3>1, <3>2 DEF Used
  <2>2. HeldKeys = [i \in Ids |-> None]
    BY DEF Init, HeldKeys
  <2>3. QED BY <2>1, <2>2 DEF Init, Book!Init, Used, HeldKeys
<1>2. TypeOK /\ TypeOK' /\ ExposureInv /\ JournalInv /\ [Next]_vars
        => [Book!Next]_Book!vars
  <2> SUFFICES ASSUME TypeOK, TypeOK', ExposureInv, JournalInv, [Next]_vars
               PROVE  Book!Next \/ UNCHANGED Book!vars
    OBVIOUS
  <2> USE DEF memory, disk
  <2>1. CASE RecordOpen
    BY <2>1, BookTakes
  <2>2. CASE LogClose \/ LogTrade
    BY <2>2, BookMarks, BookWrites
  <2>3. CASE FinishClose \/ Crash \/ Restart
    BY <2>3, BookLetsGo
  <2>4. CASE ~RecordOpen /\ Live' = Live /\ Used' = Used /\ UNCHANGED <<waveLog, tradeRows>>
    BY <2>4, BookStutters
  <2>5. ASSUME NEW p \in Pairs, NEW x \in Prices, NEW s \in Sides, TickOpen(p, x, s)
        PROVE  Live' = Live /\ Used' = Used /\ UNCHANGED <<waveLog, tradeRows>>
    <3>1. /\ draft = None /\ nextId \in Int /\ nextId' = nextId + 1 /\ DraftId' = nextId
          /\ draft' # None /\ waves' = waves /\ UNCHANGED <<waveLog, tradeRows>>
      BY <2>5 DEF TickOpen, TickArrives, TypeOK, DraftId
    <3>2. \A i \in Ids : i \in Int
      BY DEF Ids
    <3>3. Used' = Used
      <4>1. \A i \in Ids : i \in Used' <=> i < nextId + 1 /\ i # nextId
        BY <3>1 DEF Used
      <4>2. \A i \in Ids : i \in Used <=> i < nextId
        BY <3>1 DEF Used
      <4>3. \A i \in Ids : i \in Used' <=> i \in Used
        BY <3>1, <3>2, <4>1, <4>2
      <4>4. Used \subseteq Ids /\ Used' \subseteq Ids
        BY DEF Used
      <4>5. QED BY <4>3, <4>4
    <3>4. QED BY <3>1, <3>3 DEF Live
  <2>6. CASE Elapse
    <3>1. (draft' # None) <=> (draft # None)
      BY <2>6, OlderType DEF Elapse, TypeOK
    <3>2. Used' = Used /\ UNCHANGED <<waveLog, tradeRows>>
      BY <2>6, <3>1 DEF Elapse, Used, DraftId
    <3>3. QED BY <2>1, <2>4, <2>6, <3>2, LiveKept
  <2>7. CASE \E i \in Ids : Ride(i) \/ BeginClose(i)
    <3>1. Used' = Used /\ UNCHANGED <<waveLog, tradeRows>>
      BY <2>7 DEF Ride, BeginClose, Used, DraftId
    <3>2. QED BY <2>1, <2>4, <2>7, <3>1, LiveKept
  <2>8. CASE \/ CreditClose \/ Housekeep \/ Midnight \/ RequestStop
             \/ ClearStop \/ UNCHANGED vars
             \/ \E p \in Pairs, x \in Prices : TickQuiet(p, x)
    BY <2>1, <2>4, <2>8
    DEF CreditClose, Housekeep, Midnight, RequestStop, ClearStop, vars,
        TickQuiet, TickArrives, Live, Used, DraftId
  <2>9. QED
    BY <2>1, <2>2, <2>3, <2>4, <2>5, <2>6, <2>7, <2>8 DEF Next, Handle, TickOn
<1>3. QED
  BY <1>1, <1>2, TypeCorrect, ExposureKept, JournalKept, PTL DEF Spec, BookSpec, Book!Spec
-----------------------------------------------------------------------------
(* The wallet against the rows of trades.                                   *)

Opened == 1..(nextId - 1)
ClosingOf(i) == pc \in ClosingSteps /\ closing.id = i

\* Nothing was lost so far: every id that was given out has its row or is still
\* in hand.  A crash or a refused write ends this for good.
NothingLost ==
  \A i \in Opened : tradeRows[i] # None \/ i \in Live \/ (draft # None /\ i = DraftId)

\* What the wave of an id has done to the balance so far: close() has charged
\* nothing, the close fee, or that fee and the result with the same fee taken off.
Charged(w) == -(OpenFee * w.notional)
FeeTaken(w) == Charged(w) - CloseFee * w.notional
Settled(w) == Net(w) - CloseFee * w.notional
Effect(i) ==
  IF tradeRows[i] # None THEN tradeRows[i].net - tradeRows[i].closeFee
  ELSE IF draft # None /\ i = DraftId THEN Charged(draft)
  ELSE IF i \notin Live THEN 0
  ELSE IF ~ClosingOf(i) THEN Charged(waves[i])
  ELSE IF pc = "feeCharged" THEN FeeTaken(waves[i])
  ELSE Settled(waves[i])
Effects == [i \in Ids |-> Effect(i)]

BalanceInv ==
  NothingLost => wallet.balance = StartBalance + SumOver(Effects, Opened)

LEMMA AmountTypes ==
  ASSUME NEW w \in Wave
  PROVE  /\ Charged(w) \in Int /\ FeeTaken(w) \in Int /\ Settled(w) \in Int
         /\ FeeTaken(w) = Charged(w) - CloseFee * w.notional
         /\ Settled(w) = FeeTaken(w) + (Gross(w) - CloseFee * w.notional)
         /\ CloseFee * w.notional \in Int /\ Gross(w) \in Int
<1> DEFINE o == OpenFee * w.notional  c == CloseFee * w.notional
<1>1. o \in Int /\ c \in Int /\ Gross(w) \in Int /\ Net(w) = Gross(w) - o - c
  BY MoneyType DEF Net
<1>2. Charged(w) = -o /\ FeeTaken(w) = Charged(w) - c /\ Settled(w) = Net(w) - c
  BY DEF Charged, FeeTaken, Settled
<1> HIDE DEF o
<1>3. c = CloseFee * w.notional
  OBVIOUS
<1> HIDE DEF c
<1>4. QED BY <1>1, <1>2, <1>3

LEMMA EffectTypes ==
  TypeOK => /\ Opened \subseteq Ids /\ IsFiniteSet(Opened)
            /\ IntsOn(Effects, Opened) /\ \A i \in Ids : Effects[i] = Effect(i)
<1> SUFFICES ASSUME TypeOK
             PROVE  /\ Opened \subseteq Ids /\ IsFiniteSet(Opened)
                    /\ \A i \in Ids : Effect(i) \in Int
  BY DEF IntsOn, Effects
<1>1. MaxWaves \in Nat /\ nextId \in 1..(MaxWaves + 1)
  BY Parameters DEF TypeOK
<1>2. Opened \subseteq Ids /\ IsFiniteSet(Opened)
  BY <1>1, FS_Interval DEF Opened, Ids
<1>3. ASSUME NEW i \in Ids PROVE Effect(i) \in Int
  <2>1. tradeRows[i] # None => tradeRows[i].net - tradeRows[i].closeFee \in Int
    BY DEF TypeOK, TradeRow
  <2>2. draft # None => Charged(draft) \in Int
    BY AmountTypes DEF TypeOK
  <2>3. i \in Live => /\ Charged(waves[i]) \in Int /\ FeeTaken(waves[i]) \in Int
                      /\ Settled(waves[i]) \in Int
    BY AmountTypes DEF TypeOK, Live
  <2>4. QED BY <2>1, <2>2, <2>3 DEF Effect
<1>4. QED BY <1>2, <1>3

\* A step that gives out no id, leaves the balance and the effect of every id
\* alone and brings nothing back keeps the balance in step with the rows.
LEMMA BalanceStutters ==
  ASSUME TypeOK, BalanceInv, nextId' = nextId, NothingLost' => NothingLost,
         wallet'.balance = wallet.balance,
         NothingLost' => \A i \in Opened : Effect(i)' = Effect(i)
  PROVE  BalanceInv'
<1> SUFFICES ASSUME NothingLost'
             PROVE  wallet'.balance = StartBalance + SumOver(Effects', Opened')
  BY DEF BalanceInv
<1>1. Opened' = Opened /\ Opened \subseteq Ids /\ IsFiniteSet(Opened) /\ IntsOn(Effects, Opened)
  BY EffectTypes DEF Opened
<1>2. \A i \in Opened : Effects'[i] = Effects[i]
  BY <1>1, EffectTypes DEF Effects
<1> DEFINE old == Effects  new == Effects'
<1> HIDE DEF old, new
<1>3. SumOver(new, Opened) = SumOver(old, Opened)
  <2>1. IntsOn(old, Opened) /\ \A i \in Opened : new[i] = old[i]
    BY <1>1, <1>2 DEF old, new
  <2>2. QED BY <1>1, <2>1, SumSame
<1>4. QED BY <1>1, <1>3 DEF BalanceInv, old, new

\* A step of close() moves the balance and the effect of its wave by the same.
LEMMA BalanceFollows ==
  ASSUME TypeOK, BalanceInv, nextId' = nextId, NothingLost' => NothingLost,
         NEW i \in Opened, Effect(i)' \in Int,
         wallet'.balance = wallet.balance + Effect(i)' - Effect(i),
         \A j \in Opened \ {i} : Effect(j)' = Effect(j)
  PROVE  BalanceInv'
<1> SUFFICES ASSUME NothingLost'
             PROVE  wallet'.balance = StartBalance + SumOver(Effects', Opened')
  BY DEF BalanceInv
<1>1. Opened' = Opened /\ Opened \subseteq Ids /\ IsFiniteSet(Opened) /\ IntsOn(Effects, Opened)
  BY EffectTypes DEF Opened
<1>2. /\ Effects[i] = Effect(i) /\ Effects'[i] = Effect(i)'
      /\ \A j \in Opened \ {i} : Effects'[j] = Effects[j]
  BY <1>1 DEF Effects
<1> DEFINE old == Effects  new == Effects'  before == Effect(i)  after == Effect(i)'
<1> HIDE DEF old, new, before, after
<1>3. SumOver(new, Opened) = SumOver(old, Opened) + new[i] - old[i]
  <2>1. /\ IntsOn(old, Opened) /\ new[i] \in Int
        /\ \A j \in Opened \ {i} : new[j] = old[j]
    BY <1>1, <1>2 DEF old, new
  <2>2. QED BY <1>1, <2>1, SumUpdate
<1>4. SumOver(old, Opened) \in Int /\ before \in Int /\ after \in Int
      /\ new[i] = after /\ old[i] = before
  <2>1. old[i] \in Int /\ IntsOn(old, Opened)
    BY <1>1 DEF IntsOn, old
  <2>2. QED BY <1>1, <1>2, <2>1, SumType DEF old, new, before, after
<1>5. wallet.balance = StartBalance + SumOver(old, Opened)
  BY DEF BalanceInv, old
<1>6. wallet'.balance = wallet.balance + after - before /\ StartBalance \in Int
  BY Parameters DEF before, after
<1>7. wallet'.balance = StartBalance + SumOver(new, Opened)
  BY <1>3, <1>4, <1>5, <1>6
<1>8. QED BY <1>1, <1>7 DEF new

\* An opening gives out an id and charges its open fee.
LEMMA BalanceOpens ==
  ASSUME TypeOK, TypeOK', JournalInv, BalanceInv,
         NEW p \in Pairs, NEW x \in Prices, NEW s \in Sides, TickOpen(p, x, s)
  PROVE  BalanceInv'
<1>0. PICK n \in Ids : n = nextId
  BY DEF TickOpen
<1> SUFFICES ASSUME NothingLost'
             PROVE  wallet'.balance = StartBalance + SumOver(Effects', Opened')
  BY DEF BalanceInv
<1>1. /\ draft = None /\ draft' = NewWave(p, s, x) /\ draft' # None /\ draft' \in Wave
      /\ n \in Nat \ {0} /\ nextId' = n + 1 /\ DraftId' = n /\ pc = "idle"
      /\ pc' = "charged" /\ waves' = waves /\ tradeRows' = tradeRows /\ Live' = Live
      /\ wallet' = ChargeFee(wallet, OpenFee * Notional(p))
  BY <1>0 DEF TickOpen, TickArrives, TypeOK, DraftId, Live, Ids
<1>2. Opened' = Opened \union {n} /\ n \notin Opened
  BY <1>0, <1>1 DEF Opened
<1>3. tradeRows[n] = None
  BY <1>0, <1>1 DEF JournalInv, Fresh
<1>4. Effect(n)' = Charged(draft') /\ Charged(draft') \in Int
  <2>1. Effect(n)' = Charged(draft)'
    BY <1>1, <1>3 DEF Effect
  <2>2. QED BY <1>1, <2>1, AmountTypes DEF Charged
<1>5. ASSUME NEW i \in Opened PROVE Effect(i)' = Effect(i)
  <2>1. i # n /\ ~ClosingOf(i) /\ ~ClosingOf(i)'
    BY <1>1, <1>2 DEF ClosingOf, ClosingSteps
  <2>2. QED BY <1>1, <2>1 DEF Effect, Charged
<1>6. NothingLost
  <2>1. \A i \in Opened : tradeRows[i] # None \/ i \in Live
    BY <1>1, <1>2 DEF NothingLost
  <2>2. QED BY <2>1 DEF NothingLost
<1>7. /\ Opened \subseteq Ids /\ IsFiniteSet(Opened) /\ IntsOn(Effects, Opened)
      /\ \A i \in Opened : Effects'[i] = Effects[i]
      /\ Effects'[n] = Charged(draft')
  BY <1>1, <1>4, <1>5, EffectTypes DEF Effects
<1> DEFINE old == Effects  new == Effects'  fee == OpenFee * Notional(p)
<1> HIDE DEF old, new
<1>8. SumOver(new, Opened \union {n}) = SumOver(old, Opened) + new[n] /\ new[n] \in Int
      /\ SumOver(old, Opened) \in Int
  <2>1. /\ IntsOn(old, Opened) /\ new[n] \in Int
        /\ \A i \in Opened : new[i] = old[i]
    BY <1>4, <1>7 DEF old, new
  <2>2. SumOver(new, Opened) = SumOver(old, Opened)
    BY <1>7, <2>1, SumSame
  <2>3. IntsOn(new, Opened \union {n})
    BY <2>1 DEF IntsOn
  <2>4. SumOver(new, Opened \union {n}) = SumOver(new, Opened) + new[n]
    BY <1>2, <1>7, <2>3, SumAdd
  <2>5. QED BY <1>7, <2>1, <2>2, <2>4, SumType
<1>9. wallet'.balance = wallet.balance - fee /\ wallet.balance \in Int
  <2> HIDE DEF fee
  <2>1. wallet' = ChargeFee(wallet, fee)
    BY <1>1 DEF fee
  <2>2. QED BY <2>1 DEF ChargeFee, TypeOK
<1>10. new[n] = -fee
  BY <1>1, <1>7 DEF NewWave, Charged, new
<1>11. wallet.balance = StartBalance + SumOver(old, Opened) /\ StartBalance \in Int
  BY <1>6, Parameters DEF BalanceInv, old
<1>12. fee \in Int
  <2>1. draft'.notional = Notional(p)
    BY <1>1 DEF NewWave
  <2>2. QED BY <1>1, <2>1, MoneyType
<1> HIDE DEF fee
<1>13. wallet'.balance = StartBalance + SumOver(new, Opened \union {n})
  BY <1>8, <1>9, <1>10, <1>11, <1>12
<1>14. QED BY <1>2, <1>13 DEF new

\* Once every wave that was opened has its row, the balance is the starting
\* balance plus the recorded results less one more close fee per row
\* (BalanceBehindRows), whatever was lost or refused on the way: close() takes
\* the close fee twice.
THEOREM BalanceSound == Spec => []BalanceBehindRows
<1>1. Init => BalanceInv
  <2> SUFFICES ASSUME Init PROVE BalanceInv
    OBVIOUS
  <2>1. Opened = {} /\ wallet.balance = StartBalance
    BY DEF Init, Opened
  <2>2. SumOver(Effects, {}) = 0
    BY SumEmpty
  <2>3. QED BY <2>1, <2>2, Parameters DEF BalanceInv
<1>2. TypeOK /\ TypeOK' /\ JournalInv /\ BalanceInv /\ [Next]_vars => BalanceInv'
  <2> SUFFICES ASSUME TypeOK, TypeOK', JournalInv, BalanceInv, [Next]_vars
               PROVE  BalanceInv'
    OBVIOUS
  <2> USE DEF memory, disk, ClosingSteps, LoggedSteps
  <2>1. /\ Opened \subseteq Ids /\ Live \subseteq Ids /\ Ids \subseteq Int /\ nextId \in Int
        /\ \A i \in Live : waves[i] \in Wave
        /\ \A i \in Opened : i < nextId
    <3>1. Opened \subseteq Ids
      BY EffectTypes
    <3>2. Live \subseteq Ids /\ \A i \in Live : waves[i] \in Wave
      BY DEF Live, TypeOK
    <3>3. Ids \subseteq Int /\ nextId \in Int /\ \A i \in Opened : i < nextId
      BY DEF TypeOK, Opened, Ids
    <3>4. QED BY <3>1, <3>2, <3>3
  <2>2. ASSUME NEW p \in Pairs, NEW x \in Prices, NEW s \in Sides, TickOpen(p, x, s)
        PROVE  BalanceInv'
    BY <2>2, BalanceOpens
  <2>3. CASE RecordOpen
    <3>1. /\ draft' = None /\ draft # None /\ nextId' = nextId /\ pc = "charged" /\ pc' = "manage"
          /\ DraftId' = DraftId /\ DraftId \in Ids /\ UNCHANGED <<tradeRows, wallet>>
          /\ waves' = [waves EXCEPT ![DraftId] = draft] /\ DOMAIN waves = Ids
      BY <2>3, Parameters DEF RecordOpen, TypeOK, DraftId, Ids
    <3>2. Live' = Live \union {DraftId} /\ waves'[DraftId] = draft
          /\ \A i \in Ids : i # DraftId => waves'[i] = waves[i]
      BY <3>1 DEF Live
    <3>3. ASSUME NEW i \in Opened PROVE Effect(i)' = Effect(i)
      <4>1. i \in Ids /\ ~ClosingOf(i) /\ ~ClosingOf(i)'
        BY <2>1, <3>1 DEF ClosingOf
      <4>2. CASE i = DraftId
        BY <3>1, <3>2, <4>1, <4>2 DEF Effect, Charged
      <4>3. CASE i # DraftId
        BY <3>1, <3>2, <4>1, <4>3 DEF Effect, Charged
      <4>4. QED BY <4>2, <4>3
    <3>4. NothingLost' => NothingLost
      BY <3>1, <3>2 DEF NothingLost, Opened
    <3>5. QED BY <3>1, <3>3, <3>4, BalanceStutters
  <2>4. ASSUME Live' = Live, UNCHANGED <<tradeRows, nextId>>, wallet'.balance = wallet.balance,
               (draft' # None) <=> (draft # None),
               draft # None => draft'.notional = draft.notional,
               \A i \in Live : waves'[i].notional = waves[i].notional,
               \A i \in Ids : /\ ClosingOf(i)' <=> ClosingOf(i)
                              /\ ClosingOf(i) => /\ (pc' = "feeCharged") <=> (pc = "feeCharged")
                                                 /\ waves'[i].live = waves[i].live
        PROVE  BalanceInv'
    <3>1. NothingLost' => NothingLost
      BY <2>4 DEF NothingLost, Opened, DraftId
    <3>2. ASSUME NEW i \in Opened PROVE Effect(i)' = Effect(i)
      <4>1. i \in Ids
        BY <2>1
      <4>2. draft # None => Charged(draft') = Charged(draft)
        BY <2>4 DEF Charged
      <4>3. i \in Live => Charged(waves'[i]) = Charged(waves[i])
        BY <2>4 DEF Charged
      <4>4. i \in Live => FeeTaken(waves'[i]) = FeeTaken(waves[i])
        BY <2>4, <4>3 DEF FeeTaken
      <4>5. i \in Live /\ ClosingOf(i) => Settled(waves'[i]) = Settled(waves[i])
        BY <2>4, <4>1 DEF Settled, Net, Gross
      <4>6. DraftId' = DraftId /\ (ClosingOf(i)' <=> ClosingOf(i))
        BY <2>4, <4>1 DEF DraftId
      <4>7. QED BY <2>4, <4>1, <4>2, <4>3, <4>4, <4>5, <4>6, Zenon DEF Effect
    <3>3. QED BY <2>4, <3>1, <3>2, BalanceStutters
  <2>5. ASSUME NEW i \in Ids, Visit(i), waves' = [waves EXCEPT ![i] = Surf(waves[i], tick[2])]
        PROVE  /\ Live' = Live /\ closing = None /\ draft = None /\ i \in Live /\ pc = "manage"
               /\ waves'[i] \in Wave /\ waves'[i].notional = waves[i].notional
               /\ \A j \in Ids : j # i => waves'[j] = waves[j]
    <3>1. /\ i \in Live /\ waves[i] \in Wave /\ tick[2] \in Prices /\ closing = None /\ draft = None
          /\ pc = "manage" /\ DOMAIN waves = Ids
      BY <2>5 DEF Visit, TypeOK, Live
    <3>2. Surf(waves[i], tick[2]) \in Wave
          /\ Surf(waves[i], tick[2]).notional = waves[i].notional
      BY <3>1, SurfType
    <3>3. waves'[i] = Surf(waves[i], tick[2]) /\ waves'[i] # None
          /\ \A j \in Ids : j # i => waves'[j] = waves[j]
      BY <2>5, <3>1, <3>2, Parameters
    <3>4. QED BY <3>1, <3>2, <3>3 DEF Live
  <2>6. ASSUME NEW i \in Ids, Ride(i) PROVE BalanceInv'
    <3>1. Visit(i) /\ waves' = [waves EXCEPT ![i] = Surf(waves[i], tick[2])]
      BY <2>6 DEF Ride
    <3>2. /\ pc' = pc /\ UNCHANGED <<tradeRows, nextId, wallet, draft, closing>>
      BY <2>6 DEF Ride
    <3>3. \A j \in Ids : ~ClosingOf(j) /\ ~ClosingOf(j)'
      BY <2>5, <3>1, <3>2 DEF ClosingOf
    <3>4. \A j \in Live : waves'[j].notional = waves[j].notional
      BY <2>1, <2>5, <3>1
    <3>5. QED BY <2>4, <2>5, <3>1, <3>2, <3>3, <3>4
  <2>7. ASSUME NEW i \in Ids, BeginClose(i) PROVE BalanceInv'
    <3> DEFINE w == waves'[i]
    <3>1. Visit(i) /\ waves' = [waves EXCEPT ![i] = Surf(waves[i], tick[2])]
      BY <2>7 DEF BeginClose
    <3>2. /\ pc' = "feeCharged" /\ UNCHANGED <<tradeRows, nextId, draft>> /\ closing'.id = i
      BY <2>7 DEF BeginClose
    <3>3. /\ i \in Live /\ draft = None /\ pc = "manage" /\ Live' = Live
          /\ w \in Wave /\ w.notional = waves[i].notional
          /\ \A j \in Ids : j # i => waves'[j] = waves[j]
      BY <2>5, <3>1
    <3>4. wallet' = ChargeFee(wallet, CloseFee * w.notional)
      <4>1. w = Surf(waves[i], tick[2])
        BY <3>1, <3>3 DEF Live, TypeOK
      <4>2. QED BY <2>7, <4>1 DEF BeginClose
    <3>5. tradeRows[i] = None
      BY <3>3 DEF JournalInv
    <3>6. /\ Effect(i) = Charged(w) /\ Effect(i)' = FeeTaken(w)
      <4>1. Effect(i) = Charged(waves[i])
        BY <3>3, <3>5 DEF Effect, ClosingOf
      <4>2. Effect(i)' = FeeTaken(waves'[i])
        BY <3>2, <3>3, <3>5 DEF Effect, ClosingOf
      <4>3. QED BY <3>3, <4>1, <4>2 DEF Charged
    <3>7. \A j \in Opened \ {i} : Effect(j)' = Effect(j)
      <4>1. ASSUME NEW j \in Opened \ {i} PROVE Effect(j)' = Effect(j)
        <5>1. j \in Ids /\ ~ClosingOf(j) /\ ~ClosingOf(j)'
          BY <2>1, <3>2, <3>3 DEF ClosingOf
        <5>2. QED BY <3>2, <3>3, <5>1 DEF Effect, Charged
      <4>2. QED BY <4>1
    <3>8. NothingLost' => NothingLost
      BY <3>2, <3>3 DEF NothingLost, Opened
    <3>9. i \in Opened
      BY <2>1, <3>3 DEF JournalInv, Fresh, Opened, Ids
    <3> HIDE DEF w
    <3>10. wallet'.balance = wallet.balance + Effect(i)' - Effect(i) /\ Effect(i)' \in Int
      <4> DEFINE fee == CloseFee * w.notional
      <4>1. Charged(w) \in Int /\ FeeTaken(w) = Charged(w) - fee /\ fee \in Int
        BY <3>3, AmountTypes
      <4>2. wallet'.balance = wallet.balance - fee /\ wallet.balance \in Int
        <5> HIDE DEF fee
        <5>1. wallet' = ChargeFee(wallet, fee)
          BY <3>4 DEF fee
        <5>2. QED BY <5>1 DEF ChargeFee, TypeOK
      <4> HIDE DEF fee
      <4>3. QED BY <3>6, <4>1, <4>2
    <3>11. QED BY <3>2, <3>7, <3>8, <3>9, <3>10, BalanceFollows
  <2>8. CASE CreditClose
    <3>0. PICK i \in Ids : i = closing.id
      BY <2>8 DEF CreditClose, TypeOK
    <3> DEFINE w == waves[i]  gain == Gross(w) - CloseFee * w.notional
    <3>1. /\ pc = "feeCharged" /\ pc' = "credited" /\ closing' = closing /\ i \in Live
          /\ UNCHANGED <<waves, tradeRows, nextId, draft>> /\ Live' = Live
          /\ wallet' = CreditPnl(wallet, gain) /\ draft = None /\ w \in Wave
      BY <2>8, <3>0 DEF CreditClose, TypeOK, Live
    <3>2. tradeRows[i] = None
      BY <3>1 DEF JournalInv
    <3>3. Effect(i) = FeeTaken(w) /\ Effect(i)' = Settled(w)
      BY <3>0, <3>1, <3>2 DEF Effect, ClosingOf
    <3>4. \A j \in Opened \ {i} : Effect(j)' = Effect(j)
      BY <3>0, <3>1 DEF Effect, ClosingOf, DraftId
    <3>5. NothingLost' => NothingLost
      BY <3>1 DEF NothingLost, Opened
    <3>6. i \in Opened
      BY <2>1, <3>1 DEF JournalInv, Fresh, Opened, Ids
    <3>7. wallet'.balance = wallet.balance + Effect(i)' - Effect(i) /\ Effect(i)' \in Int
      <4>1. FeeTaken(w) \in Int /\ Settled(w) = FeeTaken(w) + gain /\ gain \in Int
        BY <3>1, AmountTypes
      <4> HIDE DEF gain
      <4>2. wallet'.balance = wallet.balance + gain /\ wallet.balance \in Int
        BY <3>1 DEF CreditPnl, TypeOK
      <4> HIDE DEF w
      <4>3. QED BY <3>3, <4>1, <4>2
    <3>8. QED BY <3>1, <3>4, <3>5, <3>6, <3>7, BalanceFollows
  <2>9. CASE LogClose
    <3>1. /\ pc = "credited" /\ pc' \in {"closeLogged", "logged"} /\ closing' = closing
          /\ UNCHANGED <<waves, tradeRows, nextId, draft, wallet>> /\ Live' = Live
      BY <2>9 DEF LogClose, Live
    <3>2. QED BY <2>4, <3>1 DEF ClosingOf
  <2>10. CASE LogTrade
    <3>0. PICK i \in Ids : i = closing.id
      BY <2>10 DEF LogTrade, TypeOK
    <3>1. /\ pc = "closeLogged" /\ pc' = "logged" /\ closing' = closing /\ i \in Live
          /\ UNCHANGED <<waves, nextId, draft, wallet>> /\ Live' = Live
          /\ waves[i] \in Wave /\ draft = None /\ DOMAIN tradeRows = Ids
          /\ tradeRows' \in {tradeRows, [tradeRows EXCEPT ![i] = Recorded(waves[i])]}
      BY <2>10, <3>0 DEF LogTrade, TypeOK, Live
    <3>2. tradeRows[i] = None
      BY <3>1 DEF JournalInv
    <3>3. Effect(i)' = Effect(i)
      <4>1. Effect(i) = Settled(waves[i])
        BY <3>0, <3>1, <3>2 DEF Effect, ClosingOf
      <4>2. CASE tradeRows' = tradeRows
        BY <3>0, <3>1, <3>2, <4>1, <4>2 DEF Effect, ClosingOf
      <4>3. CASE tradeRows' = [tradeRows EXCEPT ![i] = Recorded(waves[i])]
        <5>1. tradeRows'[i] = Recorded(waves[i])
          BY <3>1, <4>3
        <5>2. tradeRows'[i] # None /\ tradeRows'[i].net = Net(waves[i])
              /\ tradeRows'[i].closeFee = CloseFee * waves[i].notional
          BY <3>1, <5>1, RecordedType
        <5>3. QED BY <4>1, <5>2 DEF Effect, Settled
      <4>4. QED BY <3>1, <4>2, <4>3
    <3>4. ASSUME NEW j \in Opened PROVE Effect(j)' = Effect(j)
      <4>1. CASE j = i
        BY <3>3, <4>1
      <4>2. CASE j # i
        <5>1. j \in Ids /\ tradeRows'[j] = tradeRows[j] /\ ~ClosingOf(j) /\ ~ClosingOf(j)'
          BY <2>1, <3>0, <3>1, <4>2 DEF ClosingOf
        <5>2. QED BY <3>1, <5>1 DEF Effect, DraftId
      <4>3. QED BY <4>1, <4>2
    <3>5. NothingLost' => NothingLost
      <4>1. \A j \in Opened : j # i => tradeRows'[j] = tradeRows[j]
        BY <2>1, <3>1
      <4>2. Opened' = Opened /\ DraftId' = DraftId
        BY <3>1 DEF Opened, DraftId
      <4>3. QED BY <3>1, <4>1, <4>2 DEF NothingLost
    <3>6. QED BY <3>1, <3>4, <3>5, BalanceStutters
  <2>11. CASE FinishClose
    <3>0. PICK i \in Ids : i = closing.id
      BY <2>11 DEF FinishClose, TypeOK
    <3>1. /\ pc = "logged" /\ pc' = "manage" /\ i \in Live /\ draft = None
          /\ UNCHANGED <<nextId, draft, wallet, tradeRows>>
          /\ waves' = [waves EXCEPT ![i] = None] /\ DOMAIN waves = Ids
      BY <2>11, <3>0 DEF FinishClose, Popped, TypeOK, Live
    <3>2. Live' = Live \ {i} /\ \A j \in Ids : j # i => waves'[j] = waves[j]
      BY <3>1 DEF Live
    <3>3. NothingLost' => NothingLost
      BY <3>1, <3>2 DEF NothingLost, Opened
    <3>4. ASSUME NothingLost', NEW j \in Opened PROVE Effect(j)' = Effect(j)
      <4>1. CASE j = i
        <5>1. tradeRows[j] # None
          BY <3>1, <3>2, <3>4, <4>1 DEF NothingLost, Opened
        <5>2. QED BY <3>1, <5>1 DEF Effect
      <4>2. CASE j # i
        <5>1. j \in Ids /\ ~ClosingOf(j) /\ ~ClosingOf(j)'
          BY <2>1, <3>0, <3>1, <4>2 DEF ClosingOf
        <5>2. QED BY <3>1, <3>2, <4>2, <5>1 DEF Effect, DraftId
      <4>3. QED BY <4>1, <4>2
    <3>5. QED BY <3>1, <3>3, <3>4, BalanceStutters
  <2>12. CASE Crash
    <3>1. /\ Live' = {} /\ draft' = None /\ UNCHANGED <<nextId, wallet, tradeRows>>
      BY <2>12 DEF Crash, Live
    <3>2. NothingLost' => \A i \in Opened : tradeRows[i] # None
      BY <3>1 DEF NothingLost, Opened
    <3>3. NothingLost' => NothingLost /\ \A i \in Opened : Effect(i)' = Effect(i)
      BY <3>1, <3>2 DEF NothingLost, Effect
    <3>4. QED BY <3>1, <3>3, BalanceStutters
  <2>13. CASE Elapse
    <3>1. /\ UNCHANGED <<pc, closing, nextId, wallet, tradeRows>> /\ draft' = Older(draft)
          /\ waves' = [i \in Ids |-> Older(waves[i])]
          /\ waves \in [Ids -> Wave \union {None}] /\ draft \in Wave \union {None}
      BY <2>13 DEF Elapse, TypeOK
    <3>2. ASSUME NEW w \in Wave
          PROVE  Older(w).notional = w.notional /\ Older(w).live = w.live
      <4>1. w # None
        BY Parameters
      <4>2. Older(w) = [w EXCEPT !.age = MinOf(w.age + 1, AgeCap)]
        BY <4>1, OlderType
      <4>3. QED BY <4>2 DEF Wave
    <3>3. Live' = Live /\ \A i \in Live : waves[i] \in Wave /\ waves'[i] = Older(waves[i])
      BY <2>1, <2>13, <3>1, LiveKept
    <3>4. \A i \in Live : /\ waves'[i].notional = waves[i].notional
                          /\ waves'[i].live = waves[i].live
      BY <3>2, <3>3
    <3>5. /\ (draft' # None) <=> (draft # None)
          /\ draft # None => draft'.notional = draft.notional
      BY <3>1, <3>2, OlderType
    <3>6. \A i \in Ids : (ClosingOf(i)' <=> ClosingOf(i)) /\ (ClosingOf(i) => i \in Live)
      BY <3>1 DEF ClosingOf, TypeOK
    <3>7. QED BY <2>4, <3>1, <3>3, <3>4, <3>5, <3>6
  <2>14. CASE \/ Housekeep \/ Midnight \/ RequestStop \/ ClearStop \/ Restart \/ UNCHANGED vars
              \/ \E p \in Pairs, x \in Prices : TickQuiet(p, x)
    <3>1. /\ UNCHANGED <<waves, draft, closing, nextId, wallet, tradeRows>>
          /\ \/ pc' = pc
             \/ pc \notin ClosingSteps /\ pc' \notin ClosingSteps
      BY <2>14 DEF Housekeep, Midnight, RequestStop, ClearStop, Restart, vars, TickQuiet,
                   TickArrives
    <3>2. Live' = Live /\ \A i \in Ids : (ClosingOf(i)' <=> ClosingOf(i))
      BY <3>1 DEF Live, ClosingOf
    <3>3. QED BY <2>4, <3>1, <3>2 DEF ClosingOf
  <2>15. QED
    BY <2>2, <2>3, <2>6, <2>7, <2>8, <2>9, <2>10, <2>11, <2>12, <2>13, <2>14
    DEF Next, Handle, TickOn
<1>3. TypeOK /\ BalanceInv => BalanceBehindRows
  <2> SUFFICES ASSUME TypeOK, BalanceInv, \A i \in Opened : tradeRows[i] # None
               PROVE  wallet.balance = StartBalance + SumOver(
                        [i \in Opened |-> tradeRows[i].net - tradeRows[i].closeFee], Opened)
    BY DEF BalanceBehindRows, Opened, SumOver
  <2> DEFINE settlement == [i \in Opened |-> tradeRows[i].net - tradeRows[i].closeFee]
             effects == Effects
  <2>1. NothingLost /\ \A i \in Opened : Effect(i) = settlement[i]
    BY DEF NothingLost, Effect
  <2>2. IsFiniteSet(Opened) /\ IntsOn(effects, Opened) /\ \A i \in Opened : settlement[i] = effects[i]
    BY <2>1, EffectTypes
  <2> HIDE DEF settlement, effects
  <2>3. SumOver(settlement, Opened) = SumOver(effects, Opened)
    BY <2>2, SumSame
  <2>4. QED BY <2>1, <2>3 DEF BalanceInv, settlement, effects
<1>4. QED BY <1>1, <1>2, <1>3, TypeCorrect, JournalKept, PTL DEF Spec
===============================================================================
