------------------------------ MODULE ExitScoring ------------------------------
(***************************************************************************)
(* The real-time exit engine (engine/exit_engine.py) and the part of       *)
(* on_tick that drives it (runtime.py, _evaluate_exit).  One ExitEngine is *)
(* shared by all pairs it is enabled for: its swings, its volume profile   *)
(* and its delta mix their prices.                                         *)
(*                                                                         *)
(* Scores are whole basis points: Full stands for 1.0.  A score the code   *)
(* takes from an attribute that TickContext does not have (ema9, vwap,     *)
(* rsi3, roc5, buy_volume, flow_delta_prev, atr_percentile, vol_1m,        *)
(* keltner_upper, order_blocks...) has the value of the getattr default,   *)
(* which adds nothing.  The classification of the tape reads two           *)
(* real-valued measures, trend strength and volatility percentile: their   *)
(* outcome is a choice.                                                    *)
(***************************************************************************)
EXTENDS Integers, Sequences, FiniteSetsExt

CONSTANTS
  Pairs,       \* traded pairs
  ExitPair,    \* settings.exit_pair, or None: all pairs
  Prices,      \* prices a tick may carry
  Spreads,     \* ask - bid of a tick
  Trades,      \* <<quantity, taker side>> of a tick; <<0, "none">> from the poller
  None,
  PriceCap, CvdCap, SwingCap, LevelCap, \* 200, 50, 10, 50 entries are kept
  EmaSlow,     \* prices needed to classify the tape (55)
  CvdWindow,   \* entries the momentum of the delta spans (10)
  FewLevels,   \* the profile is read with more levels than that (5)
  SweepHold, SweepGap, \* 30 s and 60 s, in clock quanta
  MaxTicks     \* bound: ticks processed

Full == 10000
Tick == [price : Prices, spread : Spreads, trade : Trades]
Wave == [side : {"BUY", "SELL"}, entry : Prices]
Regimes == {"momentum", "mean_revert", "chop"}
Closes == {"close_50", "close_100"}
Actions == Closes \union {"add", "hold"}

ASSUME ParameterAssumption ==
  /\ Prices \subseteq Nat \ {0} /\ Spreads \subseteq Nat
  /\ Trades \subseteq Nat \X {"BUY", "SELL", "none"}
  /\ {PriceCap, SwingCap, CvdCap, LevelCap, CvdWindow} \subseteq Nat \ {0}
  /\ {EmaSlow, FewLevels, SweepHold, SweepGap, MaxTicks} \subseteq Nat
  /\ None \notin Pairs \union Wave \union Int
           \union [pair : Pairs, regime : Regimes, conf : 0..Full, action : Actions]

VARIABLES
  prices,     \* how many prices the detector keeps
  cvd, flow,  \* _cvd and _cvd_history
  highs, lows,\* _swing_highs, _swing_lows: prices, the last one is current
  profile,    \* _volume_profile: price -> quantity
  sweep,      \* time since _last_liquidity_sweep, or None
  due,        \* per pair: the interval since _exit_last_eval is over
  position,   \* per pair: its first open wave, or None
  signal,     \* _last_signal
  ticks,      \* bound: ticks processed
  seen,       \* history: every price processed
  current     \* history: the price processed last, or None

detector == <<prices, cvd, flow>>
pipeline == <<highs, lows, profile, sweep>>
history == <<seen, current>>
vars == <<detector, pipeline, due, position, signal, ticks, history>>

-----------------------------------------------------------------------------
(* RegimeDetector.                                                          *)

Last(s) == s[Len(s)]
MinOf(a, b) == IF a <= b THEN a ELSE b
MaxOf(a, b) == IF a >= b THEN a ELSE b
Abs(x) == IF x >= 0 THEN x ELSE -x

\* append, then pop(0) beyond the cap.
Kept_Untrimmed(s, x, cap) == Append(s, x) \* seeded defect
Kept(s, x, cap) == IF Len(s) < cap THEN Append(s, x) ELSE Tail(Append(s, x))

Delta(trade) ==
  IF trade[2] = "BUY" THEN trade[1] ELSE IF trade[2] = "SELL" THEN -trade[1] ELSE 0

\* _cvd_momentum > 0.1
CvdRises(f) ==
  /\ Len(f) >= CvdWindow
  /\ LET first == f[Len(f) - CvdWindow + 1] IN 10 * (Last(f) - first) > Abs(first)

\* What update may return; trend strength and volatility percentile decide.
Classified(n, f) ==
  IF n < EmaSlow THEN {"chop"}
  ELSE {"mean_revert", "chop"} \union IF CvdRises(f) THEN {"momentum"} ELSE {}
-----------------------------------------------------------------------------
(* FactorPipeline.                                                          *)

\* min(1.0, score) of a score that is not negative.
Capped(score) == IF score \in 0..Full THEN score ELSE Full

\* _update_swings: a new extreme, or a price half a percent off the last one.
NextHighs_NoDecay(x) == \* seeded defect
  IF highs = <<>> \/ x > Last(highs) THEN Kept(highs, x, SwingCap) ELSE highs
NextHighs(x) ==
  IF highs = <<>> \/ x > Last(highs) \/ 1000 * x < 995 * Last(highs)
  THEN Kept(highs, x, SwingCap) ELSE highs
NextLows(x) ==
  IF lows = <<>> \/ x < Last(lows) \/ 1000 * x > 1005 * Last(lows)
  THEN Kept(lows, x, SwingCap) ELSE lows

Paired(hs, ls) == Len(hs) >= 2 /\ Len(ls) >= 2

Structural(x, hs, ls) ==
  IF Paired(hs, ls) /\ Last(ls) < x /\ x < Last(hs)
  THEN Capped((20 * Full * (Last(hs) - x)) \div Last(hs))
  ELSE 0

\* _update_volume_profile: beyond the cap the lowest price goes.
Added(x, quantity) ==
  [y \in DOMAIN profile \union {x} |->
     (IF y \in DOMAIN profile THEN profile[y] ELSE 0) + IF y = x THEN quantity ELSE 0]
Evicted_Highest(levels) == {y \in levels : \A z \in levels : z <= y} \* seeded defect
Evicted(levels) == {y \in levels : \A z \in levels : y <= z}
NextProfile(x, quantity) ==
  LET p == Added(x, quantity)
      over == IF Cardinality(DOMAIN p) > LevelCap THEN Evicted(DOMAIN p) ELSE {}
  IN [y \in DOMAIN p \ over |-> p[y]]

Volume(p) == MapThenSumSet(LAMBDA y : p[y], DOMAIN p)
Momentum(x, p) ==
  IF /\ Cardinality(DOMAIN p) > FewLevels /\ x \in DOMAIN p
     /\ Volume(p) > 0 /\ 10 * p[x] > 3 * Volume(p)
  THEN Capped((Full * p[x]) \div Volume(p)) ELSE 0

\* _detect_liquidity_sweep: the price is beyond the last swing by half their range.
Sweeps(x, hs, ls) ==
  /\ Paired(hs, ls)
  /\ LET range == Last(hs) - Last(ls)
     IN 2 * x > 2 * Last(hs) + range \/ 2 * x < 2 * Last(ls) - range
  /\ IF sweep = None THEN TRUE ELSE sweep > SweepGap

\* The mean of the scores that apply: the spread, 1.0 beyond 0.1 %, and a sweep, 0.9.
OrderFlow(t, swept) ==
  LET wide == 1000 * t.spread > t.price
  IN IF wide /\ swept THEN 9500 ELSE IF wide THEN Full ELSE IF swept THEN 9000 ELSE 0

\* 0.8 for a recent sweep, 0.5 for a spread beyond 0.05 %.
Liquidity(t, fresh) ==
  LET thin == 2000 * t.spread > t.price
  IN IF thin /\ fresh THEN 6500 ELSE IF fresh THEN 8000 ELSE IF thin THEN 5000 ELSE 0
Volatility == 0
-----------------------------------------------------------------------------
(* ExitConfidenceModel: weights in percent, bars in basis points.           *)

Weight(regime) ==
  IF regime = "momentum" THEN
    [structural |-> 35, momentum |-> 30, orderflow |-> 15, volatility |-> 10, liquidity |-> 10]
  ELSE IF regime = "mean_revert" THEN
    [structural |-> 25, momentum |-> 20, orderflow |-> 15, volatility |-> 25, liquidity |-> 15]
  ELSE
    [structural |-> 15, momentum |-> 15, orderflow |-> 30, volatility |-> 20, liquidity |-> 20]
Threshold(regime) ==
  IF regime = "momentum" THEN [close100 |-> 8500, close50 |-> 7000, add |-> 3000]
  ELSE IF regime = "mean_revert" THEN [close100 |-> 7500, close50 |-> 6000, add |-> 2500]
  ELSE [close100 |-> 9000, close50 |-> 7500, add |-> 2000]

Confidence(regime, s, m, o, v, l) ==
  LET w == Weight(regime)
  IN MinOf(Full, (w.structural * s + w.momentum * m + w.orderflow * o
                    + w.volatility * v + w.liquidity * l) \div 100)

\* _calculate_salvage has the sign of this number.  It takes a side other than
\* "long" for a short, and a wave's side is "BUY" or "SELL".
Salvage(x, w) == 2000 * (w.entry - x) - w.entry

\* decide: the bars go up for a losing exit and down for a winning one.
Bar(v, salvage) ==
  IF salvage < 0 THEN MinOf(9900, v + 1000)
  ELSE IF salvage > 0 THEN MaxOf(2000, v - 500) ELSE v
Decide(conf, regime, salvage) ==
  LET t == Threshold(regime)
  IN IF conf >= Bar(t.close100, salvage) THEN "close_100"
     ELSE IF conf >= Bar(t.close50, salvage) THEN "close_50"
     ELSE IF conf < Bar(t.add, salvage) THEN "add" ELSE "hold"
-----------------------------------------------------------------------------
Init ==
  /\ prices = 0 /\ cvd = 0 /\ flow = <<>>
  /\ highs = <<>> /\ lows = <<>> /\ profile = [y \in {} |-> 0] /\ sweep = None
  /\ due = [p \in Pairs |-> TRUE]
  /\ position = [p \in Pairs |-> None]
  /\ signal = None /\ ticks = 0 /\ seen = {} /\ current = None

\* ExitEngine.process on a tick of pair p.
Process(p, t) ==
  /\ ticks < MaxTicks /\ ticks' = ticks + 1
  /\ seen' = seen \union {t.price} /\ current' = t.price
  /\ prices' = MinOf(PriceCap, prices + 1)
  /\ cvd' = cvd + Delta(t.trade)
  /\ flow' = Kept(flow, cvd', CvdCap)
  /\ highs' = NextHighs(t.price) /\ lows' = NextLows(t.price)
  /\ profile' = NextProfile(t.price, t.trade[1])
  /\ LET swept == Sweeps(t.price, highs', lows')
         fresh == swept \/ IF sweep = None THEN FALSE ELSE sweep < SweepHold
     IN /\ sweep' = IF swept THEN 0 ELSE sweep
        /\ \E regime \in Classified(prices', flow') :
             LET conf == Confidence(regime, Structural(t.price, highs', lows'),
                           Momentum(t.price, profile'), OrderFlow(t, swept), Volatility,
                           Liquidity(t, fresh))
             IN signal' = [pair |-> p, regime |-> regime, conf |-> conf,
                  action |-> Decide(conf, regime, Salvage(t.price, position[p]))]

Watched(p) == ExitPair \in {None, p}

\* _evaluate_exit inside the interval: the engine is fed if the pair has a wave.
Feed(p, t) ==
  /\ Watched(p) /\ ~due[p] /\ position[p] # None
  /\ Process(p, t)
  /\ UNCHANGED <<due, position>>

\* _evaluate_exit once the interval is over.  An action other than a close is
\* recorded and nothing else.
Evaluate(p, t) ==
  /\ Watched(p) /\ due[p]
  /\ due' = [due EXCEPT ![p] = FALSE]
  /\ IF position[p] = None
     THEN UNCHANGED <<detector, pipeline, signal, ticks, history>>
     ELSE Process(p, t)
  /\ UNCHANGED position

\* The manager opens a wave on the pair, or closes its first one.
Open(p, w) ==
  /\ position[p] = None
  /\ position' = [position EXCEPT ![p] = w]
  /\ UNCHANGED <<detector, pipeline, due, signal, ticks, history>>
Close(p) ==
  /\ position[p] # None
  /\ position' = [position EXCEPT ![p] = None]
  /\ UNCHANGED <<detector, pipeline, due, signal, ticks, history>>

\* A clock quantum: longer than the interval, and SweepHold of them are 30 s.
Elapse ==
  /\ due' = [p \in Pairs |-> TRUE]
  /\ sweep' = IF sweep = None THEN None ELSE MinOf(sweep + 1, SweepGap + 1)
  /\ UNCHANGED <<detector, highs, lows, profile, position, signal, ticks, history>>

Next ==
  \/ \E p \in Pairs :
       \/ \E t \in Tick : Feed(p, t) \/ Evaluate(p, t)
       \/ \E w \in Wave : Open(p, w)
       \/ Close(p)
  \/ Elapse

Spec == Init /\ [][Next]_vars

-----------------------------------------------------------------------------
(* Properties.                                                              *)

\* The histories keep their types and caps, the two kinds of swings begin
\* together, and a signal is about a known pair.
TypeOK ==
  /\ prices \in 0..PriceCap /\ cvd \in Int
  /\ flow \in Seq(Int) /\ Len(flow) <= CvdCap
  /\ highs \in Seq(Prices) /\ Len(highs) <= SwingCap
  /\ lows \in Seq(Prices) /\ Len(lows) <= SwingCap
  /\ (highs = <<>>) <=> (current = None)
  /\ (lows = <<>>) <=> (current = None)
  /\ DOMAIN profile \subseteq Prices /\ \A y \in DOMAIN profile : profile[y] \in Nat
  /\ sweep \in Nat \union {None}
  /\ due \in [Pairs -> BOOLEAN]
  /\ position \in [Pairs -> Wave \union {None}]
  /\ signal \in [pair : Pairs, regime : Regimes, conf : 0..Full, action : Actions]
                \union {None}
  /\ ticks \in 0..MaxTicks /\ seen \subseteq Prices /\ current \in Prices \union {None}

\* test_exit_engine.py and _detect_liquidity_sweep describe a price that spikes
\* beyond the last swing.  Swings follow the price before the detection looks:
\* on every history the last swings enclose it, the high by less than half a
\* percent, and no sweep is ever seen.
NoSweepSeen ==
  /\ sweep = None
  /\ current # None =>
       /\ Last(lows) <= current /\ current <= Last(highs)
       /\ 995 * Last(highs) <= 1000 * current

\* _evaluate_exit closes on close_50 and close_100.  With the attributes the
\* context really has, no sequence of ticks, positions and classifications makes
\* the engine ask for either: the exit engine never exits.
NeverAsksToClose == signal # None => signal.action \notin Closes

\* _calculate_salvage describes the profit of the position, after fees, and decide
\* realizes profitable exits earlier than losing ones.  Of the long side the code
\* does the contrary: a BUY wave whose gain pays its fee is judged by the raised
\* bars, and one that has lost as much by the lowered.
LongsMeetWrongBars ==
  [][signal' # signal /\ position[signal'.pair].side = "BUY" =>
       LET entry == position[signal'.pair].entry
           gross == 2000 * (current' - entry)
       IN /\ gross > entry => signal'.action = Decide(signal'.conf, signal'.regime, -1)
          /\ -gross > entry => signal'.action = Decide(signal'.conf, signal'.regime, 1)]_vars

\* _update_volume_profile says it drops the oldest level.  What it keeps are the
\* highest prices ever processed, so in a falling market the current level is
\* dropped as soon as it is added.
ProfileKeepsHighest ==
  /\ Cardinality(DOMAIN profile) = MinOf(LevelCap, Cardinality(seen))
  /\ \A y \in DOMAIN profile, z \in seen \ DOMAIN profile : z < y
===============================================================================
