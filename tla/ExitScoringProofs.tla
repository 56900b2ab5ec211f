--------------------------- MODULE ExitScoringProofs ---------------------------
(***************************************************************************)
(* The exit engine's histories keep their bounds, the last swings enclose  *)
(* the price, and the engine asks for no close, for every pair, price,     *)
(* spread, quantity and length of history.                                 *)
(***************************************************************************)
EXTENDS ExitScoring, FoldLemmas, TLAPS

LEMMA Parameters ==
  /\ Prices \subseteq Nat \ {0} /\ Spreads \subseteq Nat
  /\ Trades \subseteq Nat \X {"BUY", "SELL", "none"}
  /\ PriceCap \in Nat \ {0} /\ SwingCap \in Nat \ {0} /\ CvdCap \in Nat \ {0}
  /\ MaxTicks \in Nat /\ SweepGap \in Nat
  /\ None \notin Wave /\ None \notin Prices /\ None \notin Nat
<1>1. /\ Prices \subseteq Nat \ {0} /\ Spreads \subseteq Nat
      /\ Trades \subseteq Nat \X {"BUY", "SELL", "none"}
  BY ParameterAssumption
<1>2. /\ PriceCap \in Nat \ {0} /\ SwingCap \in Nat \ {0} /\ CvdCap \in Nat \ {0}
      /\ MaxTicks \in Nat /\ SweepGap \in Nat
  BY ParameterAssumption
<1>3. None \notin Wave /\ None \notin Int
  BY ParameterAssumption
<1>4. \A x \in Prices : x \in Int
  BY <1>1
<1>5. None \notin Prices /\ None \notin Nat
  BY <1>3, <1>4
<1>6. QED BY <1>1, <1>2, <1>3, <1>5

\* A history that is appended to keeps its type and its cap and ends in the new entry.
LEMMA KeptFacts ==
  ASSUME NEW S, NEW s \in Seq(S), NEW x \in S, NEW cap \in Nat \ {0}, Len(s) <= cap
  PROVE  /\ Kept(s, x, cap) \in Seq(S) /\ Len(Kept(s, x, cap)) <= cap
         /\ Kept(s, x, cap) # <<>> /\ Last(Kept(s, x, cap)) = x
<1> DEFINE a == Append(s, x)
<1>1. a \in Seq(S) /\ Len(a) = Len(s) + 1 /\ a[Len(a)] = x
  OBVIOUS
<1>2. CASE Len(s) < cap
  BY <1>1, <1>2 DEF Kept, Last
<1>3. CASE ~(Len(s) < cap)
  <2>1. Len(s) = cap /\ Len(a) >= 2
    BY <1>1, <1>3
  <2>2. Tail(a) \in Seq(S) /\ Len(Tail(a)) = Len(a) - 1
    BY <1>1, <2>1
  <2>3. Tail(a)[Len(Tail(a))] = a[Len(a)]
    BY <1>1, <2>1, <2>2
  <2>4. Kept(s, x, cap) = Tail(a)
    BY <1>3 DEF Kept
  <2>5. Tail(a) # <<>>
    BY <2>1, <2>2
  <2>6. QED BY <1>1, <2>1, <2>2, <2>3, <2>4, <2>5 DEF Last
<1>4. QED BY <1>2, <1>3

\* A swing history that is not empty ends in a price.
LEMMA NewestSwing ==
  ASSUME NEW s \in Seq(Prices), s # <<>>
  PROVE  Last(s) \in Prices
  BY DEF Last

LEMMA HighsFacts ==
  ASSUME TypeOK, NEW x \in Prices
  PROVE  /\ NextHighs(x) \in Seq(Prices) /\ Len(NextHighs(x)) <= SwingCap
         /\ NextHighs(x) # <<>>
         /\ x <= Last(NextHighs(x)) /\ 995 * Last(NextHighs(x)) <= 1000 * x
<1>1. x \in Nat
  BY Parameters
<1>2. CASE highs = <<>> \/ x > Last(highs) \/ 1000 * x < 995 * Last(highs)
  <2>1. NextHighs(x) = Kept(highs, x, SwingCap)
    BY <1>2 DEF NextHighs
  <2>2. highs \in Seq(Prices) /\ Len(highs) <= SwingCap /\ SwingCap \in Nat \ {0}
    BY Parameters DEF TypeOK
  <2>3. /\ Kept(highs, x, SwingCap) \in Seq(Prices)
        /\ Len(Kept(highs, x, SwingCap)) <= SwingCap
        /\ Kept(highs, x, SwingCap) # <<>> /\ Last(Kept(highs, x, SwingCap)) = x
    BY <2>2, KeptFacts
  <2>4. QED BY <1>1, <2>1, <2>3
<1>3. CASE ~(highs = <<>> \/ x > Last(highs) \/ 1000 * x < 995 * Last(highs))
  <2>1. NextHighs(x) = highs
    BY <1>3 DEF NextHighs
  <2>2. highs \in Seq(Prices) /\ highs # <<>> /\ Len(highs) <= SwingCap
    BY <1>3 DEF TypeOK
  <2>3. Last(highs) \in Nat
    BY <2>2, NewestSwing, Parameters
  <2>4. QED BY <1>1, <1>3, <2>1, <2>2, <2>3
<1>4. QED BY <1>2, <1>3

LEMMA LowsFacts ==
  ASSUME TypeOK, NEW x \in Prices
  PROVE  /\ NextLows(x) \in Seq(Prices) /\ Len(NextLows(x)) <= SwingCap
         /\ NextLows(x) # <<>> /\ Last(NextLows(x)) <= x
<1>1. x \in Nat
  BY Parameters
<1>2. CASE lows = <<>> \/ x < Last(lows) \/ 1000 * x > 1005 * Last(lows)
  <2>1. NextLows(x) = Kept(lows, x, SwingCap)
    BY <1>2 DEF NextLows
  <2>2. lows \in Seq(Prices) /\ Len(lows) <= SwingCap /\ SwingCap \in Nat \ {0}
    BY Parameters DEF TypeOK
  <2>3. /\ Kept(lows, x, SwingCap) \in Seq(Prices)
        /\ Len(Kept(lows, x, SwingCap)) <= SwingCap
        /\ Kept(lows, x, SwingCap) # <<>> /\ Last(Kept(lows, x, SwingCap)) = x
    BY <2>2, KeptFacts
  <2>4. QED BY <1>1, <2>1, <2>3
<1>3. CASE ~(lows = <<>> \/ x < Last(lows) \/ 1000 * x > 1005 * Last(lows))
  <2>1. NextLows(x) = lows
    BY <1>3 DEF NextLows
  <2>2. lows \in Seq(Prices) /\ lows # <<>> /\ Len(lows) <= SwingCap
    BY <1>3 DEF TypeOK
  <2>3. Last(lows) \in Nat
    BY <2>2, NewestSwing, Parameters
  <2>4. QED BY <1>1, <1>3, <2>1, <2>2, <2>3
<1>4. QED BY <1>2, <1>3

\* What the structural factor can reach, what a spread alone adds to the liquidity
\* factor, and the lowest bar for a close: that of close_50 on a winning exit.
Tenth == 1000
SpreadScores == {0, 5000}
LowestBar(regime) ==
  IF regime = "momentum" THEN 6500 ELSE IF regime = "mean_revert" THEN 5500 ELSE 7000

\* A fraction of at most k has a quotient of at most k.
LEMMA QuotientBound ==
  ASSUME NEW a \in Nat, NEW h \in Nat \ {0}, NEW k \in Nat, a <= k * h
  PROVE  a \div h \in 0..k
<1>1. a \div h \in Int /\ h * (a \div h) <= a /\ a < h * (a \div h) + h
  OBVIOUS
<1>2. a \div h >= 0
  BY <1>1
<1>3. a \div h <= k
  <2>1. SUFFICES ASSUME a \div h >= k + 1 PROVE FALSE
    BY <1>1
  <2>2. h * (a \div h) >= h * (k + 1)
    BY <1>1, <2>1
  <2>3. h * (k + 1) = k * h + h
    OBVIOUS
  <2>4. QED BY <1>1, <2>2, <2>3
<1>4. QED BY <1>1, <1>2, <1>3

\* The rejection from a high that is at most half a percent above the price
\* scores at most a tenth.
LEMMA StructuralBound ==
  ASSUME NEW x \in Prices, NEW hs, NEW ls, Last(hs) \in Prices,
         995 * Last(hs) <= 1000 * x, x <= Last(hs)
  PROVE  Structural(x, hs, ls) \in 0..Tenth
<1> DEFINE h == Last(hs)  a == 20 * Full * (h - x)
<1>1. h \in Nat \ {0} /\ x \in Nat
  <2>1. \A y \in Prices : y \in Nat \ {0}
    BY Parameters
  <2>2. QED BY <2>1
<1>2. a \in Nat /\ a <= 1000 * h
  BY <1>1 DEF Full
<1> HIDE DEF h, a
<1>3. a \div h \in 0..1000
  BY <1>1, <1>2, QuotientBound
<1>4. Capped(a \div h) \in 0..1000
  <2> DEFINE q == a \div h
  <2>1. q \in 0..1000
    BY <1>3
  <2> HIDE DEF q
  <2>2. Capped(q) \in 0..1000
    BY <2>1 DEF Capped, Full
  <2>3. QED BY <2>2 DEF q
<1>5. QED BY <1>4 DEF Structural, Tenth, h, a

LEMMA MomentumBound ==
  ASSUME NEW x, NEW p
  PROVE  Momentum(x, p) \in 0..Full
<1> DEFINE score == Capped((Full * p[x]) \div Volume(p))
<1>1. \A n : Capped(n) \in 0..Full
  BY DEF Capped, Full
<1>2. score \in 0..Full
  BY <1>1, Zenon
<1>3. Momentum(x, p) = score \/ Momentum(x, p) = 0
  BY Zenon DEF Momentum
<1>4. 0 \in 0..Full
  BY DEF Full
<1>5. QED BY <1>2, <1>3, <1>4, Zenon

\* No regime's confidence reaches its lowest bar for a close.
LEMMA ConfidenceBound ==
  ASSUME NEW regime \in Regimes, NEW s \in 0..Tenth, NEW m \in 0..Full,
         NEW o \in {0, Full}, NEW l \in SpreadScores
  PROVE  /\ Confidence(regime, s, m, o, Volatility, l) \in 0..Full
         /\ Confidence(regime, s, m, o, Volatility, l) < LowestBar(regime)
<1> DEFINE w == Weight(regime)
           total == w.structural * s + w.momentum * m + w.orderflow * o
                      + w.volatility * Volatility + w.liquidity * l
<1>1. s \in 0..1000 /\ m \in 0..10000 /\ o \in {0, 10000} /\ l \in {0, 5000}
  BY DEF Tenth, Full, SpreadScores
<1>2. Confidence(regime, s, m, o, Volatility, l) = MinOf(Full, total \div 100)
  BY DEF Confidence
<1>3. CASE regime = "momentum"
  <2>1. total = 35 * s + 30 * m + 15 * o + 10 * l
    BY <1>1, <1>3, SMT DEF Weight, Volatility
  <2> HIDE DEF total
  <2>2. total \in Int /\ 0 <= total /\ total <= 535000
    BY <1>1, <2>1, SMT
  <2>3. QED BY <1>2, <1>3, <2>2, SMT DEF MinOf, Full, LowestBar
<1>4. CASE regime = "mean_revert"
  <2>1. total = 25 * s + 20 * m + 15 * o + 15 * l
    BY <1>1, <1>4, SMT DEF Weight, Volatility
  <2> HIDE DEF total
  <2>2. total \in Int /\ 0 <= total /\ total <= 450000
    BY <1>1, <2>1, SMT
  <2>3. QED BY <1>2, <1>4, <2>2, SMT DEF MinOf, Full, LowestBar
<1>5. CASE regime = "chop"
  <2>1. total = 15 * s + 15 * m + 30 * o + 20 * l
    BY <1>1, <1>5, SMT DEF Weight, Volatility
  <2> HIDE DEF total
  <2>2. total \in Int /\ 0 <= total /\ total <= 565000
    BY <1>1, <2>1, SMT
  <2>3. QED BY <1>2, <1>5, <2>2, SMT DEF MinOf, Full, LowestBar
<1>6. QED BY <1>3, <1>4, <1>5 DEF Regimes

LEMMA NoClose ==
  ASSUME NEW regime \in Regimes, NEW conf \in 0..Full, NEW salvage \in Int,
         conf < LowestBar(regime)
  PROVE  Decide(conf, regime, salvage) \in Actions \ Closes
<1>1. CASE regime = "momentum"
  BY <1>1 DEF Decide, Threshold, Bar, LowestBar, MinOf, MaxOf, Full, Actions, Closes
<1>2. CASE regime = "mean_revert"
  BY <1>2 DEF Decide, Threshold, Bar, LowestBar, MinOf, MaxOf, Full, Actions, Closes
<1>3. CASE regime = "chop"
  BY <1>3 DEF Decide, Threshold, Bar, LowestBar, MinOf, MaxOf, Full, Actions, Closes
<1>4. QED BY <1>1, <1>2, <1>3 DEF Regimes
-----------------------------------------------------------------------------
\* The inductive invariant: the confidence depends on the swings, and the
\* detection of sweeps on them too.
ScoringInv == TypeOK /\ NoSweepSeen /\ NeverAsksToClose

LEMMA ProfileType ==
  ASSUME TypeOK, NEW x \in Prices, NEW quantity \in Nat
  PROVE  /\ DOMAIN NextProfile(x, quantity) \subseteq Prices
         /\ \A y \in DOMAIN NextProfile(x, quantity) : NextProfile(x, quantity)[y] \in Nat
<1> DEFINE p == Added(x, quantity)
           over == IF Cardinality(DOMAIN p) > LevelCap THEN Evicted(DOMAIN p) ELSE {}
<1>1. DOMAIN p \subseteq Prices /\ \A y \in DOMAIN p : p[y] \in Nat
  BY DEF Added, TypeOK
<1>2. NextProfile(x, quantity) = [y \in DOMAIN p \ over |-> p[y]]
  BY DEF NextProfile
<1> HIDE DEF p, over
<1>3. QED BY <1>1, <1>2

\* A processed tick keeps the invariant.
LEMMA ProcessStep ==
  ASSUME ScoringInv, NEW p \in Pairs, NEW t \in Tick, Process(p, t), position[p] # None
  PROVE  /\ prices' \in 0..PriceCap /\ cvd' \in Int
         /\ flow' \in Seq(Int) /\ Len(flow') <= CvdCap
         /\ highs' \in Seq(Prices) /\ Len(highs') <= SwingCap /\ highs' # <<>>
         /\ lows' \in Seq(Prices) /\ Len(lows') <= SwingCap /\ lows' # <<>>
         /\ DOMAIN profile' \subseteq Prices /\ \A y \in DOMAIN profile' : profile'[y] \in Nat
         /\ ticks' \in 0..MaxTicks /\ seen' \subseteq Prices /\ current' \in Prices
         /\ signal' \in [pair : Pairs, regime : Regimes, conf : 0..Full, action : Actions]
         /\ NoSweepSeen' /\ NeverAsksToClose'
<1>1. /\ t.price \in Prices /\ t.price \in Nat \ {0} /\ t.spread \in Nat
      /\ t.trade[1] \in Nat /\ t.trade[2] \in {"BUY", "SELL", "none"}
  <2>1. t.price \in Prices /\ t.spread \in Spreads /\ t.trade \in Trades
    BY DEF Tick
  <2>2. QED BY <2>1, Parameters
<1>2. prices' \in 0..PriceCap /\ ticks' \in 0..MaxTicks
  <2>1. prices' = MinOf(PriceCap, prices + 1) /\ ticks' = ticks + 1 /\ ticks < MaxTicks
    BY DEF Process
  <2>2. prices \in 0..PriceCap /\ ticks \in 0..MaxTicks
    BY DEF ScoringInv, TypeOK
  <2>3. QED BY <2>1, <2>2, Parameters DEF MinOf
<1>3. seen' \subseteq Prices /\ current' \in Prices /\ current' = t.price
  BY <1>1 DEF Process, ScoringInv, TypeOK
<1>4. cvd' \in Int /\ flow' \in Seq(Int) /\ Len(flow') <= CvdCap
  <2>1. cvd' \in Int
    <3>1. cvd' = cvd + Delta(t.trade) /\ cvd \in Int
      BY DEF Process, ScoringInv, TypeOK
    <3>2. Delta(t.trade) \in Int
      BY <1>1 DEF Delta
    <3>3. QED BY <3>1, <3>2
  <2>2. flow' = Kept(flow, cvd', CvdCap)
    BY DEF Process
  <2>3. QED BY <2>1, <2>2, KeptFacts, Parameters DEF ScoringInv, TypeOK
<1>5. /\ highs' \in Seq(Prices) /\ Len(highs') <= SwingCap /\ highs' # <<>>
      /\ t.price <= Last(highs') /\ 995 * Last(highs') <= 1000 * t.price
  <2>1. highs' = NextHighs(t.price) /\ TypeOK
    BY DEF Process, ScoringInv
  <2>2. QED BY <1>1, <2>1, HighsFacts
<1>6. /\ lows' \in Seq(Prices) /\ Len(lows') <= SwingCap /\ lows' # <<>>
      /\ Last(lows') <= t.price
  <2>1. lows' = NextLows(t.price) /\ TypeOK
    BY DEF Process, ScoringInv
  <2>2. QED BY <1>1, <2>1, LowsFacts
<1>7. DOMAIN profile' \subseteq Prices /\ \A y \in DOMAIN profile' : profile'[y] \in Nat
  <2>1. profile' = NextProfile(t.price, t.trade[1]) /\ TypeOK
    BY DEF Process, ScoringInv
  <2>2. QED BY <1>1, <2>1, ProfileType
<1>8. Last(highs') \in Nat \ {0} /\ Last(lows') \in Nat \ {0} /\ Last(highs') \in Prices
  <2>1. Last(highs') \in Prices
    BY <1>5, NewestSwing
  <2>2. Last(lows') \in Prices
    BY <1>6, NewestSwing
  <2>3. QED BY <2>1, <2>2, Parameters
<1>9. ~Sweeps(t.price, highs', lows')
  <2> DEFINE h == Last(highs')  l == Last(lows')
  <2>1. ~(2 * t.price > 2 * h + (h - l)) /\ ~(2 * t.price < 2 * l - (h - l))
    <3>1. /\ h \in Nat /\ l \in Nat /\ t.price \in Nat
          /\ t.price <= h /\ l <= t.price
      BY <1>1, <1>5, <1>6, <1>8
    <3> HIDE DEF h, l
    <3>2. QED BY <3>1
  <2>2. QED BY <2>1 DEF Sweeps
<1>10. sweep = None
  BY DEF ScoringInv, NoSweepSeen
<1>11. NoSweepSeen'
  <2>1. sweep' = None
    BY <1>9, <1>10 DEF Process
  <2>2. QED BY <2>1, <1>3, <1>5, <1>6 DEF NoSweepSeen
<1> DEFINE swept == Sweeps(t.price, highs', lows')
           fresh == swept \/ IF sweep = None THEN FALSE ELSE sweep < SweepHold
           s == Structural(t.price, highs', lows')
           m == Momentum(t.price, profile')
           o == OrderFlow(t, swept)
           l == Liquidity(t, fresh)
           salvage == Salvage(t.price, position[p])
<1>12. PICK regime \in Classified(prices', flow') :
         signal' = [pair |-> p, regime |-> regime,
                    conf |-> Confidence(regime, s, m, o, Volatility, l),
                    action |-> Decide(Confidence(regime, s, m, o, Volatility, l),
                                 regime, salvage)]
  BY DEF Process
<1> DEFINE conf == Confidence(regime, s, m, o, Volatility, l)
<1>13. regime \in Regimes
  BY <1>12 DEF Classified, Regimes
<1>14. s \in 0..Tenth /\ m \in 0..Full
  <2>1. s \in 0..Tenth
    <3>1. PICK hs, ls : hs = highs' /\ ls = lows'
      OBVIOUS
    <3>2. Structural(t.price, hs, ls) \in 0..Tenth
      BY <1>1, <1>5, <1>8, <3>1, StructuralBound
    <3>3. QED BY <3>1, <3>2
  <2>2. QED BY <2>1, MomentumBound
<1>15. o \in {0, Full} /\ l \in SpreadScores
  BY <1>9, <1>10 DEF OrderFlow, Liquidity, SpreadScores
<1>16. conf \in 0..Full /\ conf < LowestBar(regime)
  <2> HIDE DEF s, m, o, l
  <2>1. QED BY <1>13, <1>14, <1>15, ConfidenceBound, Zenon
<1>17. salvage \in Int
  <2>1. position[p] \in Wave
    BY DEF ScoringInv, TypeOK
  <2>2. position[p].entry \in Nat
    BY <2>1, Parameters DEF Wave
  <2>3. QED BY <1>1, <2>2 DEF Salvage
<1>18. signal' = [pair |-> p, regime |-> regime, conf |-> conf,
                  action |-> Decide(conf, regime, salvage)]
  BY <1>12
<1> HIDE DEF conf, salvage
<1>19. Decide(conf, regime, salvage) \in Actions \ Closes
  BY <1>13, <1>16, <1>17, NoClose
<1>20. /\ signal' \in [pair : Pairs, regime : Regimes, conf : 0..Full, action : Actions]
       /\ NeverAsksToClose'
  BY <1>13, <1>16, <1>18, <1>19 DEF NeverAsksToClose
<1>21. QED
  BY <1>2, <1>3, <1>4, <1>5, <1>6, <1>7, <1>11, <1>20

LEMMA Fed ==
  ASSUME ScoringInv, NEW p \in Pairs, NEW t \in Tick, Process(p, t), position[p] # None,
         due' \in [Pairs -> BOOLEAN], position' = position
  PROVE  ScoringInv'
<1>1. position' \in [Pairs -> Wave \union {None}]
  BY DEF ScoringInv, TypeOK
<1>2. sweep' \in Nat \union {None}
  BY ProcessStep DEF NoSweepSeen
<1>3. TypeOK'
  BY <1>1, <1>2, ProcessStep, Parameters DEF TypeOK
<1>4. QED BY <1>3, ProcessStep DEF ScoringInv

\* A step of the runtime that feeds the engine nothing keeps it too.
LEMMA Unfed ==
  ASSUME ScoringInv, UNCHANGED <<detector, pipeline, signal, ticks, history>>,
         due' \in [Pairs -> BOOLEAN], position' \in [Pairs -> Wave \union {None}]
  PROVE  ScoringInv'
<1>1. TypeOK'
  BY DEF ScoringInv, TypeOK, detector, pipeline, history
<1>2. NoSweepSeen' /\ NeverAsksToClose'
  BY DEF ScoringInv, NoSweepSeen, NeverAsksToClose, pipeline, history
<1>3. QED BY <1>1, <1>2 DEF ScoringInv

LEMMA ScoringStep == ScoringInv /\ [Next]_vars => ScoringInv'
<1> SUFFICES ASSUME ScoringInv, [Next]_vars PROVE ScoringInv'
  OBVIOUS
<1> USE Parameters
<1>1. ASSUME NEW p \in Pairs, NEW t \in Tick, Feed(p, t)
      PROVE  ScoringInv'
  <2>1. Process(p, t) /\ position[p] # None /\ UNCHANGED <<due, position>>
    BY <1>1 DEF Feed
  <2>2. due' \in [Pairs -> BOOLEAN]
    BY <2>1 DEF ScoringInv, TypeOK
  <2>3. QED BY <2>1, <2>2, Fed
<1>2. ASSUME NEW p \in Pairs, NEW t \in Tick, Evaluate(p, t)
      PROVE  ScoringInv'
  <2>1. due' \in [Pairs -> BOOLEAN] /\ position' = position
    BY <1>2 DEF Evaluate, ScoringInv, TypeOK
  <2>2. CASE position[p] = None
    <3>1. UNCHANGED <<detector, pipeline, signal, ticks, history>>
      BY <1>2, <2>2 DEF Evaluate
    <3>2. position' \in [Pairs -> Wave \union {None}]
      BY <2>1 DEF ScoringInv, TypeOK
    <3>3. QED BY <2>1, <3>1, <3>2, Unfed
  <2>3. CASE position[p] # None
    <3>1. Process(p, t)
      BY <1>2, <2>3 DEF Evaluate
    <3>2. QED BY <2>1, <2>3, <3>1, Fed
  <2>4. QED BY <2>2, <2>3
<1>3. ASSUME NEW p \in Pairs, \/ \E w \in Wave : Open(p, w)
                              \/ Close(p)
      PROVE  ScoringInv'
  <2>1. position' \in [Pairs -> Wave \union {None}]
    BY <1>3 DEF Open, Close, ScoringInv, TypeOK
  <2>2. /\ due' \in [Pairs -> BOOLEAN]
        /\ UNCHANGED <<detector, pipeline, signal, ticks, history>>
    BY <1>3 DEF Open, Close, ScoringInv, TypeOK
  <2>3. QED BY <2>1, <2>2, Unfed
<1>4. CASE Elapse
  BY <1>4 DEF Elapse, ScoringInv, TypeOK, NoSweepSeen, NeverAsksToClose, detector, history
<1>5. CASE UNCHANGED vars
  BY <1>5 DEF vars, detector, pipeline, history, ScoringInv, TypeOK, NoSweepSeen,
    NeverAsksToClose
<1>6. QED BY <1>1, <1>2, <1>3, <1>4, <1>5 DEF Next

LEMMA ScoringInit == Init => ScoringInv
  BY Parameters DEF Init, ScoringInv, TypeOK, NoSweepSeen, NeverAsksToClose

LEMMA ScoringInvariant == Spec => []ScoringInv
<1>1. QED BY ScoringInit, ScoringStep, PTL DEF Spec

\* The exit engine's histories stay within their caps, for every input.
THEOREM ScoringTypeCorrect == Spec => []TypeOK
<1>1. ScoringInv => TypeOK
  BY DEF ScoringInv
<1>2. QED BY <1>1, ScoringInvariant, PTL

\* The last swings enclose the price that was processed last, so the detection
\* of sweeps that runs after their update never fires.
THEOREM SweepNeverSeen == Spec => []NoSweepSeen
<1>1. ScoringInv => NoSweepSeen
  BY DEF ScoringInv
<1>2. QED BY <1>1, ScoringInvariant, PTL

\* Whatever the ticks, the positions and the classification of the tape, the exit
\* engine asks for no close.
THEOREM ExitNeverAsked == Spec => []NeverAsksToClose
<1>1. ScoringInv => NeverAsksToClose
  BY DEF ScoringInv
<1>2. QED BY <1>1, ScoringInvariant, PTL
-----------------------------------------------------------------------------
(* The volume profile.                                                      *)

ProfileInv ==
  /\ IsFiniteSet(seen) /\ DOMAIN profile \subseteq seen
  /\ ProfileKeepsHighest

\* A finite set of prices loses exactly its lowest element.
LEMMA EvictedIsLowest ==
  ASSUME NEW L, L \subseteq Nat, L # {}
  PROVE  \E m \in L : Evicted(L) = {m} /\ \A y \in L : m <= y
<1>1. PICK m \in L : \A y \in L : m <= y
  BY LeastNatural
<1>2. \A y \in Evicted(L) : y = m
  BY <1>1 DEF Evicted
<1>3. m \in Evicted(L)
  BY <1>1 DEF Evicted
<1>4. QED BY <1>1, <1>2, <1>3

\* A processed price keeps the highest ones, whether the profile has room for it,
\* knows it, or lets go of its lowest level for it.
LEMMA ProfileStep ==
  ASSUME TypeOK, ProfileInv, NEW x \in Prices, NEW quantity,
         profile' = NextProfile(x, quantity), seen' = seen \union {x}
  PROVE  ProfileInv'
<1> DEFINE D == DOMAIN profile  L == D \union {x}
           over == IF Cardinality(L) > LevelCap THEN Evicted(L) ELSE {}
<1>1. DOMAIN profile' = L \ over
  <2>1. DOMAIN Added(x, quantity) = L
    BY DEF Added
  <2>2. QED BY <2>1 DEF NextProfile
<1>2. /\ D \subseteq seen /\ IsFiniteSet(seen) /\ seen \subseteq Nat /\ x \in Nat
      /\ L \subseteq seen' /\ L \subseteq Nat /\ LevelCap \in Nat \ {0}
  <2>1. Prices \subseteq Nat /\ LevelCap \in Nat \ {0}
    BY ParameterAssumption
  <2>2. QED BY <2>1 DEF ProfileInv, TypeOK
<1>3. /\ IsFiniteSet(seen') /\ IsFiniteSet(D) /\ IsFiniteSet(L)
      /\ Cardinality(seen) \in Nat /\ Cardinality(seen') \in Nat
      /\ Cardinality(D) \in Nat /\ Cardinality(L) \in Nat
      /\ Cardinality(L) <= Cardinality(seen')
      /\ x \notin D => Cardinality(L) = Cardinality(D) + 1
  <2>1. IsFiniteSet(seen') /\ IsFiniteSet(D)
    BY <1>2, FS_AddElement, FS_Subset
  <2>2. /\ IsFiniteSet(L)
        /\ Cardinality(L) = IF x \in D THEN Cardinality(D) ELSE Cardinality(D) + 1
    BY <2>1, FS_AddElement
  <2>3. Cardinality(L) <= Cardinality(seen')
    BY <1>2, <2>1, FS_Subset
  <2>4. QED BY <1>2, <2>1, <2>2, <2>3, FS_CardinalityType
<1>4. /\ Cardinality(D) = MinOf(LevelCap, Cardinality(seen))
      /\ \A y \in D, z \in seen \ D : z < y
  BY DEF ProfileInv, ProfileKeepsHighest
<1> SUFFICES /\ Cardinality(L \ over) = MinOf(LevelCap, Cardinality(seen'))
             /\ \A y \in L \ over, z \in seen' \ (L \ over) : z < y
  BY <1>1, <1>2, <1>3 DEF ProfileInv, ProfileKeepsHighest
<1> HIDE DEF D
<1>5. CASE Cardinality(L) > LevelCap
  <2>1. Cardinality(D) <= LevelCap
    BY <1>2, <1>3, <1>4 DEF MinOf
  <2>2. x \notin D /\ Cardinality(L) = LevelCap + 1
    <3>1. x \in D => L = D
      OBVIOUS
    <3>2. QED BY <1>2, <1>3, <1>5, <2>1, <3>1
  <2>3. PICK m \in L : over = {m} /\ \A y \in L : m <= y
    BY <1>2, <1>5, EvictedIsLowest
  <2>4. Cardinality(L \ {m}) = LevelCap
    <3>1. Cardinality(L \ {m}) = Cardinality(L) - 1
      BY <1>3, <2>3, FS_RemoveElement
    <3>2. QED BY <1>2, <2>2, <3>1
  <2>5. Cardinality(L \ over) = MinOf(LevelCap, Cardinality(seen'))
    BY <1>2, <1>3, <2>2, <2>3, <2>4 DEF MinOf
  <2>6. ASSUME NEW y \in L \ {m}, NEW z \in seen' \ (L \ {m}) PROVE z < y
    <3>1. m \in Nat /\ y \in Nat /\ z \in Nat /\ m < y
      BY <1>2, <2>3
    <3>2. CASE z = m
      BY <3>1, <3>2
    <3>3. CASE z # m
      <4>1. z \in seen \ D
        BY <3>3
      <4>2. CASE y \in D
        BY <1>4, <4>1, <4>2
      <4>3. CASE y \notin D
        <5>1. m \in D
          BY <2>3, <4>3
        <5>2. z < m
          BY <1>4, <4>1, <5>1
        <5>3. QED BY <3>1, <5>2
      <4>4. QED BY <4>2, <4>3
    <3>4. QED BY <3>2, <3>3
  <2>7. QED BY <2>3, <2>5, <2>6
<1>6. CASE ~(Cardinality(L) > LevelCap)
  <2>1. L \ over = L
    BY <1>6
  <2>2. CASE x \in D
    <3>1. L = D /\ seen' = seen
      BY <1>2, <2>2
    <3>2. QED BY <1>4, <2>1, <3>1
  <2>3. CASE x \notin D
    <3>1. Cardinality(D) < LevelCap /\ Cardinality(D) = Cardinality(seen)
      BY <1>2, <1>3, <1>4, <1>6, <2>3 DEF MinOf
    <3>2. D = seen
      BY <1>2, <3>1, FS_Subset
    <3>3. L = seen' /\ Cardinality(L) <= LevelCap
      BY <1>2, <1>3, <1>6, <3>2
    <3>4. QED BY <1>2, <1>3, <2>1, <3>3 DEF MinOf
  <2>4. QED BY <2>2, <2>3
<1>7. QED BY <1>5, <1>6

\* The volume profile keeps the highest prices ever processed, whatever comes in
\* which order: it forgets by price and not, as its comment says, by age.
THEOREM ProfileForgetsLowest == Spec => []ProfileKeepsHighest
<1>1. Init => ProfileInv
  <2> SUFFICES ASSUME Init PROVE ProfileInv
    OBVIOUS
  <2>1. DOMAIN profile = {} /\ seen = {}
    BY DEF Init
  <2>2. IsFiniteSet({}) /\ Cardinality({}) = 0 /\ LevelCap \in Nat
    BY FS_EmptySet, ParameterAssumption
  <2>3. QED BY <2>1, <2>2 DEF ProfileInv, ProfileKeepsHighest, MinOf
<1>2. TypeOK /\ ProfileInv /\ [Next]_vars => ProfileInv'
  <2> SUFFICES ASSUME TypeOK, ProfileInv, [Next]_vars PROVE ProfileInv'
    OBVIOUS
  <2>1. ASSUME NEW p \in Pairs, NEW t \in Tick, Process(p, t) PROVE ProfileInv'
    <3>1. /\ t.price \in Prices /\ profile' = NextProfile(t.price, t.trade[1])
          /\ seen' = seen \union {t.price}
      BY <2>1 DEF Process, Tick
    <3>2. QED BY <3>1, ProfileStep
  <2>2. CASE UNCHANGED <<profile, seen>>
    BY <2>2 DEF ProfileInv, ProfileKeepsHighest
  <2>3. QED
    BY <2>1, <2>2 DEF Next, vars, Feed, Evaluate, Open, Close, Elapse, pipeline, history
<1>3. ProfileInv => ProfileKeepsHighest
  BY DEF ProfileInv
<1>4. QED BY <1>1, <1>2, <1>3, ScoringTypeCorrect, PTL DEF Spec

\* A bar moves with the sign of the salvage and nothing else of it.
LEMMA BarsBySign ==
  ASSUME NEW conf, NEW regime, NEW s \in Int
  PROVE  /\ s < 0 => Decide(conf, regime, s) = Decide(conf, regime, -1)
         /\ s > 0 => Decide(conf, regime, s) = Decide(conf, regime, 1)
<1>1. ASSUME NEW v
      PROVE  /\ s < 0 => Bar(v, s) = Bar(v, -1)
             /\ s > 0 => Bar(v, s) = Bar(v, 1)
  BY DEF Bar
<1>2. CASE s < 0
  BY <1>1, <1>2, Zenon DEF Decide
<1>3. CASE s > 0
  BY <1>1, <1>3, Zenon DEF Decide
<1>4. QED BY <1>2, <1>3

\* Whatever the prices and the entry, a long that earns more than its fee is
\* salvaged as a loser, and one that has lost more than that as a winner.
LEMMA LongProcessed ==
  ASSUME NEW p \in Pairs, NEW t \in Tick, Process(p, t), position[p] \in Wave,
         position[p].side = "BUY"
  PROVE  LET entry == position[p].entry
             gross == 2000 * (current' - entry)
         IN /\ signal'.pair = p
            /\ gross > entry => signal'.action = Decide(signal'.conf, signal'.regime, -1)
            /\ -gross > entry => signal'.action = Decide(signal'.conf, signal'.regime, 1)
<1> DEFINE entry == position[p].entry
           salvage == Salvage(t.price, position[p])
<1>1. t.price \in Nat /\ entry \in Nat \ {0} /\ current' = t.price
  BY Parameters DEF Process, Tick, Wave
<1>2. /\ salvage \in Int
      /\ 2000 * (t.price - entry) > entry => salvage < 0
      /\ -(2000 * (t.price - entry)) > entry => salvage > 0
  BY <1>1 DEF Salvage
<1>3. /\ signal'.pair = p
      /\ signal'.action = Decide(signal'.conf, signal'.regime, salvage)
  BY DEF Process
<1>4. QED BY <1>1, <1>2, <1>3, BarsBySign

\* The exit engine judges every long by the bars of the opposite result, for all
\* prices and entries: _calculate_salvage takes a wave's "BUY" for a short.
THEOREM LongsMisjudged == Spec => LongsMeetWrongBars
<1> DEFINE A == signal' # signal /\ position[signal'.pair].side = "BUY" =>
       LET entry == position[signal'.pair].entry
           gross == 2000 * (current' - entry)
       IN /\ gross > entry => signal'.action = Decide(signal'.conf, signal'.regime, -1)
          /\ -gross > entry => signal'.action = Decide(signal'.conf, signal'.regime, 1)
<1>1. TypeOK /\ [Next]_vars => A
  <2> SUFFICES ASSUME TypeOK, [Next]_vars PROVE A
    OBVIOUS
  <2>1. ASSUME NEW p \in Pairs, NEW t \in Tick, Process(p, t), position[p] # None
        PROVE  A
    <3>1. position[p] \in Wave
      BY <2>1 DEF TypeOK
    <3>2. signal'.pair = p
      BY <2>1 DEF Process
    <3>3. QED BY <2>1, <3>1, <3>2, LongProcessed
  <2>2. CASE UNCHANGED signal
    BY <2>2
  <2>3. QED
    BY <2>1, <2>2 DEF Next, vars, Feed, Evaluate, Open, Close, Elapse
<1>2. QED BY <1>1, ScoringTypeCorrect, PTL DEF Spec, LongsMeetWrongBars
===============================================================================
