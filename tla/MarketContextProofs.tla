--------------------------- MODULE MarketContextProofs ---------------------------
(***************************************************************************)
(* Theorems about MarketContext, for any number of pollers and timeframes, *)
(* every cap and every stream: what append_kline keeps of a window, and    *)
(* that the indicators are those of the window.                            *)
(***************************************************************************)
EXTENDS MarketContext, FoldLemmas, TLAPS

OnceIn(w) == \A i, j \in DOMAIN w : (w[i].ts = w[j].ts /\ w[i].ts # NoTs) => i = j
Rising(w) == \A i, j \in DOMAIN w : i < j => w[i].ts < w[j].ts
Distinct(w) == \A i, j \in DOMAIN w : w[i].ts = w[j].ts => i = j

-----------------------------------------------------------------------------
(* The stable sort of append_kline.                                         *)

\* What stands at i or before it in the time order.
UpTo(w, i) == {j \in DOMAIN w : w[j].ts < w[i].ts \/ (w[j].ts = w[i].ts /\ j <= i)}

LEMMA TsIsNat == \A k \in Kline : k.ts \in Nat
BY DEF Kline

LEMMA WindowFacts ==
  ASSUME NEW w \in Seq(Kline)
  PROVE  /\ Len(w) \in Nat /\ DOMAIN w = 1..Len(w)
         /\ \A i \in 1..Len(w) : w[i] \in Kline /\ w[i].ts \in Nat
BY TsIsNat

\* A position counts more the later it stands, and all differently.
LEMMA RankOrders ==
  ASSUME NEW w \in Seq(Kline), NEW i \in DOMAIN w, NEW j \in DOMAIN w, i # j,
         w[i].ts < w[j].ts \/ (w[i].ts = w[j].ts /\ i < j)
  PROVE  Rank(w, i) < Rank(w, j)
<1>1. IsFiniteSet(DOMAIN w)
  BY WindowFacts, FS_Interval
<1>2. IsFiniteSet(UpTo(w, j)) /\ IsFiniteSet(UpTo(w, i))
  BY <1>1, FS_Subset DEF UpTo
<1>3. UpTo(w, i) \subseteq UpTo(w, j)
  BY WindowFacts DEF UpTo
<1>4. j \in UpTo(w, j) /\ j \notin UpTo(w, i)
  BY WindowFacts DEF UpTo
<1>5. /\ Cardinality(UpTo(w, i)) <= Cardinality(UpTo(w, j))
      /\ Cardinality(UpTo(w, i)) # Cardinality(UpTo(w, j))
  BY <1>2, <1>3, <1>4, FS_Subset
<1>6. Cardinality(UpTo(w, i)) \in Nat /\ Cardinality(UpTo(w, j)) \in Nat
  BY <1>2, FS_CardinalityType
<1> QED
  BY <1>5, <1>6 DEF Rank, UpTo

LEMMA RankInjective ==
  ASSUME NEW w \in Seq(Kline), NEW i \in DOMAIN w, NEW j \in DOMAIN w, i # j
  PROVE  /\ Rank(w, i) # Rank(w, j)
         /\ Rank(w, i) < Rank(w, j) => w[i].ts <= w[j].ts
<1>1. /\ w[i].ts \in Nat /\ w[j].ts \in Nat /\ i \in Nat /\ j \in Nat
      /\ Rank(w, i) \in Nat /\ Rank(w, j) \in Nat
  <2>1. IsFiniteSet(DOMAIN w)
    <3>1. DOMAIN w = 1..Len(w) /\ Len(w) \in Nat
      BY WindowFacts
    <3>2. IsFiniteSet(1..Len(w))
      BY <3>1, FS_Interval
    <3> QED
      BY <3>1, <3>2, Zenon
  <2>2. \A m \in DOMAIN w : IsFiniteSet(UpTo(w, m))
    BY <2>1, FS_Subset DEF UpTo
  <2>3. \A m \in DOMAIN w : Cardinality(UpTo(w, m)) \in Nat
    BY <2>2, FS_CardinalityType
  <2>4. Rank(w, i) \in Nat /\ Rank(w, j) \in Nat
    BY <2>3 DEF Rank, UpTo
  <2> QED
    BY <2>4, WindowFacts
<1>2. CASE w[i].ts < w[j].ts \/ (w[i].ts = w[j].ts /\ i < j)
  <2>1. Rank(w, i) < Rank(w, j)
    BY <1>2, RankOrders
  <2> QED
    BY <1>1, <1>2, <2>1
<1>3. CASE w[j].ts < w[i].ts \/ (w[j].ts = w[i].ts /\ j < i)
  <2>1. Rank(w, j) < Rank(w, i)
    BY <1>3, RankOrders
  <2> QED
    BY <1>1, <2>1
<1>4. \/ w[i].ts < w[j].ts \/ (w[i].ts = w[j].ts /\ i < j)
      \/ w[j].ts < w[i].ts \/ (w[j].ts = w[i].ts /\ j < i)
  BY <1>1
<1> QED
  BY <1>2, <1>3, <1>4, Zenon

\* So every place of the sorted window is taken.
LEMMA RankOnto ==
  ASSUME NEW w \in Seq(Kline), NEW r \in DOMAIN w
  PROVE  \E i \in DOMAIN w : Rank(w, i) = r
<1> DEFINE n == Len(w)
           R == [i \in 1..n |-> Rank(w, i)]
<1>1. n \in Nat /\ DOMAIN w = 1..n /\ IsFiniteSet(1..n) /\ Cardinality(1..n) = n
  <2>1. n \in Nat /\ DOMAIN w = 1..n
    BY WindowFacts
  <2> HIDE DEF n
  <2>2. IsFiniteSet(1..n) /\ Cardinality(1..n) = n
    BY <2>1, FS_Interval
  <2> QED
    BY <2>1, <2>2
<1>2. ASSUME NEW i \in 1..n PROVE Rank(w, i) \in 1..n
  <2>1. UpTo(w, i) \subseteq 1..n /\ i \in UpTo(w, i)
    BY <1>1, WindowFacts DEF UpTo
  <2>2. IsFiniteSet(UpTo(w, i)) /\ Cardinality(UpTo(w, i)) <= n
    BY <1>1, <2>1, FS_Subset
  <2>3. Cardinality(UpTo(w, i)) \in Nat /\ Cardinality(UpTo(w, i)) # 0
    BY <2>1, <2>2, FS_CardinalityType, FS_EmptySet
  <2> QED
    BY <1>1, <2>2, <2>3 DEF Rank, UpTo
<1>3. R \in Injection(1..n, 1..n)
  <2>1. R \in [1..n -> 1..n]
    BY <1>2
  <2>2. \A i, j \in 1..n : R[i] = R[j] => i = j
    BY <1>1, RankInjective
  <2> QED
    BY <2>1, <2>2 DEF Injection, IsInjective
<1>4. R \in Surjection(1..n, 1..n)
  BY <1>1, <1>3, FS_Injection
<1>5. \E i \in 1..n : R[i] = r
  BY <1>1, <1>4 DEF Surjection
<1> QED
  BY <1>1, <1>5

LEMMA SortFacts ==
  ASSUME NEW w \in Seq(Kline)
  PROVE  /\ SortedByTs(w) \in Seq(Kline) /\ DOMAIN SortedByTs(w) = DOMAIN w
         /\ OnceIn(w) => OnceIn(SortedByTs(w))
         /\ Distinct(w) => Rising(SortedByTs(w))
<1> DEFINE s == SortedByTs(w)
           at(r) == CHOOSE i \in DOMAIN w : Rank(w, i) = r
<1>1. \A r \in DOMAIN w : at(r) \in DOMAIN w /\ Rank(w, at(r)) = r
  BY RankOnto
<1>2. /\ DOMAIN s = DOMAIN w /\ \A r \in DOMAIN w : s[r] = w[at(r)]
      /\ s = [r \in DOMAIN w |-> w[at(r)]]
  BY DEF SortedByTs
<1> HIDE DEF s, at
<1>3. s \in Seq(Kline)
  BY <1>1, <1>2, WindowFacts
<1>4. ASSUME OnceIn(w) PROVE OnceIn(s)
  BY <1>1, <1>2, <1>4 DEF OnceIn
<1>5. ASSUME Distinct(w) PROVE Rising(s)
  <2> SUFFICES ASSUME NEW a \in DOMAIN w, NEW b \in DOMAIN w, a < b
               PROVE  s[a].ts < s[b].ts
    BY <1>2 DEF Rising
  <2>1. Rank(w, at(a)) < Rank(w, at(b)) /\ at(a) # at(b)
    BY <1>1, WindowFacts
  <2>2. w[at(a)].ts <= w[at(b)].ts
    BY <1>1, <2>1, RankInjective
  <2>3. w[at(a)].ts # w[at(b)].ts
    BY <1>1, <1>5, <2>1 DEF Distinct
  <2>4. w[at(a)].ts \in Nat /\ w[at(b)].ts \in Nat
    BY <1>1, WindowFacts
  <2>5. s[a] = w[at(a)] /\ s[b] = w[at(b)]
    BY <1>2
  <2> QED
    BY <2>2, <2>3, <2>4, <2>5
<1> QED
  BY <1>2, <1>3, <1>4, <1>5 DEF s

-----------------------------------------------------------------------------
(* append_kline.                                                            *)

LEMMA TrimFacts ==
  ASSUME NEW w \in Seq(Kline)
  PROVE  /\ Trimmed(w) \in Seq(Kline) /\ Len(Trimmed(w)) <= Kept
         /\ OnceIn(w) => OnceIn(Trimmed(w))
         /\ Rising(w) => Rising(Trimmed(w))
<1>1. Kept \in Nat \ {0} /\ Len(w) \in Nat
  BY ParameterAssumption
<1>2. CASE Len(w) > Kept
  <2> DEFINE d == Len(w) - Kept
             t == SubSeq(w, d + 1, Len(w))
  <2>1. d \in Nat /\ d + 1 \in 1..Len(w) /\ Trimmed(w) = t
    BY <1>1, <1>2 DEF Trimmed
  <2>2. /\ t \in Seq(Kline) /\ Len(t) = Kept /\ DOMAIN t = 1..Kept
        /\ \A i \in 1..Kept : t[i] = w[i + d]
    BY <1>1, <1>2, <2>1
  <2>3. \A i \in 1..Kept : i + d \in DOMAIN w
    BY <1>1, <1>2, <2>1
  <2> HIDE DEF t, d
  <2>4. d \in Nat
    BY <2>1
  <2>5. ASSUME OnceIn(w) PROVE OnceIn(t)
    <3> SUFFICES ASSUME NEW i \in 1..Kept, NEW j \in 1..Kept,
                        t[i].ts = t[j].ts, t[i].ts # NoTs
                 PROVE  i = j
      BY <2>2 DEF OnceIn
    <3>1. i + d = j + d
      BY <2>2, <2>3, <2>5 DEF OnceIn
    <3> QED
      BY <3>1, <2>4, <1>1
  <2>6. ASSUME Rising(w) PROVE Rising(t)
    <3> SUFFICES ASSUME NEW i \in 1..Kept, NEW j \in 1..Kept, i < j
                 PROVE  t[i].ts < t[j].ts
      BY <2>2 DEF Rising
    <3>1. i + d < j + d
      BY <2>4, <1>1
    <3> QED
      BY <3>1, <2>2, <2>3, <2>6 DEF Rising
  <2> QED
    BY <1>1, <2>1, <2>2, <2>5, <2>6
<1>3. CASE ~(Len(w) > Kept)
  BY <1>1, <1>3 DEF Trimmed
<1> QED
  BY <1>2, <1>3

\* A candle without open time goes to the end.
LEMMA InsertUntimed ==
  ASSUME NEW w \in Seq(Kline), NEW k \in Kline, k.ts = NoTs
  PROVE  /\ Inserted(w, k) \in Seq(Kline)
         /\ OnceIn(w) => OnceIn(Inserted(w, k))
<1>1. /\ Inserted(w, k) = Append(w, k) /\ Append(w, k) \in Seq(Kline)
      /\ DOMAIN Append(w, k) = 1..Len(w) + 1 /\ DOMAIN w = 1..Len(w) /\ Len(w) \in Nat
      /\ Append(w, k)[Len(w) + 1] = k
      /\ \A i \in 1..Len(w) : Append(w, k)[i] = w[i]
  BY DEF Inserted
<1> QED
  BY <1>1 DEF OnceIn

\* A candle with an open time the window has replaces that one.
LEMMA InsertKnown ==
  ASSUME NEW w \in Seq(Kline), NEW k \in Kline, k.ts # NoTs, Positions(w, k.ts) # {}
  PROVE  /\ Inserted(w, k) \in Seq(Kline)
         /\ OnceIn(w) => OnceIn(Inserted(w, k))
         /\ (OnceIn(w) /\ Rising(w)) => Rising(Inserted(w, k))
<1> DEFINE P == Positions(w, k.ts)
           last == CHOOSE i \in P : \A j \in P : j <= i
<1>1. Inserted(w, k) = [w EXCEPT ![last] = k]
  BY DEF Inserted
<1>2. P \subseteq DOMAIN w /\ \A i \in P : w[i].ts = k.ts
  BY DEF Positions
<1>3. ASSUME OnceIn(w) PROVE last \in P
  <2>1. PICK i \in P : TRUE
    OBVIOUS
  <2>2. \A j \in P : j = i
    BY <1>2, <1>3, <2>1 DEF OnceIn
  <2>3. \A j \in P : j <= i
    BY <1>2, <2>1, <2>2, WindowFacts
  <2> QED
    BY <2>1, <2>3
<1> HIDE DEF P, last
<1>4. [w EXCEPT ![last] = k] \in Seq(Kline)
  <2>1. /\ Len(w) \in Nat /\ w \in [1..Len(w) -> Kline]
        /\ \A u \in [1..Len(w) -> Kline] : u \in Seq(Kline)
    OBVIOUS
  <2>2. [w EXCEPT ![last] = k] \in [1..Len(w) -> Kline]
    BY <2>1
  <2> QED
    BY <2>1, <2>2
<1>5. ASSUME OnceIn(w)
      PROVE  \A i \in DOMAIN w : [w EXCEPT ![last] = k][i].ts = w[i].ts
  BY <1>2, <1>3, <1>5
<1>6. DOMAIN [w EXCEPT ![last] = k] = DOMAIN w
  OBVIOUS
<1>7. OnceIn(w) => OnceIn([w EXCEPT ![last] = k])
  BY <1>5, <1>6 DEF OnceIn
<1>8. (OnceIn(w) /\ Rising(w)) => Rising([w EXCEPT ![last] = k])
  BY <1>5, <1>6 DEF Rising
<1> QED
  BY <1>1, <1>4, <1>7, <1>8

\* A new one is sorted in.
LEMMA InsertNew ==
  ASSUME NEW w \in Seq(Kline), NEW k \in Kline, k.ts # NoTs, Positions(w, k.ts) = {}
  PROVE  /\ Inserted(w, k) \in Seq(Kline)
         /\ OnceIn(w) => OnceIn(Inserted(w, k))
         /\ Rising(w) => Rising(Inserted(w, k))
<1> DEFINE a == Append(w, k)
<1>1. /\ a \in Seq(Kline) /\ Len(a) = Len(w) + 1 /\ DOMAIN a = 1..Len(w) + 1
      /\ DOMAIN w = 1..Len(w) /\ Len(w) \in Nat /\ a[Len(w) + 1] = k
      /\ \A i \in 1..Len(w) : a[i] = w[i]
  OBVIOUS
<1>2. Inserted(w, k) = Ordered(a)
  BY DEF Inserted
<1>3. \A i \in 1..Len(w) : w[i].ts # k.ts
  BY <1>1 DEF Positions
<1> HIDE DEF a
<1>4. OnceIn(w) => OnceIn(a)
  BY <1>1, <1>3 DEF OnceIn
<1>5. Rising(w) => Distinct(a)
  <2> SUFFICES ASSUME Rising(w), NEW i \in 1..Len(w), NEW j \in 1..Len(w), i # j
               PROVE  w[i].ts # w[j].ts
    BY <1>1, <1>3 DEF Distinct
  <2>1. i < j \/ j < i
    BY <1>1
  <2>2. w[i].ts < w[j].ts \/ w[j].ts < w[i].ts
    BY <1>1, <2>1 DEF Rising
  <2> QED
    BY <2>2, <1>1, WindowFacts
<1>6. CASE Len(a) > 1 /\ a[Len(a) - 1].ts > a[Len(a)].ts
  BY <1>1, <1>2, <1>4, <1>5, <1>6, SortFacts DEF Ordered
<1>7. CASE ~(Len(a) > 1 /\ a[Len(a) - 1].ts > a[Len(a)].ts)
  <2>1. Ordered(a) = a
    BY <1>7 DEF Ordered
  <2>2. ASSUME Rising(w) PROVE Rising(a)
    <3>1. \A i \in 1..Len(w) : w[i].ts \in Nat
      BY WindowFacts
    <3>2. k.ts \in Nat
      BY TsIsNat
    <3>3. Len(w) > 0 => w[Len(w)].ts < k.ts
      BY <1>1, <1>3, <1>7, <3>1, <3>2
    <3>4. \A i \in 1..Len(w) : w[i].ts < k.ts
      BY <1>1, <2>2, <3>1, <3>2, <3>3 DEF Rising
    <3> QED
      BY <1>1, <2>2, <3>4 DEF Rising
  <2> QED
    BY <1>1, <1>2, <1>4, <2>1, <2>2
<1> QED
  BY <1>6, <1>7

\* Whatever a candle is, the window stays a window without repeated open times;
\* a candle with an open time keeps a rising window rising.
LEMMA AppendFacts ==
  ASSUME NEW w \in Seq(Kline), NEW k \in Kline, OnceIn(w)
  PROVE  /\ AppendKline(w, k) \in Seq(Kline) /\ OnceIn(AppendKline(w, k))
         /\ (k.ts # NoTs /\ Rising(w)) => Rising(AppendKline(w, k))
<1>1. CASE k.ts = NoTs
  BY <1>1, InsertUntimed, TrimFacts DEF AppendKline
<1>2. CASE k.ts # NoTs /\ Positions(w, k.ts) # {}
  BY <1>2, InsertKnown, TrimFacts DEF AppendKline
<1>3. CASE k.ts # NoTs /\ Positions(w, k.ts) = {}
  BY <1>3, InsertNew, TrimFacts DEF AppendKline
<1> QED
  BY <1>1, <1>2, <1>3

-----------------------------------------------------------------------------
(* The invariant of the specification.                                      *)

\* What the feeds hold: answers are candles with an open time.
FeedsOK ==
  /\ made \in [Frames -> Seq(AnyBar)]
  /\ \A f \in Frames : Len(made[f]) > 0
  /\ DOMAIN answer = Pollers
  /\ \A p \in Pollers : answer[p] # None =>
       /\ answer[p] \in Request /\ answer[p].frame \in Frames /\ answer[p].candles \in Seq(Kline) \ {<<>>}
       /\ \A i \in DOMAIN answer[p].candles : answer[p].candles[i].ts # NoTs

\* What the context holds: windows of candles, each open time once, rising as
\* long as the stream is silent.
WindowsOK ==
  /\ klines \in [Frames -> Seq(Kline)]
  /\ DOMAIN ema = Frames /\ DOMAIN stale = Frames /\ heard \in [Frames -> Nat]
  /\ \A f \in Frames : OnceIn(klines[f])
  /\ \A f \in Frames : heard[f] = 0 => Rising(klines[f])

IInv == FeedsOK /\ WindowsOK /\ IndicatorsCurrent

LEMMA InitIInv == Init => IInv
<1> SUFFICES ASSUME Init PROVE IInv
  OBVIOUS
<1>1. FeedsOK
  <2>1. /\ made \in [Frames -> {<<b>> : b \in AnyBar}]
        /\ answer = [p \in Pollers |-> None]
    BY DEF Init
  <2>2. ASSUME NEW f \in Frames PROVE made[f] \in Seq(AnyBar) /\ Len(made[f]) > 0
    <3>1. made[f] \in {<<b>> : b \in AnyBar}
      BY <2>1
    <3>2. PICK b \in AnyBar : made[f] = <<b>>
      BY <3>1
    <3> QED
      BY <3>2
  <2> QED
    BY <2>1, <2>2 DEF FeedsOK
<1>2. WindowsOK
  BY DEF Init, WindowsOK, OnceIn, Rising
<1>3. IndicatorsCurrent
  BY DEF Init, IndicatorsCurrent
<1> QED
  BY <1>1, <1>2, <1>3 DEF IInv

\* Neither a trade nor a request touches the context.
LEMMA ContextKept ==
  ASSUME WindowsOK, IndicatorsCurrent, UNCHANGED <<context, heard, stale>>
  PROVE  WindowsOK' /\ IndicatorsCurrent'
BY DEF WindowsOK, IndicatorsCurrent, context

\* on_kline keeps the windows, and what it computes is of the window as it is.
LEMMA HandlerStep ==
  ASSUME WindowsOK, IndicatorsCurrent, NEW f \in Frames, NEW k \in Kline, OnKline(f, k),
         heard' \in [Frames -> Nat], \A g \in Frames \ {f} : heard'[g] = heard[g],
         k.ts = NoTs => heard'[f] # 0, k.ts # NoTs => heard' = heard
  PROVE  WindowsOK' /\ IndicatorsCurrent'
<1>1. /\ klines' = [klines EXCEPT ![f] = AppendKline(klines[f], k)]
      /\ stale' = [stale EXCEPT ![f] = ~k.final]
      /\ k.final => Refreshed(f, klines'[f])
      /\ ~k.final => Untouched
  BY DEF OnKline
<1>2. /\ klines[f] \in Seq(Kline) /\ OnceIn(klines[f])
      /\ klines'[f] = AppendKline(klines[f], k)
      /\ \A g \in Frames \ {f} : klines'[g] = klines[g]
  BY <1>1 DEF WindowsOK
<1>3. /\ klines'[f] \in Seq(Kline) /\ OnceIn(klines'[f])
      /\ (k.ts # NoTs /\ Rising(klines[f])) => Rising(klines'[f])
  BY <1>2, AppendFacts
<1>4. DOMAIN ema' = Frames /\ \A g \in Frames \ {f} : ema'[g] = ema[g]
  BY <1>1 DEF WindowsOK, Refreshed, Averages, Untouched
<1>5. /\ stale'[f] = ~k.final /\ DOMAIN stale' = Frames
      /\ \A g \in Frames \ {f} : stale'[g] = stale[g]
  BY <1>1 DEF WindowsOK
<1>6. WindowsOK'
  <2>1. klines' \in [Frames -> Seq(Kline)]
    BY <1>1, <1>3, <1>2 DEF WindowsOK
  <2>2. \A g \in Frames : OnceIn(klines'[g])
    BY <1>2, <1>3 DEF WindowsOK
  <2>3. \A g \in Frames : heard'[g] = 0 => Rising(klines'[g])
    BY <1>2, <1>3 DEF WindowsOK
  <2> QED
    BY <2>1, <2>2, <2>3, <1>4, <1>5 DEF WindowsOK
<1>7. ASSUME NEW g \in Frames, klines'[g] # <<>>, ~stale'[g]
      PROVE  /\ g \in {"15m", "1h"} => ema'[g] = Closes(klines'[g])
             /\ g = "15m" => flow' = RecentFlow(klines'[g])
             /\ (zones'.frame = g /\ Enough(klines'[g]))
                  => zones'.set = Zones(Barred(klines'[g]))
  <2>1. CASE g = f
    <3>1. Refreshed(f, klines'[f])
      BY <1>1, <1>5, <1>7, <2>1
    <3> QED
      BY <3>1, <2>1 DEF Refreshed, Averages, WindowsOK
  <2>2. CASE g # f
    <3>1. klines'[g] = klines[g] /\ ~stale[g] /\ ema'[g] = ema[g]
      BY <1>2, <1>4, <1>5, <1>7, <2>2
    <3>2. g = "15m" => flow' = flow
      BY <1>1, <2>2 DEF Refreshed, Untouched
    <3>3. zones'.frame = g => zones' = zones
      BY <1>1, <2>2 DEF Refreshed, Untouched
    <3> QED
      BY <1>7, <3>1, <3>2, <3>3 DEF IndicatorsCurrent
  <2> QED
    BY <2>1, <2>2
<1>8. IndicatorsCurrent'
  BY <1>7 DEF IndicatorsCurrent
<1> QED
  BY <1>6, <1>8

LEMMA CandleFacts ==
  ASSUME FeedsOK, NEW f \in Frames, NEW t \in DOMAIN made[f], NEW final \in BOOLEAN,
         NEW ts \in Nat
  PROVE  Candle(f, t, ts, final) \in Kline /\ Candle(f, t, ts, final).ts = ts
                                          /\ t \in Nat \ {0}
<1>1. made[f] \in Seq(AnyBar) /\ made[f][t] \in AnyBar /\ t \in Nat \ {0}
  BY DEF FeedsOK
<1> QED
  BY <1>1 DEF Candle, Kline

LEMMA TradeStep == \A f \in Frames : IInv /\ Trade(f) => IInv'
<1> SUFFICES ASSUME NEW f \in Frames, IInv, Trade(f) PROVE IInv'
  OBVIOUS
<1>1. PICK b \in Bars[f] : made' = [made EXCEPT ![f][Len(made[f])] = b]
  BY DEF Trade
<1>2. /\ made[f] \in Seq(AnyBar) /\ Len(made[f]) \in Nat \ {0} /\ b \in AnyBar
  BY DEF IInv, FeedsOK, AnyBar
<1>3. DOMAIN made = Frames /\ made'[f] = [made[f] EXCEPT ![Len(made[f])] = b]
  BY <1>1 DEF IInv, FeedsOK
<1>4. made'[f] \in Seq(AnyBar) /\ Len(made'[f]) = Len(made[f])
  BY <1>2, <1>3
<1>5. \A g \in Frames \ {f} : made'[g] = made[g]
  BY <1>1, <1>3
<1>6. made' \in [Frames -> Seq(AnyBar)]
  BY <1>1, <1>3, <1>4, <1>5 DEF IInv, FeedsOK
<1>7. FeedsOK'
  BY <1>2, <1>4, <1>5, <1>6 DEF IInv, FeedsOK, Trade
<1>8. WindowsOK' /\ IndicatorsCurrent'
  BY ContextKept DEF IInv, Trade
<1> QED
  BY <1>7, <1>8 DEF IInv

LEMMA NextCandleStep == \A f \in Frames : IInv /\ NextCandle(f) => IInv'
<1> SUFFICES ASSUME NEW f \in Frames, IInv, NextCandle(f) PROVE IInv'
  OBVIOUS
<1>1. PICK b \in Bars[f] : made' = [made EXCEPT ![f] = Append(made[f], b)]
  BY DEF NextCandle
<1>2. /\ made[f] \in Seq(AnyBar) /\ Len(made[f]) \in Nat \ {0} /\ b \in AnyBar
      /\ DOMAIN made = Frames /\ DOMAIN made[f] = 1..Len(made[f])
  BY DEF IInv, FeedsOK, AnyBar
<1>3. Append(made[f], b) \in Seq(AnyBar) /\ Len(Append(made[f], b)) > 0
  BY <1>2
<1>4. FeedsOK'
  BY <1>1, <1>2, <1>3 DEF IInv, FeedsOK, NextCandle
<1>5. WindowsOK' /\ IndicatorsCurrent'
  <2>1. CASE Streamed(f) /\ OnKline(f, Candle(f, Len(made[f]), NoTs, TRUE))
    <3>1. /\ heard' \in [Frames -> Nat] /\ \A g \in Frames \ {f} : heard'[g] = heard[g]
          /\ heard'[f] # 0
      BY <2>1 DEF Streamed, IInv, WindowsOK
    <3>2. Len(made[f]) \in DOMAIN made[f]
      BY <1>2
    <3>3. FeedsOK /\ NoTs \in Nat
      BY DEF NoTs, IInv
    <3>4. /\ Candle(f, Len(made[f]), NoTs, TRUE) \in Kline
          /\ Candle(f, Len(made[f]), NoTs, TRUE).ts = NoTs
      BY <3>2, <3>3, CandleFacts
    <3> QED
      BY <2>1, <3>1, <3>4, HandlerStep DEF IInv
  <2>2. CASE UNCHANGED <<context, heard, stale>>
    BY <2>2, ContextKept DEF IInv
  <2> QED
    BY <2>1, <2>2 DEF NextCandle
<1> QED
  BY <1>4, <1>5 DEF IInv

LEMMA StreamFormingStep == \A f \in Frames : IInv /\ StreamForming(f) => IInv'
<1> SUFFICES ASSUME NEW f \in Frames, IInv, StreamForming(f) PROVE IInv'
  OBVIOUS
<1>1. FeedsOK'
  BY DEF IInv, FeedsOK, StreamForming, feeds
<1>2. Len(made[f]) \in DOMAIN made[f]
  BY DEF IInv, FeedsOK
<1>3. /\ heard' \in [Frames -> Nat] /\ \A g \in Frames \ {f} : heard'[g] = heard[g]
      /\ heard'[f] # 0
  BY DEF StreamForming, Streamed, IInv, WindowsOK
<1>4. /\ Candle(f, Len(made[f]), NoTs, FALSE) \in Kline
      /\ Candle(f, Len(made[f]), NoTs, FALSE).ts = NoTs
  BY <1>2, CandleFacts DEF NoTs, IInv
<1>5. WindowsOK' /\ IndicatorsCurrent'
  BY <1>3, <1>4, HandlerStep DEF IInv, StreamForming
<1> QED
  BY <1>1, <1>5 DEF IInv

\* The last n of a sequence are members of it, at least one of them.
LEMMA LastOfFacts ==
  ASSUME NEW S, NEW s \in Seq(S), Len(s) > 0, NEW n \in Nat \ {0}
  PROVE  LastOf(s, n) \in Seq(S) \ {<<>>}
<1>1. CASE Len(s) > n
  <2> DEFINE t == SubSeq(s, Len(s) - n + 1, Len(s))
  <2>1. Len(s) \in Nat /\ Len(s) - n + 1 \in 1..Len(s)
    BY <1>1
  <2>2. t \in Seq(S) /\ Len(t) = n
    BY <1>1, <2>1
  <2>3. t # <<>>
    BY <2>2
  <2> QED
    BY <1>1, <2>2, <2>3 DEF LastOf
<1>2. CASE ~(Len(s) > n)
  BY <1>2 DEF LastOf
<1> QED
  BY <1>1, <1>2

LEMMA FetchStep == \A p \in Pollers : IInv /\ Fetch(p) => IInv'
<1> SUFFICES ASSUME NEW p \in Pollers, IInv, Fetch(p) PROVE IInv'
  OBVIOUS
<1> DEFINE Timed == {k \in Kline : k.ts # NoTs}
           all(f) == [t \in DOMAIN made[f] |-> Candle(f, t, t, TRUE)]
<1>1. PICK f \in Frames :
        answer' = [answer EXCEPT ![p] = [frame |-> f, candles |-> LastOf(all(f), Limit)]]
  BY DEF Fetch
<1>2. \A t \in DOMAIN made[f] : Candle(f, t, t, TRUE) \in Timed
  <2> SUFFICES ASSUME NEW t \in DOMAIN made[f] PROVE Candle(f, t, t, TRUE) \in Timed
    OBVIOUS
  <2>1. FeedsOK /\ NoTs = 0 /\ TRUE \in BOOLEAN
    BY DEF IInv, NoTs
  <2>2. t \in Nat \ {0}
    BY <2>1 DEF FeedsOK
  <2> HIDE DEF Timed
  <2>3. Candle(f, t, t, TRUE) \in Kline /\ Candle(f, t, t, TRUE).ts = t
    BY <2>1, <2>2, CandleFacts
  <2> QED
    BY <2>1, <2>2, <2>3 DEF Timed
<1>3. all(f) \in Seq(Timed) /\ Len(all(f)) > 0
  <2>1. DOMAIN made[f] = 1..Len(made[f]) /\ Len(made[f]) \in Nat \ {0}
    BY DEF IInv, FeedsOK
  <2> HIDE DEF Timed
  <2>2. DOMAIN all(f) = 1..Len(made[f]) /\ \A t \in 1..Len(made[f]) : all(f)[t] \in Timed
    BY <1>2, <2>1
  <2>3. all(f) \in [1..Len(made[f]) -> Timed]
    BY <2>2
  <2> HIDE DEF all
  <2>4. \A n \in Nat : \A u \in [1..n -> Timed] : u \in Seq(Timed) /\ Len(u) = n
    OBVIOUS
  <2> QED
    BY <2>1, <2>3, <2>4
<1>4. LastOf(all(f), Limit) \in Seq(Timed) \ {<<>>}
  <2> HIDE DEF all, Timed
  <2> QED
    BY <1>3, LastOfFacts, ParameterAssumption
<1> DEFINE c == LastOf(all(f), Limit)
<1> HIDE DEF all
<1>5. c \in Seq(Timed) \ {<<>>}
  BY <1>4
<1> HIDE DEF c
<1>6. c \in Seq(Kline) \ {<<>>} /\ \A i \in DOMAIN c : c[i].ts # NoTs
  <2>1. /\ Len(c) \in Nat /\ DOMAIN c = 1..Len(c)
        /\ \A i \in 1..Len(c) : c[i] \in Kline /\ c[i].ts # NoTs
    BY <1>5
  <2>2. c \in [1..Len(c) -> Kline]
    BY <1>5, <2>1
  <2> QED
    BY <1>5, <2>1, <2>2
<1>7. /\ answer'[p] = [frame |-> f, candles |-> c] /\ DOMAIN answer' = Pollers
      /\ \A q \in Pollers \ {p} : answer'[q] = answer[q]
  BY <1>1 DEF c, IInv, FeedsOK
<1>8. /\ answer'[p].frame = f /\ answer'[p].candles = c /\ answer'[p] \in Request
  BY <1>7, <1>6 DEF Request
<1>9. FeedsOK'
  <2>1. ASSUME NEW q \in Pollers, answer'[q] # None
        PROVE  /\ answer'[q] \in Request /\ answer'[q].frame \in Frames
               /\ answer'[q].candles \in Seq(Kline) \ {<<>>}
               /\ \A i \in DOMAIN answer'[q].candles : answer'[q].candles[i].ts # NoTs
    <3>1. CASE q = p
      BY <1>6, <1>8, <3>1
    <3>2. CASE q # p
      <4>1. answer'[q] = answer[q]
        BY <1>7, <3>2
      <4> QED
        BY <2>1, <4>1 DEF IInv, FeedsOK
    <3> QED
      BY <3>1, <3>2
  <2> QED
    BY <1>7, <2>1 DEF IInv, FeedsOK, Fetch
<1>10. WindowsOK' /\ IndicatorsCurrent'
  BY ContextKept DEF IInv, Fetch
<1> QED
  BY <1>9, <1>10 DEF IInv

LEMMA MissStep == \A p \in Pollers : IInv /\ Miss(p) => IInv'
<1> SUFFICES ASSUME NEW p \in Pollers, IInv, Miss(p) PROVE IInv'
  OBVIOUS
<1>1. FeedsOK'
  BY DEF IInv, FeedsOK, Miss
<1>2. WindowsOK' /\ IndicatorsCurrent'
  BY ContextKept DEF IInv, Miss
<1> QED
  BY <1>1, <1>2 DEF IInv

LEMMA DispatchStep == \A p \in Pollers : IInv /\ Dispatch(p) => IInv'
<1> SUFFICES ASSUME NEW p \in Pollers, IInv, Dispatch(p) PROVE IInv'
  OBVIOUS
<1> DEFINE c == answer[p].candles
           f == answer[p].frame
<1>1. /\ f \in Frames /\ c \in Seq(Kline) \ {<<>>}
      /\ answer[p] \in Request /\ \A i \in DOMAIN c : c[i].ts # NoTs
  BY DEF IInv, FeedsOK, Dispatch
<1>2. /\ OnKline(f, Head(c)) /\ heard' = heard /\ made' = made
      /\ \/ Tail(c) = <<>> /\ answer' = [answer EXCEPT ![p] = None]
         \/ Tail(c) # <<>> /\ answer' = [answer EXCEPT ![p].candles = Tail(c)]
  BY DEF Dispatch
<1> HIDE DEF c
<1>3. Head(c) \in Kline /\ Head(c).ts # NoTs
  <2>1. Len(c) \in Nat \ {0} /\ Head(c) = c[1] /\ 1 \in DOMAIN c /\ Head(c) \in Kline
    BY <1>1
  <2> QED
    BY <2>1, <1>1
<1>4. Tail(c) \in Seq(Kline) /\ \A i \in DOMAIN Tail(c) : Tail(c)[i].ts # NoTs
  <2>1. /\ Len(c) \in Nat \ {0} /\ Tail(c) \in Seq(Kline)
        /\ DOMAIN Tail(c) = 1..Len(c) - 1 /\ DOMAIN c = 1..Len(c)
        /\ \A i \in 1..Len(c) - 1 : Tail(c)[i] = c[i + 1]
    BY <1>1
  <2>2. \A i \in 1..Len(c) - 1 : i + 1 \in 1..Len(c)
    BY <2>1
  <2> QED
    BY <1>1, <2>1, <2>2
<1>5. FeedsOK'
  <2>1. ASSUME NEW q \in Pollers, answer'[q] # None
        PROVE  /\ answer'[q].frame \in Frames /\ answer'[q].candles \in Seq(Kline) \ {<<>>}
               /\ answer'[q] \in Request
               /\ \A i \in DOMAIN answer'[q].candles : answer'[q].candles[i].ts # NoTs
    <3>1. CASE q # p
      <4>1. answer'[q] = answer[q]
        BY <1>2, <3>1 DEF IInv, FeedsOK
      <4> QED
        BY <4>1, <2>1 DEF IInv, FeedsOK
    <3>2. CASE q = p
      <4>1. /\ Tail(c) # <<>>
            /\ answer'[p] = [answer[p] EXCEPT !.candles = Tail(c)]
        BY <1>2, <2>1, <3>2 DEF IInv, FeedsOK
      <4>2. answer[p].frame \in Frames /\ answer[p] \in Request
        BY <1>1
      <4>3. /\ answer'[p].candles = Tail(c) /\ answer'[p].frame = answer[p].frame
            /\ answer'[p] \in Request
        BY <1>4, <4>1, <4>2 DEF Request
      <4> QED
        BY <1>4, <3>2, <4>1, <4>2, <4>3
    <3> QED
      BY <3>1, <3>2
  <2>2. DOMAIN answer' = Pollers
    BY <1>2 DEF IInv, FeedsOK
  <2> QED
    BY <1>2, <2>1, <2>2 DEF IInv, FeedsOK
<1>6. WindowsOK' /\ IndicatorsCurrent'
  BY <1>1, <1>2, <1>3, HandlerStep DEF IInv, WindowsOK
<1> QED
  BY <1>5, <1>6 DEF IInv

LEMMA NextIInv == IInv /\ [Next]_vars => IInv'
<1> SUFFICES ASSUME IInv, [Next]_vars PROVE IInv'
  OBVIOUS
<1>1. CASE UNCHANGED vars
  <2>1. FeedsOK'
    BY <1>1 DEF IInv, FeedsOK, vars, feeds
  <2>2. WindowsOK' /\ IndicatorsCurrent'
    BY <1>1, ContextKept DEF IInv, vars
  <2> QED
    BY <2>1, <2>2 DEF IInv
<1>2. CASE \E f \in Frames : Trade(f) \/ NextCandle(f) \/ StreamForming(f)
  BY <1>2, TradeStep, NextCandleStep, StreamFormingStep
<1>3. CASE \E p \in Pollers : Fetch(p) \/ Miss(p) \/ Dispatch(p)
  BY <1>3, FetchStep, MissStep, DispatchStep
<1> QED
  BY <1>1, <1>2, <1>3 DEF Next

LEMMA ContextInvariant == Spec => []IInv
BY InitIInv, NextIInv, PTL DEF Spec

-----------------------------------------------------------------------------
(* What the windows and the indicators promise.                             *)

\* However many pollers ask, however late they are answered and whatever the
\* stream delivers between: append_kline never has a candle with an open time
\* in the window twice.
THEOREM CandlesOnce == Spec => []TimedOnce
<1>1. IInv => TimedOnce
  BY DEF IInv, WindowsOK, OnceIn, TimedOnce
<1> QED
  BY <1>1, ContextInvariant, PTL

\* The window stays in the order of time while the stream is silent, for every
\* size of the requests and of the window.
THEOREM CandlesInOrder == Spec => []OrderedWhenPolled
<1>1. IInv => OrderedWhenPolled
  BY DEF IInv, WindowsOK, Rising, OrderedWhenPolled
<1> QED
  BY <1>1, ContextInvariant, PTL

\* Averages, flow and zones are of the window as it is, unless a forming candle
\* of the stream came last.
THEOREM IndicatorsAreCurrent == Spec => []IndicatorsCurrent
BY ContextInvariant, PTL DEF IInv

-----------------------------------------------------------------------------
(* Types.                                                                   *)

LEMMA BarTypes ==
  /\ AnyBar \subseteq Bar /\ \A f \in Frames : Bars[f] \subseteq AnyBar
  /\ \A b \in Bar : b.open \in Nat /\ b.high \in Nat /\ b.low \in Nat /\ b.close \in Nat
<1>1. \A b \in Bar : b.open \in Nat /\ b.high \in Nat /\ b.low \in Nat /\ b.close \in Nat
  BY DEF Bar
<1> HIDE DEF Bar
<1>2. QED BY <1>1, ParameterAssumption DEF AnyBar

\* A block has a body, a gap is open, and the band of a swing lies around its
\* price: no zone is without room.
LEMMA ZonesHaveRoom ==
  ASSUME NEW w \in Seq(Bar), NEW z \in Zones(w)
  PROVE  z.kind \in Kinds /\ z.bias \in Biases /\ z.lo < z.hi
<1>1. /\ Len(w) \in Nat
      /\ \A i \in 1..Len(w) : /\ w[i].open \in Nat /\ w[i].high \in Nat
                              /\ w[i].low \in Nat /\ w[i].close \in Nat
  BY BarTypes
<1>2. ASSUME NEW kind \in Kinds, NEW bias \in Biases, NEW price \in Nat, z = Band(kind, price, bias)
      PROVE  z.kind \in Kinds /\ z.bias \in Biases /\ z.lo < z.hi
  BY <1>2 DEF Band, Zone
<1>3. Inner(w) \subseteq 1..Len(w)
  BY <1>1, LookbackAssumption DEF Inner
<1>4. CASE z \in OrderBlocks(w)
  BY <1>1, <1>4 DEF OrderBlocks, Demand, Supply, Rises, Falls, Zone, Kinds, Biases
<1>5. CASE z \in Gaps(w)
  BY <1>1, <1>5 DEF Gaps, Zone, Kinds, Biases
<1>6. CASE z \in Structure(w)
  <2> DEFINE swings == {Swing(i, "high", w[i].high) : i \in PivotHighs(w)}
                         \union {Swing(i, "low", w[i].low) : i \in PivotLows(w)}
  <2>1. \A s \in swings : s.price \in Nat
    BY <1>1, <1>3 DEF PivotHighs, PivotLows, Swing
  <2> HIDE DEF swings
  <2>2. PICK p \in swings \X swings : \/ z = Band("bos", p[2].price, "bullish")
                                      \/ z = Band("choch", p[2].price, "bearish")
    BY <1>6 DEF Structure, swings
  <2>3. p[2].price \in Nat
    BY <2>1, <2>2
  <2>4. QED BY <1>2, <2>2, <2>3 DEF Kinds, Biases
<1>7. CASE z \in Pools(w)
  <2>1. PICK i \in Inner(w) : \/ z = Band("liquidity_pool", w[i].high, "bearish")
                              \/ z = Band("liquidity_pool", w[i].low, "bullish")
    BY <1>7 DEF Pools, LastThree, PivotHighs, PivotLows
  <2>2. w[i].high \in Nat /\ w[i].low \in Nat
    BY <1>1, <1>3
  <2>3. QED BY <1>2, <2>1, <2>2 DEF Kinds, Biases
<1>8. QED BY <1>4, <1>5, <1>6, <1>7 DEF Zones

LEMMA BarOfCandle == \A k \in Kline : k.bar \in AnyBar
BY DEF Kline

\* What a window is made of.
LEMMA WindowParts ==
  ASSUME NEW w \in Seq(Kline)
  PROVE  Barred(w) \in Seq(AnyBar) /\ Closes(w) \in Seq(Nat)
<1>1. /\ Len(w) \in Nat /\ DOMAIN w = 1..Len(w)
      /\ \A i \in 1..Len(w) : w[i].bar \in AnyBar
  BY BarOfCandle
<1>2. \A i \in 1..Len(w) : w[i].bar.close \in Nat
  BY <1>1, BarTypes
<1>3. QED BY <1>1, <1>2 DEF Barred, Closes

\* The bars of the final candles of a window.
LEMMA FinalBarsType ==
  ASSUME NEW w \in Seq(Kline)
  PROVE  FinalBars(w) \in Seq(AnyBar)
<1> DEFINE n == Len(w)  pick == LastPick(n)  S == 1..n  V == Seq(AnyBar)
           Next1(bars, k) == IF k.final THEN Append(bars, k.bar) ELSE bars
           step == [p \in S \X V |-> Next1(p[2], w[p[1]])]
           P(h) == h = [t \in SUBSET S |->
                          IF t = {} THEN <<>> ELSE Next1(h[t \ {Max(t)}], w[Max(t)])]
           F == CHOOSE h : P(h)
<1>1. n \in Nat /\ DOMAIN w = S /\ \A i \in S : w[i].bar \in AnyBar
  BY BarOfCandle
<1>2. FinalBars(w) = F[S]
  BY <1>1 DEF FinalBars, FoldLeft, MapThenFoldSet
<1>3. IsFiniteSet(S) /\ Picks(pick, S)
  BY <1>1, LastPicks
<1>4. <<>> \in V /\ \A v \in V, i \in S : Next1(v, w[i]) \in V
  BY <1>1
<1>5. \A i \in S, v \in V : step[<<i, v>>] = Next1(v, w[i]) /\ step[<<i, v>>] \in V
  BY <1>4
<1>6. StepsWithin(step, S, V)
  BY <1>5 DEF StepsWithin
<1>7. \A t \in SUBSET S : t # {} => /\ pick[t] = Max(t) /\ Max(t) \in S
                                    /\ t \ {Max(t)} \in SUBSET S
  BY <1>3 DEF LastPick, Picks
<1> HIDE DEF n, pick, step, S, V, Next1
<1>8. \E h : P(h)
  <2>1. PICK h \in [SUBSET S -> V] : Folds(h, S, pick, <<>>, step)
    BY <1>3, <1>4, <1>6, FoldExists
  <2>2. ASSUME NEW t \in SUBSET S
        PROVE  h[t] = IF t = {} THEN <<>> ELSE Next1(h[t \ {Max(t)}], w[Max(t)])
    <3>1. CASE t = {}
      BY <2>1, <3>1 DEF Folds
    <3>2. CASE t # {}
      <4>1. pick[t] = Max(t) /\ Max(t) \in S /\ t \ {Max(t)} \in SUBSET S
        BY <1>7, <3>2
      <4>2. h[t] = step[<<Max(t), h[t \ {Max(t)}]>>]
        BY <2>1, <3>2, <4>1 DEF Folds
      <4>3. QED BY <1>5, <2>1, <3>2, <4>1, <4>2
    <3>3. QED BY <3>1, <3>2
  <2>3. P(h)
    BY <2>1, <2>2
  <2>4. QED BY <2>3
<1>9. P(F)
  <2> HIDE DEF P
  <2>1. QED BY <1>8
<1> HIDE DEF F
<1>10. FoldsWithin(F, S, pick, V, <<>>, step)
  <2>1. \A t \in SUBSET S :
          F[t] = IF t = {} THEN <<>> ELSE Next1(F[t \ {Max(t)}], w[Max(t)])
    BY <1>9
  <2>2. F[{}] = <<>>
    BY <2>1
  <2>3. ASSUME NEW t \in SUBSET S, t # {}, F[t \ {pick[t]}] \in V
        PROVE  F[t] = step[<<pick[t], F[t \ {pick[t]}]>>]
    <3>1. pick[t] = Max(t) /\ Max(t) \in S
      BY <1>7, <2>3
    <3>2. step[<<Max(t), F[t \ {Max(t)}]>>] = Next1(F[t \ {Max(t)}], w[Max(t)])
      BY <1>5, <2>3, <3>1
    <3>3. QED BY <2>1, <2>3, <3>1, <3>2
  <2>4. QED BY <2>2, <2>3 DEF FoldsWithin
<1>11. F[S] \in V
  BY <1>3, <1>4, <1>6, <1>10, FoldTyped
<1>12. QED BY <1>2, <1>11 DEF V

LEMMA FlowType ==
  ASSUME NEW w \in Seq(Kline)
  PROVE  RecentFlow(w) \in Seq(AnyBar)
<1> DEFINE bars == FinalBars(w)
<1>1. bars \in Seq(AnyBar) /\ FlowCandles \in Nat \ {0}
  BY FinalBarsType, ParameterAssumption
<1> HIDE DEF bars
<1>2. CASE Len(bars) > 0
  <2>1. LastOf(bars, FlowCandles) \in Seq(AnyBar) \ {<<>>}
    BY <1>1, <1>2, LastOfFacts
  <2>2. QED BY <2>1 DEF RecentFlow, bars
<1>3. CASE ~(Len(bars) > 0)
  <2>1. LastOf(bars, FlowCandles) = bars
    BY <1>1, <1>3 DEF LastOf
  <2>2. QED BY <1>1, <2>1 DEF RecentFlow, bars
<1>4. QED BY <1>2, <1>3

\* The types of what the context holds.
ContextType ==
  /\ klines \in [Frames -> Seq(Kline)]
  /\ \A f \in Frames : Len(klines[f]) <= Kept
  /\ ema \in [Frames -> Seq(Nat)]
  /\ flow \in Seq(AnyBar)
  /\ zones.frame \in Frames \union {None}
  /\ \A z \in zones.set : z.kind \in Kinds /\ z.bias \in Biases /\ z.lo < z.hi
  /\ stale \in [Frames -> BOOLEAN]

FeedsType ==
  /\ made \in [Frames -> Seq(AnyBar)]
  /\ \A f \in Frames : Len(made[f]) \in 1..LastCandle[f]
  /\ answer \in [Pollers -> Request \union {None}]
  /\ \A p \in Pollers : answer[p] # None => answer[p].candles # <<>>
  /\ busy \in Pollers \union {None}

LEMMA HandlerTypes ==
  ASSUME ContextType, NEW f \in Frames, NEW k \in Kline, OnKline(f, k)
  PROVE  ContextType'
<1> DEFINE w == AppendKline(klines[f], k)
<1>1. klines[f] \in Seq(Kline) /\ k.final \in BOOLEAN
  BY DEF ContextType, Kline
<1>2. Inserted(klines[f], k) \in Seq(Kline)
  <2>1. CASE k.ts = NoTs
    BY <1>1, <2>1, InsertUntimed
  <2>2. CASE k.ts # NoTs /\ Positions(klines[f], k.ts) # {}
    BY <1>1, <2>2, InsertKnown
  <2>3. CASE k.ts # NoTs /\ Positions(klines[f], k.ts) = {}
    BY <1>1, <2>3, InsertNew
  <2>4. QED BY <2>1, <2>2, <2>3
<1>3. w \in Seq(Kline) /\ Len(w) <= Kept
  BY <1>2, TrimFacts DEF AppendKline
<1> HIDE DEF w
<1>4. /\ klines' = [klines EXCEPT ![f] = w]
      /\ IF k.final THEN Refreshed(f, klines'[f]) ELSE Untouched
      /\ stale' = [stale EXCEPT ![f] = ~k.final]
  BY DEF OnKline, w
<1>5. klines'[f] = w /\ klines' \in [Frames -> Seq(Kline)]
      /\ \A g \in Frames : Len(klines'[g]) <= Kept
  BY <1>3, <1>4 DEF ContextType
<1>6. stale' \in [Frames -> BOOLEAN]
  BY <1>1, <1>4 DEF ContextType
<1>7. CASE ~k.final
  <2>1. UNCHANGED <<ema, flow, zones>>
    BY <1>4, <1>7 DEF Untouched
  <2>2. QED BY <1>5, <1>6, <2>1 DEF ContextType
<1>8. CASE k.final
  <2>1. Refreshed(f, w)
    BY <1>4, <1>5, <1>8
  <2>2. ema' \in [Frames -> Seq(Nat)]
    BY <1>3, <2>1, WindowParts DEF Refreshed, Averages, ContextType
  <2>3. flow' \in Seq(AnyBar)
    BY <1>3, <2>1, FlowType DEF Refreshed, ContextType
  <2>4. /\ zones'.frame \in Frames \union {None}
        /\ \A z \in zones'.set : z.kind \in Kinds /\ z.bias \in Biases /\ z.lo < z.hi
    <3>1. CASE zones' = zones
      BY <3>1 DEF ContextType
    <3>2. CASE zones' = [frame |-> f, set |-> Zones(Barred(w))]
      <4>1. Barred(w) \in Seq(AnyBar)
        BY <1>3, WindowParts
      <4>2. Barred(w) \in Seq(Bar)
        BY <4>1, BarTypes
      <4>3. QED BY <3>2, <4>2, ZonesHaveRoom
    <3>3. QED BY <2>1, <3>1, <3>2 DEF Refreshed
  <2>5. QED BY <1>5, <1>6, <2>2, <2>3, <2>4 DEF ContextType
<1>9. QED BY <1>1, <1>7, <1>8

LEMMA InitTypes == Init => ContextType /\ FeedsType
<1> SUFFICES ASSUME Init PROVE ContextType /\ FeedsType
  OBVIOUS
<1>1. ContextType
  BY ParameterAssumption DEF Init, ContextType
<1>2. ASSUME NEW f \in Frames
      PROVE  made[f] \in Seq(AnyBar) /\ Len(made[f]) = 1 /\ LastCandle[f] \in Nat \ {0}
  <2>1. PICK b \in AnyBar : made[f] = <<b>>
    BY DEF Init
  <2>2. QED BY <2>1, ParameterAssumption
<1>3. ASSUME NEW f \in Frames PROVE Len(made[f]) \in 1..LastCandle[f]
  <2>1. \A n \in Nat \ {0} : 1 \in 1..n
    OBVIOUS
  <2>2. QED BY <1>2, <2>1
<1>4. made \in [Frames -> Seq(AnyBar)]
  BY <1>2 DEF Init
<1>5. QED BY <1>1, <1>3, <1>4 DEF Init, FeedsType

LEMMA NextTypes == IInv /\ ContextType /\ FeedsType /\ [Next]_vars => ContextType' /\ FeedsType'
<1> SUFFICES ASSUME IInv, ContextType, FeedsType, [Next]_vars PROVE ContextType' /\ FeedsType'
  OBVIOUS
<1>1. ASSUME UNCHANGED <<context, stale>> PROVE ContextType'
  BY <1>1 DEF ContextType, context
<1>2. CASE UNCHANGED vars
  BY <1>1, <1>2 DEF FeedsType, vars, feeds
<1>3. ASSUME NEW f \in Frames, Trade(f) PROVE ContextType' /\ FeedsType'
  <2>1. PICK b \in Bars[f] : made' = [made EXCEPT ![f][Len(made[f])] = b]
    BY <1>3 DEF Trade
  <2>2. made[f] \in Seq(AnyBar) /\ Len(made[f]) \in Nat \ {0} /\ b \in AnyBar
    BY BarTypes DEF IInv, FeedsOK
  <2>3. [made[f] EXCEPT ![Len(made[f])] = b] \in Seq(AnyBar)
        /\ Len([made[f] EXCEPT ![Len(made[f])] = b]) = Len(made[f])
    BY <2>2
  <2>4. /\ made' \in [Frames -> Seq(AnyBar)]
        /\ \A g \in Frames : Len(made'[g]) \in 1..LastCandle[g]
    BY <2>1, <2>3 DEF FeedsType
  <2>5. FeedsType'
    BY <1>3, <2>4 DEF FeedsType, Trade
  <2>6. QED BY <1>1, <1>3, <2>5 DEF Trade
<1>4. ASSUME NEW f \in Frames, NextCandle(f) PROVE ContextType' /\ FeedsType'
  <2>1. PICK b \in Bars[f] : made' = [made EXCEPT ![f] = Append(made[f], b)]
    BY <1>4 DEF NextCandle
  <2>2. made[f] \in Seq(AnyBar) /\ Len(made[f]) \in Nat \ {0} /\ b \in AnyBar
    BY BarTypes DEF IInv, FeedsOK
  <2>3. Append(made[f], b) \in Seq(AnyBar) /\ Len(Append(made[f], b)) = Len(made[f]) + 1
    BY <2>2
  <2>4. Len(made[f]) + 1 \in 1..LastCandle[f]
    BY <1>4, <2>2, ParameterAssumption DEF NextCandle
  <2>5. /\ made' \in [Frames -> Seq(AnyBar)]
        /\ \A g \in Frames : Len(made'[g]) \in 1..LastCandle[g]
    BY <2>1, <2>3, <2>4 DEF FeedsType
  <2>6. FeedsType'
    BY <1>4, <2>5 DEF FeedsType, NextCandle
  <2>7. Candle(f, Len(made[f]), NoTs, TRUE) \in Kline
    <3>1. Len(made[f]) \in DOMAIN made[f] /\ FeedsOK /\ NoTs \in Nat
      BY <2>2 DEF IInv, NoTs
    <3>2. QED BY <3>1, CandleFacts
  <2>8. ContextType'
    BY <1>1, <1>4, <2>7, HandlerTypes DEF NextCandle
  <2>9. QED BY <2>6, <2>8
<1>5. ASSUME NEW f \in Frames, StreamForming(f) PROVE ContextType' /\ FeedsType'
  <2>1. Candle(f, Len(made[f]), NoTs, FALSE) \in Kline
    <3>1. Len(made[f]) \in DOMAIN made[f] /\ FeedsOK /\ NoTs \in Nat
      BY DEF IInv, FeedsOK, NoTs
    <3>2. QED BY <3>1, CandleFacts
  <2>2. ContextType'
    BY <1>5, <2>1, HandlerTypes DEF StreamForming
  <2>3. FeedsType'
    BY <1>5 DEF StreamForming, FeedsType, feeds
  <2>4. QED BY <2>2, <2>3
<1>6. ASSUME NEW p \in Pollers, Fetch(p) \/ Miss(p) PROVE ContextType' /\ FeedsType'
  <2>1. PICK x : answer' = [answer EXCEPT ![p] = x]
    BY <1>6 DEF Fetch, Miss
  <2>2. \A q \in Pollers : answer'[q] # None =>
          answer'[q] \in Request /\ answer'[q].candles # <<>>
    BY <1>6, FetchStep, MissStep DEF IInv, FeedsOK
  <2>3. answer' \in [Pollers -> Request \union {None}]
    BY <2>1, <2>2 DEF FeedsType
  <2>4. FeedsType'
    BY <1>6, <2>2, <2>3 DEF Fetch, Miss, FeedsType
  <2>5. QED BY <1>1, <1>6, <2>4 DEF Fetch, Miss
<1>7. ASSUME NEW p \in Pollers, Dispatch(p) PROVE ContextType' /\ FeedsType'
  <2>1. PICK x : answer' = [answer EXCEPT ![p] = x]
    BY <1>7 DEF Dispatch
  <2>2. \A q \in Pollers : answer'[q] # None =>
          answer'[q] \in Request /\ answer'[q].candles # <<>>
    BY <1>7, DispatchStep DEF IInv, FeedsOK
  <2>3. answer' \in [Pollers -> Request \union {None}]
    BY <2>1, <2>2 DEF FeedsType
  <2>4. busy' \in Pollers \union {None} /\ made' = made
    BY <1>7 DEF Dispatch
  <2>5. FeedsType'
    BY <2>2, <2>3, <2>4 DEF FeedsType
  <2>6. /\ answer[p].frame \in Frames
        /\ answer[p].candles \in Seq(Kline) \ {<<>>}
        /\ OnKline(answer[p].frame, Head(answer[p].candles))
    BY <1>7 DEF Dispatch, IInv, FeedsOK
  <2>7. Head(answer[p].candles) \in Kline
    BY <2>6
  <2>8. ContextType'
    BY <2>6, <2>7, HandlerTypes
  <2>9. QED BY <2>5, <2>8
<1>8. QED BY <1>2, <1>3, <1>4, <1>5, <1>6, <1>7 DEF Next

\* Whatever the exchange makes, the pollers ask and the stream delivers: the
\* windows stay within their cap, and every zone the scores are computed from
\* has room for a price.
THEOREM ContextTypeCorrect == Spec => []TypeOK
<1>1. IInv /\ ContextType /\ FeedsType => TypeOK
  BY DEF IInv, WindowsOK, ContextType, FeedsType, TypeOK
<1>2. Spec => []IInv
  BY ContextInvariant
<1>3. QED BY <1>1, <1>2, InitTypes, NextTypes, PTL DEF Spec
=============================================================================
