-------------------------------- MODULE SmcZones --------------------------------
(***************************************************************************)
(* Zone detection of strategy/smc.py: what SMCZoneCache.refresh computes   *)
(* from a window of candles.  Prices are whole cents, so the margin of     *)
(* 0.01 around a swing is one unit.  The zones are a set: their numbering, *)
(* their time and the order in which point_in_zone meets them are not      *)
(* kept.  `matured` is not kept either: refresh stores it as False and the *)
(* running system never calls tick_maturity.                               *)
(***************************************************************************)
EXTENDS Integers, Sequences, FiniteSets

CONSTANT Lookback  \* SWING_LOOKBACK (5)

ASSUME LookbackAssumption == Lookback \in Nat \ {0}

Kinds == {"order_block", "fvg", "bos", "choch", "liquidity_pool"}
Biases == {"bullish", "bearish"}

Zone(kind, lo, hi, bias) == [kind |-> kind, lo |-> lo, hi |-> hi, bias |-> bias]

\* A band around a swing price.
Band(kind, price, bias) == Zone(kind, price - 1, price + 1, bias)

Rises(bar) == bar.close > bar.open
Falls(bar) == bar.close < bar.open

-----------------------------------------------------------------------------
(* Order blocks and fair value gaps: three consecutive candles.             *)

Demand(before, after) ==
  Falls(before) /\ Rises(after) /\ after.low <= before.close /\ after.close > before.close

Supply(before, after) ==
  Rises(before) /\ Falls(after) /\ after.high >= before.close /\ after.close < before.close

\* _detect_order_blocks: the candle in the middle is not looked at.
OrderBlocks(w) ==
  LET at(i) == w[i + 1] IN
  {Zone("order_block", at(i).close, at(i).open, "bullish") :
     i \in {j \in 0..Len(w) - 3 : Demand(at(j), at(j + 2))}}
  \union
  {Zone("order_block", at(i).open, at(i).close, "bearish") :
     i \in {j \in 0..Len(w) - 3 : Supply(at(j), at(j + 2))}}

\* _detect_fvgs.
Gaps(w) ==
  {Zone("fvg", w[i].high, w[i + 2].low, "bullish") :
     i \in {j \in 1..Len(w) - 2 : w[j].high < w[j + 2].low}}
  \union
  {Zone("fvg", w[i + 2].high, w[i].low, "bearish") :
     i \in {j \in 1..Len(w) - 2 : w[j].low > w[j + 2].high}}

-----------------------------------------------------------------------------
(* Swings.                                                                  *)

Around(i) == (i - Lookback)..(i + Lookback)
Inner(w) == (Lookback + 1)..(Len(w) - Lookback)

\* _find_pivot_highs, _find_pivot_lows: equal neighbours are pivots as well.
PivotHighs(w) == {i \in Inner(w) : \A j \in Around(i) : w[i].high >= w[j].high}
PivotLows(w) == {i \in Inner(w) : \A j \in Around(i) : w[i].low <= w[j].low}

Swing(i, kind, price) == [at |-> i, kind |-> kind, price |-> price]

\* A swing comes before another: by index, a high before a low of one candle.
Before(a, b) == a.at < b.at \/ (a.at = b.at /\ a.kind = "high" /\ b.kind = "low")

Adjacent(a, b, swings) ==
  Before(a, b) /\ \A c \in swings : ~(Before(a, c) /\ Before(c, b))

\* _classify_swing: two adjacent swings of one kind; a low between two highs
\* hides both.
Structure(w) ==
  LET swings == {Swing(i, "high", w[i].high) : i \in PivotHighs(w)}
                  \union {Swing(i, "low", w[i].low) : i \in PivotLows(w)}
      pairs == {p \in swings \X swings :
                  p[1].kind = p[2].kind /\ Adjacent(p[1], p[2], swings)}
  IN {Band("bos", p[2].price, "bullish") : p \in {q \in pairs : q[2].price > q[1].price}}
       \union
     {Band("choch", p[2].price, "bearish") : p \in {q \in pairs : q[2].price < q[1].price}}

LastThree(pivots) == {i \in pivots : Cardinality({j \in pivots : j > i}) < 3}

\* _detect_liquidity_pools.
Pools(w) ==
  {Band("liquidity_pool", w[i].high, "bearish") : i \in LastThree(PivotHighs(w))}
    \union
  {Band("liquidity_pool", w[i].low, "bullish") : i \in LastThree(PivotLows(w))}

-----------------------------------------------------------------------------
\* SMCZoneCache.refresh: the zones it stores for a window of bars that is long
\* enough.
Zones(w) == OrderBlocks(w) \union Gaps(w) \union Structure(w) \union Pools(w)

\* The shortest window refresh computes anything from; on_kline asks for the
\* same length (ZONE_REFRESH_MIN_CANDLES).
Enough(w) == Len(w) >= 2 * Lookback + 1
=============================================================================
