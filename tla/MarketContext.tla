----------------------------- MODULE MarketContext -----------------------------
(***************************************************************************)
(* The indicator context of one pair (engine/context.py), the handler both *)
(* feeds call with candles (runtime.py, on_kline) and the candles they     *)
(* deliver (marketdata/rest.py and feed.py).                               *)
(*                                                                         *)
(* The exchange's candles of a timeframe are numbered by open time; the    *)
(* last one is still forming.  A poller asks for the last Limit candles    *)
(* and may be answered late; refetch_klines calls every one of them final. *)
(* The stream reports the forming candle again and again and its close     *)
(* once, without the open time that append_kline compares.                 *)
(*                                                                         *)
(* An average is kept as the closes it is computed from, a trend as the    *)
(* two averages it compares.  Every candle has traded volume.  The pair is *)
(* the leader, whose trend is the risk regime of all; the other pairs      *)
(* differ in nothing but their prices, and breadth, a mean over the pairs, *)
(* is left out.                                                            *)
(***************************************************************************)
EXTENDS SmcZones, SequencesExt

CONSTANTS
  Frames,      \* timeframes with candles
  Pollers,     \* RestPoller.run loops alive: two after a restart of the feeds
  Bars,        \* open, high, low, close a candle may have, per timeframe
  None,
  Limit,       \* candles a request asks for (20)
  Kept,        \* MAX_KLINES_PER_TF (200)
  FlowCandles, \* lookback of refresh_flow (3)
  MaxStream,   \* bound: candles the WebSocket delivers, per timeframe
  LastCandle   \* bound: candles the exchange makes, per timeframe

Bar == [open : Nat, high : Nat, low : Nat, close : Nat]
NoTs == 0
AnyBar == UNION {Bars[f] : f \in Frames}

ASSUME ParameterAssumption ==
  /\ Bars \in [Frames -> SUBSET Bar] /\ Frames \subseteq {"5m", "15m", "1h"}
  /\ {Limit, Kept, FlowCandles} \subseteq Nat \ {0}
  /\ LastCandle \in [Frames -> Nat \ {0}]
  /\ MaxStream \in [Frames -> Nat]
  /\ None \notin Frames /\ None \notin Pollers

VARIABLES
  made,     \* per timeframe: the exchange's candles, the last one forming
  answer,   \* per poller: the request it awaits the answer of, or None
  busy,     \* the poller dispatching its candles, or None
  klines,   \* ctx.klines
  ema,      \* ema_15m and ema_1h: the closes they were computed from
  slope,    \* ema_slope: the averages compared
  flow,     \* the bars behind flow_delta and flow_volume
  regime,   \* risk_regime: the averages compared
  zones,    \* SMCZoneCache._zones of the pair, and the timeframe they are of
  heard,    \* bound, history: candles of the timeframe the stream has delivered
  stale     \* history: the last candle handled was not final

feeds == <<made, answer, busy>>
context == <<klines, ema, slope, flow, regime, zones>>
vars == <<feeds, context, heard, stale>>

Init ==
  /\ made \in [Frames -> {<<b>> : b \in AnyBar}] /\ \A f \in Frames : made[f][1] \in Bars[f]
  /\ answer = [p \in Pollers |-> None] /\ busy = None
  /\ klines = [f \in Frames |-> <<>>]
  /\ ema = [f \in Frames |-> <<>>] /\ slope = <<>> /\ flow = <<>> /\ regime = <<>>
  /\ zones = [frame |-> None, set |-> {}]
  /\ heard = [f \in Frames |-> 0] /\ stale = [f \in Frames |-> FALSE]

-----------------------------------------------------------------------------
(* ContextStore.append_kline.                                               *)

\* Where a candle stands in the time order of the window, ties by position:
\* list.sort is stable and a candle without ts counts as 0.
Rank(w, i) ==
  Cardinality({j \in DOMAIN w : w[j].ts < w[i].ts \/ (w[j].ts = w[i].ts /\ j <= i)})
SortedByTs(w) == [r \in DOMAIN w |-> w[CHOOSE i \in DOMAIN w : Rank(w, i) = r]]

\* The position of the candle with this open time, or none.
Positions_LastOnly(w, ts) == {i \in {Len(w)} \ {0} : w[i].ts = ts} \* seeded defect
Positions(w, ts) == {i \in DOMAIN w : w[i].ts = ts}

\* A new candle goes to the end; the window is sorted when the candle before
\* it is later.
Ordered_Unsorted(w) == w \* seeded defect
Ordered(w) ==
  IF Len(w) > 1 /\ w[Len(w) - 1].ts > w[Len(w)].ts THEN SortedByTs(w) ELSE w

Inserted(w, k) ==
  IF k.ts = NoTs THEN Append(w, k)
  ELSE IF Positions(w, k.ts) = {} THEN Ordered(Append(w, k))
  ELSE [w EXCEPT ![CHOOSE i \in Positions(w, k.ts) :
                     \A j \in Positions(w, k.ts) : j <= i] = k]

Trimmed_None(w) == w \* seeded defect
Trimmed(w) == IF Len(w) > Kept THEN SubSeq(w, Len(w) - Kept + 1, Len(w)) ELSE w

AppendKline(w, k) == Trimmed(Inserted(w, k))

-----------------------------------------------------------------------------
(* AlphaEngine.on_kline.                                                    *)

Barred(w) == [i \in DOMAIN w |-> w[i].bar]
Closes(w) == [i \in DOMAIN w |-> w[i].bar.close]
LastOf(s, n) == IF Len(s) > n THEN SubSeq(s, Len(s) - n + 1, Len(s)) ELSE s
FinalBars(w) ==
  FoldLeft(LAMBDA bars, k : IF k.final THEN Append(bars, k.bar) ELSE bars, <<>>, w)

\* refresh_flow: the last final candles, wherever they stand.
RecentFlow(w) == LastOf(FinalBars(w), FlowCandles)

\* refresh_indicators: whole window, forming candles included.  The trend is
\* kept until both averages are live.
Averages(averages, f, w) == [averages EXCEPT ![f] = Closes(w)]
BothLive(averages) ==
  {"15m", "1h"} \subseteq Frames /\ \A f \in {"15m", "1h"} : averages[f] # <<>>
Trend(averages, old) ==
  IF BothLive(averages) THEN <<averages["15m"], averages["1h"]>> ELSE old

\* The indicators and the zones after a final candle.  The zones of a pair are
\* replaced whole: those of another timeframe are gone.
Refreshed(f, w) ==
  /\ ema' = IF f \in {"15m", "1h"} THEN Averages(ema, f, w) ELSE ema
  /\ slope' = Trend(ema', slope)
  /\ flow' = IF f = "15m" THEN RecentFlow(w) ELSE flow
  /\ regime' = IF f = "15m" THEN Trend(ema', regime) ELSE regime
  /\ zones' = IF Enough(w) THEN [frame |-> f, set |-> Zones(Barred(w))] ELSE zones

Untouched == UNCHANGED <<ema, slope, flow, regime, zones>>

\* Seeded defect: a candle the window has already is not computed from again.
OnKline_SkipKnown(f, k) ==
  /\ klines' = [klines EXCEPT ![f] = AppendKline(@, k)]
  /\ IF k.final /\ Positions(klines[f], k.ts) = {}
       THEN Refreshed(f, klines'[f]) ELSE Untouched
  /\ stale' = [stale EXCEPT ![f] = ~k.final]
OnKline(f, k) ==
  /\ klines' = [klines EXCEPT ![f] = AppendKline(@, k)]
  /\ IF k.final THEN Refreshed(f, klines'[f]) ELSE Untouched
  /\ stale' = [stale EXCEPT ![f] = ~k.final]

-----------------------------------------------------------------------------
(* The exchange.                                                            *)

\* A trade moves the forming candle.
Trade(f) ==
  /\ busy = None
  /\ \E b \in Bars[f] : made' = [made EXCEPT ![f][Len(made[f])] = b]
  /\ UNCHANGED <<answer, busy, context, heard, stale>>

Candle(f, t, ts, final) == [of |-> t, ts |-> ts, bar |-> made[f][t], final |-> final]

Streamed(f) == heard[f] < MaxStream[f] /\ heard' = [heard EXCEPT ![f] = @ + 1]

\* The next candle opens.  The stream may report the one that closed.
NextCandle(f) ==
  /\ busy = None /\ Len(made[f]) < LastCandle[f]
  /\ \E b \in Bars[f] : made' = [made EXCEPT ![f] = Append(@, b)]
  /\ \/ Streamed(f) /\ OnKline(f, Candle(f, Len(made[f]), NoTs, TRUE))
     \/ UNCHANGED <<context, heard, stale>>
  /\ UNCHANGED <<answer, busy>>

\* The stream reports the forming candle: parse_kline returns it, too.
StreamForming(f) ==
  /\ busy = None /\ Streamed(f)
  /\ OnKline(f, Candle(f, Len(made[f]), NoTs, FALSE))
  /\ UNCHANGED feeds

-----------------------------------------------------------------------------
(* RestPoller._poll_klines: the request runs on another thread.             *)

\* The exchange answers with its last candles as they are now.
Fetch(p) ==
  /\ busy = None /\ answer[p] = None
  /\ \E f \in Frames :
       answer' = [answer EXCEPT ![p] =
         [frame |-> f,
          candles |-> LastOf([t \in DOMAIN made[f] |-> Candle(f, t, t, TRUE)], Limit)]]
  /\ UNCHANGED <<made, busy, context, heard, stale>>

\* The request fails or takes longer than the timeout: its answer is dropped.
Miss(p) ==
  /\ busy = None /\ answer[p] # None
  /\ answer' = [answer EXCEPT ![p] = None]
  /\ UNCHANGED <<made, busy, context, heard, stale>>

\* One candle of the answer is handled.  on_kline never suspends, so nothing
\* else runs until the last one is.
Dispatch(p) ==
  /\ busy \in {None, p} /\ answer[p] # None
  /\ OnKline(answer[p].frame, Head(answer[p].candles))
  /\ LET rest == Tail(answer[p].candles) IN
       IF rest = <<>>
         THEN answer' = [answer EXCEPT ![p] = None] /\ busy' = None
         ELSE answer' = [answer EXCEPT ![p].candles = rest] /\ busy' = p
  /\ UNCHANGED <<made, heard>>

Next ==
  \/ \E f \in Frames : Trade(f) \/ NextCandle(f) \/ StreamForming(f)
  \/ \E p \in Pollers : Fetch(p) \/ Miss(p) \/ Dispatch(p)
Spec == Init /\ [][Next]_vars

-----------------------------------------------------------------------------
(* Properties.                                                              *)

Kline == [of : Nat \ {0}, ts : Nat, bar : AnyBar, final : BOOLEAN]
Request == [frame : Frames, candles : Seq(Kline)]

\* Every variable has its type, a window is never longer than Kept, and every
\* zone has room for a price.
TypeOK ==
  /\ made \in [Frames -> Seq(AnyBar)]
  /\ \A f \in Frames : Len(made[f]) \in 1..LastCandle[f]
  /\ answer \in [Pollers -> Request \union {None}]
  /\ \A p \in Pollers : answer[p] # None => answer[p].candles # <<>>
  /\ busy \in Pollers \union {None}
  /\ klines \in [Frames -> Seq(Kline)]
  /\ \A f \in Frames : Len(klines[f]) <= Kept
  /\ ema \in [Frames -> Seq(Nat)]
  /\ flow \in Seq(AnyBar)
  /\ zones.frame \in Frames \union {None}
  /\ \A z \in zones.set : z.kind \in Kinds /\ z.bias \in Biases /\ z.lo < z.hi
  /\ heard \in [Frames -> Nat] /\ stale \in [Frames -> BOOLEAN]

\* Overlapping requests, late answers, the cap and the stream between them: a
\* candle with an open time is in the window once (append_kline).
TimedOnce ==
  \A f \in Frames : \A i, j \in DOMAIN klines[f] :
    (klines[f][i].ts = klines[f][j].ts /\ klines[f][i].ts # NoTs) => i = j

\* While the stream is silent the window is in the order of time, though a
\* late answer may bring candles older than those it has.
OrderedWhenPolled ==
  \A f \in Frames : heard[f] = 0 =>
    \A i, j \in DOMAIN klines[f] : i < j => klines[f][i].ts < klines[f][j].ts

\* What the engine scores by is computed from the window as it is, the candle
\* still forming included, unless a forming candle of the stream came last: the
\* averages, the flow, and the zones of the timeframe that was refreshed last.
IndicatorsCurrent ==
  \A f \in Frames : (klines[f] # <<>> /\ ~stale[f]) =>
    /\ f \in {"15m", "1h"} => ema[f] = Closes(klines[f])
    /\ f = "15m" => flow = RecentFlow(klines[f])
    /\ (zones.frame = f /\ Enough(klines[f])) => zones.set = Zones(Barred(klines[f]))

\* What append_kline promises (context.py:104-108): the two feeds are safely
\* redundant, so no candle of the exchange is twice in a window.
EachCandleOnce ==
  \A f \in Frames : \A i, j \in DOMAIN klines[f] :
    klines[f][i].of = klines[f][j].of => i = j
=============================================================================
