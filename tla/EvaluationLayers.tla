---------------------------- MODULE EvaluationLayers ----------------------------
(***************************************************************************)
(* The six evaluation layers of a run and the promotion rule               *)
(* (evaluation/layers.py), as operators on what the ledger holds: the row  *)
(* of the run, its trades in closing order, its rejections per gate.       *)
(*                                                                         *)
(* Amounts are integers.  A notional is counted so that the fee expected   *)
(* on it (2 + 4 basis points) is one unit of money per unit of notional.   *)
(* A layer has one verdict, with one exception: the deflated Sharpe        *)
(* probability is real-valued, so where the sample does not decide it the  *)
(* verdict of the statistical layer is any of three.                       *)
(***************************************************************************)
EXTENDS Integers, Sequences, SequencesExt

CONSTANTS
  Gates,     \* admission gates, "warmup" among them
  MinStats,  \* MIN_TRADES_FOR_STATS
  MinRobust, \* MIN_TRADES_FOR_ROBUSTNESS
  GateFloor  \* rejections below which no gate counts as dominant (100)

ASSUME LayerAssumption ==
  {MinStats, MinRobust, GateFloor} \subseteq Nat /\ MinRobust > 1 /\ IsFiniteSet(Gates)

Verdicts == {"pass", "warn", "fail", "insufficient"}

Total(s) == FoldLeft(LAMBDA sum, t : sum + t.net, 0, s)
Gross(s) == FoldLeft(LAMBDA sum, t : sum + t.gross, 0, s)
Fees(s) == FoldLeft(LAMBDA sum, t : sum + t.fee, 0, s)
Count(s, Holds(_)) == Len(SelectSeq(s, Holds))
Abs(x) == IF x < 0 THEN -x ELSE x

-----------------------------------------------------------------------------
(* L0, integrity.  Trade ids are fresh and a trade closes after it opens:   *)
(* the two checks on them are left out.                                     *)

FeeMismatch(t) ==
  t.notional > 0 /\ (t.fee > 3 * t.notional \/ 10 * t.fee < 3 * t.notional)
NotBalanced(t) == t.gross - t.fee # t.net
Phantom(t) == t.notional <= 0

\* The count of phantom fills is looked at last and overwrites the verdict:
\* a few of them turn a failure found before into a warning.
Integrity(s) ==
  IF s = <<>> THEN "insufficient"
  ELSE IF Count(s, Phantom) > 0
       THEN IF 10 * Count(s, Phantom) > Len(s) THEN "fail" ELSE "warn"
  ELSE IF Count(s, FeeMismatch) + Count(s, NotBalanced) > 0 THEN "fail" ELSE "pass"

-----------------------------------------------------------------------------
(* L1, execution.                                                           *)

Persistent == Gates \ {"warmup"}
Rejected(rejs, S) == MapThenSumSet(LAMBDA g : rejs[g], S)
\* One gate owns more than num/den of the rejections that are not warmup.
Dominant(rejs, num, den) ==
  LET total == Rejected(rejs, Persistent)
  IN total > GateFloor /\ \E g \in Persistent : den * rejs[g] > num * total

Execution(row, rejs) ==
  IF \/ row.ticks = 0
     \/ Dominant(rejs, 95, 100) /\ row.opens = 0
     \/ row.opens = 0 /\ row.hours > 1
     \/ row.opens > 0 /\ row.closes = 0 /\ row.hours > 2
     \/ row.status = "crashed"
  THEN "fail"
  ELSE IF Dominant(rejs, 90, 100) THEN "warn" ELSE "pass"

-----------------------------------------------------------------------------
(* L2, statistical: identical results have no variance, and a mean that is  *)
(* not positive has a Sharpe probability of at most one half.               *)

Statistical(s) ==
  IF Len(s) < MinStats THEN {"insufficient"}
  ELSE IF (\A i \in DOMAIN s : s[i].net = s[1].net) \/ Total(s) <= 0 THEN {"fail"}
  ELSE {"pass", "warn", "fail"}

(* L3, economic.                                                            *)

Economic(s) ==
  IF s = <<>> THEN "insufficient"
  ELSE IF Total(s) <= 0 THEN "fail"
  ELSE IF 2 * Fees(s) > Abs(Gross(s)) THEN "warn" ELSE "pass"

(* L4, robustness: the halves of the run, one lucky trade, one lucky pair.  *)

OnPair(s, p) == SelectSeq(s, LAMBDA t : t.pair = p)

Robustness(s) ==
  LET mid == Len(s) \div 2
      first == Total(SubSeq(s, 1, mid))
      second == Total(SubSeq(s, mid + 1, Len(s)))
      total == Total(s)
  IN IF Len(s) < MinRobust THEN "insufficient"
     ELSE IF \/ first > 0 /\ second <= 0
             \/ total > 0 /\ \E i \in DOMAIN s : 2 * s[i].net > total
     THEN "fail"
     ELSE IF total > 0 /\ \E i \in DOMAIN s : 10 * Total(OnPair(s, s[i].pair)) > 7 * total
     THEN "warn" ELSE "pass"

-----------------------------------------------------------------------------
(* L5, risk.                                                                *)

Equity(s, start) == [i \in 0..Len(s) |-> start + Total(SubSeq(s, 1, i))]

PeakAfter_NeverRaised(peak, value) == peak \* seeded defect
PeakAfter(peak, value) == IF value > peak THEN value ELSE peak

\* _max_drawdown, compared with num/den: one pass that carries the peak.
DrawdownExceeds(equity, num, den) ==
  FoldLeft(LAMBDA acc, value :
             LET peak == PeakAfter(acc.peak, value)
             IN [peak |-> peak,
                 deep |-> acc.deep \/ (peak > 0 /\ den * (peak - value) > num * peak)],
           [peak |-> equity[0], deep |-> FALSE],
           [i \in 1..Cardinality(DOMAIN equity) |-> equity[i - 1]]).deep

\* The smallest result of the run, compared by its absolute value.
WorstTrade(s) == CHOOSE x \in {s[i].net : i \in DOMAIN s} : \A i \in DOMAIN s : x <= s[i].net

Ruined(s, start) == \E i \in 0..Len(s) : Equity(s, start)[i] <= 0

RiskLayer(s, start) ==
  IF s = <<>> THEN "insufficient"
  ELSE IF \/ Ruined(s, start)
          \/ DrawdownExceeds(Equity(s, start), 1, 2)
          \/ start > 0 /\ 4 * Abs(WorstTrade(s)) > start
  THEN "fail"
  ELSE IF DrawdownExceeds(Equity(s, start), 3, 10) THEN "warn" ELSE "pass"

-----------------------------------------------------------------------------
(* evaluate_run: a failed integrity layer is the whole report.              *)

Reports(row, s, rejs) ==
  IF Integrity(s) = "fail" THEN {[l \in {0} |-> "fail"]}
  ELSE {[l \in 0..5 |->
           CASE l = 0 -> Integrity(s) [] l = 1 -> Execution(row, rejs)
             [] l = 2 -> statistical [] l = 3 -> Economic(s)
             [] l = 4 -> Robustness(s) [] l = 5 -> RiskLayer(s, row.start)] :
        statistical \in Statistical(s)}

Passed_NotFailed(verdict) == verdict # "fail" \* seeded defect
Passed(verdict) == verdict = "pass"

\* Promotion: the first four layers pass and no layer fails.
Promotes(report) ==
  /\ \A l \in 0..3 : l \in DOMAIN report /\ Passed(report[l])
  /\ \A l \in DOMAIN report : report[l] # "fail"
===============================================================================
