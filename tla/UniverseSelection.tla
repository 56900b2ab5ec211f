--------------------------- MODULE UniverseSelection ---------------------------
(***************************************************************************)
(* Which pairs the engine trades: the list taken at boot, the ranking      *)
(* (strategy/universe_ranker.py) and the one refinement after the first    *)
(* score (runtime.py, _refine_pair_list and _run_universe).                *)
(*                                                                         *)
(* Readings are whole numbers of which only the order matters: a component *)
(* is replaced by its percentile over the pairs scored, and a percentile p *)
(* of n pairs is kept as (n - 1) * (2p - 1).  BTC's own change shifts one  *)
(* component of all pairs alike and is left out.  Fewer than three pairs   *)
(* are scored by their raw readings; they are too few to refine from, and  *)
(* their order is not kept.  The restart of the feeds is in                *)
(* EngineLifecycle.                                                        *)
(***************************************************************************)
EXTENDS Integers, Sequences, FiniteSets, SequencesExt

CONSTANTS
  Listing,     \* the exchange's tradeable USDT perpetuals, in its order
  BTC, None,
  Configured,  \* PAIRS of the environment; empty: taken from the ranker
  Readings,    \* what ticker and book of a pair may say
  RawKept,     \* pairs taken at boot (20)
  Batch,       \* symbols per request (50)
  Strong, Weak,\* pairs selected from the two ends (3 and 2)
  MaxUpdates,  \* bound: updates per life of the process
  MaxRestarts  \* bound: kills

\* change: priceChangePercent; dist: last price against the average price;
\* press: bid against ask size, in tenths.  Changes and distances are within the
\* caps of their components, five and two per cent.
Reading == [change : -5..5, dist : Int, press : -10..10]
Listed == Range(Listing)

ASSUME ParameterAssumption ==
  /\ Readings \subseteq Reading /\ Readings # {}
  /\ \A i, j \in DOMAIN Listing : Listing[i] = Listing[j] => i = j
  /\ Listing \in Seq(Listed) /\ None \notin Listed /\ Configured \in SUBSET Listed
  /\ {RawKept, Batch, Strong, Weak} \subseteq Nat \ {0}
  /\ {MaxUpdates, MaxRestarts} \subseteq Nat

VARIABLES
  running,
  file,      \* universe_pairs.json: the persisted list, or None
  allPairs,  \* UniverseRanker.all_pairs
  ranked,    \* UniverseRanker.ranked: pairs, best first
  pairs,     \* settings.pairs
  first,     \* _run_universe's first_update
  updates, restarts, \* bounds
  booted,    \* history: the pairs this life began with
  initial,   \* history: <<the ranking of the first update of this life>>, or <<>>
  scored     \* history: the readings behind `ranked`, by pair

vars == <<running, file, allPairs, ranked, pairs, first, updates, restarts,
          booted, initial, scored>>

-----------------------------------------------------------------------------
(* _score_all_pairs.                                                        *)

Clamp(x, bound) == IF x > bound THEN bound ELSE IF x < -bound THEN -bound ELSE x
NoBook == 0

\* The five raw components of a pair; without a book two of them are 0.
\* weight in per cent |-> value
Components(r, book) ==
  << <<30, -r.change>>,                                          \* rsi
     <<20, -r.dist>>,                                            \* vwap_distance
     <<20, IF book THEN Clamp(r.press - r.change, 10) ELSE NoBook>>, \* cvd_divergence
     <<15, IF book THEN r.press ELSE NoBook>>,                   \* volume_delta
     <<15, r.change>> >>                                         \* btc_relative

\* How many come before position i in a stable ascending sort.
Place_TiesEqual(values, i) == Cardinality({j \in DOMAIN values : values[j] < values[i]})
Place(values, i) ==
  Cardinality({j \in DOMAIN values :
                 values[j] < values[i] \/ (values[j] = values[i] /\ j < i)})

\* _composite_score of the percentiles.
Score(raw, i) ==
  LET n == Len(raw)
      term(c) == raw[i][c][1] * (2 * Place([j \in 1..n |-> raw[j][c][2]], i) - (n - 1))
  IN term(1) + term(2) + term(3) + term(4) + term(5)

Above(score, i, j) == score[i] > score[j] \/ (score[i] = score[j] /\ i < j)
Rank(score, i) == 1 + Cardinality({j \in DOMAIN score : Above(score, j, i)})

\* The scored pairs, best first; equal scores in the order of the list.
Ranking(scoredPairs, raw) ==
  LET score == [i \in DOMAIN raw |-> Score(raw, i)]
      rank == [i \in DOMAIN raw |-> Rank(score, i)]
  IN [r \in DOMAIN raw |-> scoredPairs[CHOOSE i \in DOMAIN raw : rank[i] = r]]

\* The pairs whose batches were answered: the first failure ends the loop.
Answered(list) ==
  {SubSeq(list, 1, n) : n \in {m \in 0..Len(list) : m % Batch = 0} \union {Len(list)}}

-----------------------------------------------------------------------------
(* _refine_pair_list.                                                       *)

Ends(r) == [strong |-> Range(SubSeq(r, 1, Strong)) \ {BTC},
            weak |-> Range(SubSeq(r, Len(r) - Weak + 1, Len(r))) \ {BTC}]

\* One round of the loop that fills the slots BTC has left.
Fill_AnyPair(sel, p) == \* seeded defect: the test for BTC is missing
  IF p \in sel.strong \union sel.weak THEN sel
  ELSE IF Cardinality(sel.strong) < Strong THEN [sel EXCEPT !.strong = @ \union {p}]
  ELSE IF Cardinality(sel.weak) < Weak THEN [sel EXCEPT !.weak = @ \union {p}]
  ELSE sel
Fill(sel, p) ==
  IF p = BTC \/ p \in sel.strong \union sel.weak THEN sel
  ELSE IF Cardinality(sel.strong) < Strong THEN [sel EXCEPT !.strong = @ \union {p}]
  ELSE IF Cardinality(sel.weak) < Weak THEN [sel EXCEPT !.weak = @ \union {p}]
  ELSE sel

\* The second loop of the code has nothing left to add.
Selected(r) ==
  LET sel == FoldLeft(Fill, Ends(r), r) IN sel.strong \union sel.weak

Enough(r) == Len(r) >= Strong + Weak
Refined(r, old) == IF Enough(r) THEN Selected(r) ELSE old

-----------------------------------------------------------------------------
(* Fetching and keeping the list of all pairs.                              *)

Loaded(f) == IF f = None THEN <<>> ELSE f

\* _fetch_active_pairs: the list is written before it is returned, and a
\* failure of any kind returns what is on disk; a write that fails after the
\* open leaves an empty file.
FetchedPairs ==
  {[all |-> Listing, file |-> Listing],
   [all |-> <<>>, file |-> None],
   [all |-> Loaded(file), file |-> file]}

\* AlphaEngine.__init__: the list on disk, else a request that may fail, and
\* the first RawKept of it when no pairs are configured.
BootWith(all) ==
  /\ running' = TRUE /\ allPairs' = all
  /\ pairs' = IF Configured # {} THEN Configured
              ELSE Range(SubSeq(all, 1, IF Len(all) < RawKept THEN Len(all) ELSE RawKept))
  /\ booted' = pairs'
  /\ ranked' = <<>> /\ first' = TRUE /\ updates' = 0
  /\ initial' = <<>> /\ scored' = <<>>

Boot ==
  /\ ~running
  /\ IF Loaded(file) = <<>> /\ Configured = {}
       THEN \E all \in {Listing, <<>>} : BootWith(all)
       ELSE BootWith(Loaded(file))
  /\ UNCHANGED <<file, restarts>>

Init ==
  /\ running = FALSE /\ file = None /\ allPairs = <<>> /\ ranked = <<>> /\ pairs = {}
  /\ first = TRUE /\ updates = 0 /\ restarts = 0
  /\ booted = {} /\ initial = <<>> /\ scored = <<>>

-----------------------------------------------------------------------------
(* _run_universe.                                                           *)

\* first_update is spent by the first score, were it empty.
FirstAfter_Success(r) == first /\ ~Enough(r) \* seeded defect: as its comment says
FirstAfter(r) == FALSE

\* UniverseRanker.update over the list, and the refinement.
ScoreList(list) ==
  \E tickers \in Answered(list), books \in Answered(list) :
    \E reading \in [1..Len(tickers) -> Readings] :
      LET raw == [i \in 1..Len(tickers) |-> Components(reading[i], i <= Len(books))] IN
      /\ ranked' = Ranking(tickers, raw)
      /\ scored' = [i \in 1..Len(tickers) |->
                      [pair |-> tickers[i], reading |-> reading[i], book |-> i <= Len(books)]]
      /\ pairs' = IF first THEN Refined(ranked', pairs) ELSE pairs
      /\ first' = FirstAfter(ranked')
      /\ initial' = IF initial = <<>> THEN <<ranked'>> ELSE initial

Update ==
  /\ running /\ updates < MaxUpdates
  /\ IF allPairs = <<>>
       THEN \E f \in FetchedPairs :
              allPairs' = f.all /\ file' = f.file /\ ScoreList(f.all)
       ELSE UNCHANGED <<allPairs, file>> /\ ScoreList(allPairs)
  /\ updates' = updates + 1
  /\ UNCHANGED <<running, restarts, booted>>

Kill ==
  /\ running /\ restarts < MaxRestarts
  /\ running' = FALSE /\ restarts' = restarts + 1
  /\ UNCHANGED <<file, allPairs, ranked, pairs, first, updates, booted, initial, scored>>

Next == Boot \/ Update \/ Kill
Spec == Init /\ [][Next]_vars

-----------------------------------------------------------------------------
(* Properties.                                                              *)

\* Where the pairs stand in r that are neither BTC nor in S, and the n best of them.
Open(r, S) == {i \in DOMAIN r : r[i] # BTC /\ r[i] \notin S}
Best(r, S, n) == {r[i] : i \in {j \in Open(r, S) : Cardinality({k \in Open(r, S) : k < j}) < n}}

\* Whatever place BTC takes in the ranking, a refined list holds the strongest
\* pairs that may be traded and those of the weakest end: no BTC and no pair
\* twice.  A slot BTC leaves at the weak end goes to the strongest pair left, not
\* to the next weakest; when no other pair was ranked, it stays empty.
SelectionTradeable ==
  \A r \in Range(initial) : Enough(r) =>
    LET weak == Range(SubSeq(r, Len(r) - Weak + 1, Len(r))) \ {BTC}
    IN pairs = weak \union Best(r, weak, Strong + Weak - Cardinality(weak))

\* The list is decided by the first score of a life: when its requests failed,
\* the raw list of the boot is traded until the next start, however well later
\* scores succeed.
FirstScoreDecides ==
  \A r \in Range(initial) : ~Enough(r) => pairs = booted

\* Of two pairs that read the same, the one later in the exchange's list is
\* ranked higher: ties get different percentiles, so where a component is flat
\* (the books failed) the place in the list decides.
TiesRankByPlace ==
  \A i, j \in DOMAIN scored :
    (i < j /\ Len(scored) > 2
       /\ scored[i].reading = scored[j].reading /\ scored[i].book = scored[j].book)
    => \E a, b \in DOMAIN ranked :
         a < b /\ ranked[a] = scored[j].pair /\ ranked[b] = scored[i].pair
=============================================================================
