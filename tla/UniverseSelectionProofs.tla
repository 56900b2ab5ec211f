------------------------- MODULE UniverseSelectionProofs -------------------------
(***************************************************************************)
(* Theorems about UniverseSelection for every listing, every failure of    *)
(* its requests and any number of starts: the first score of a life        *)
(* decides what is traded, ties are ranked by place in the list, and a     *)
(* refined list has no BTC, no pair twice and no slot empty.               *)
(***************************************************************************)
EXTENDS UniverseSelection, FoldLemmas, TLAPS

\* Before the first score of a life nothing has replaced the list of the boot;
\* after it nothing will.
IInv ==
  /\ (initial = <<>>) <=> first
  /\ initial = <<>> => pairs = booted
  /\ initial # <<>> => \E r : initial = <<r>> /\ (~Enough(r) => pairs = booted)

LEMMA InitIInv == Init => IInv
BY DEF Init, IInv

\* One update, whatever its requests returned.
LEMMA ScoreStep ==
  ASSUME NEW list, IInv, ScoreList(list), booted' = booted
  PROVE  IInv'
<1>1. /\ pairs' = IF first THEN Refined(ranked', pairs) ELSE pairs
      /\ first' = FALSE
      /\ initial' = IF initial = <<>> THEN <<ranked'>> ELSE initial
  BY DEF ScoreList, FirstAfter
<1>2. CASE initial = <<>>
  <2>1. initial' = <<ranked'>> /\ initial' # <<>>
    BY <1>1, <1>2
  <2>2. ~Enough(ranked') => pairs' = booted'
    BY <1>1, <1>2 DEF IInv, Refined
  <2> QED
    BY <1>1, <2>1, <2>2 DEF IInv, Enough
<1>3. CASE initial # <<>>
  <2>1. initial' = initial /\ pairs' = pairs /\ ~first
    BY <1>1, <1>3 DEF IInv
  <2> QED
    BY <1>1, <1>3, <2>1 DEF IInv, Enough
<1> QED
  BY <1>2, <1>3

LEMMA NextIInv == IInv /\ [Next]_vars => IInv'
<1> SUFFICES ASSUME IInv, [Next]_vars PROVE IInv'
  OBVIOUS
<1>1. CASE Boot
  <2>1. pairs' = booted' /\ first' = TRUE /\ initial' = <<>>
    BY <1>1 DEF Boot, BootWith
  <2> QED
    BY <2>1 DEF IInv
<1>2. CASE Update
  <2>1. booted' = booted /\ \E list : ScoreList(list)
    BY <1>2 DEF Update
  <2> QED
    BY <2>1, ScoreStep
<1>3. CASE Kill
  BY <1>3 DEF Kill, IInv
<1>4. CASE UNCHANGED vars
  BY <1>4 DEF vars, IInv
<1> QED
  BY <1>1, <1>2, <1>3, <1>4 DEF Next

\* _run_universe spends first_update on the first score, were it empty: a list
\* the first score was too short for is traded until the next start.
THEOREM FirstScoreFinal == Spec => []FirstScoreDecides
<1>1. IInv => FirstScoreDecides
  BY DEF IInv, FirstScoreDecides, Range
<1>2. Spec => []IInv
  BY InitIInv, NextIInv, PTL DEF Spec
<1> QED
  BY <1>1, <1>2, PTL

-----------------------------------------------------------------------------
(* The ranking.                                                             *)

\* Of two equal values the later one has the higher place.
LEMMA PlaceFacts ==
  ASSUME NEW n \in Nat, NEW values, DOMAIN values = 1..n,
         \A k \in 1..n : values[k] \in Int, NEW i \in 1..n
  PROVE  /\ Place(values, i) \in Nat
         /\ \A j \in 1..n : (i < j /\ values[i] = values[j])
              => Place(values, i) + 1 <= Place(values, j)
<1> DEFINE Before(k) == {m \in DOMAIN values :
                           values[m] < values[k] \/ (values[m] = values[k] /\ m < k)}
<1>1. \A k \in 1..n : IsFiniteSet(Before(k))
  <2>1. IsFiniteSet(1..n) /\ \A k \in 1..n : Before(k) \subseteq 1..n
    BY FS_Interval
  <2> HIDE DEF Before
  <2>2. QED BY <2>1, FS_Subset
<1>2. \A k \in 1..n : Place(values, k) = Cardinality(Before(k))
  BY DEF Place
<1>3. \A k \in 1..n : Place(values, k) \in Nat
  <2> HIDE DEF Before
  <2>1. QED BY <1>1, <1>2, FS_CardinalityType
<1>4. ASSUME NEW j \in 1..n, i < j, values[i] = values[j]
      PROVE  Place(values, i) + 1 <= Place(values, j)
  <2>1. Before(i) \union {i} \subseteq Before(j) /\ i \notin Before(i)
    BY <1>4
  <2> HIDE DEF Before
  <2>2. /\ Cardinality(Before(i) \union {i}) = Cardinality(Before(i)) + 1
        /\ IsFiniteSet(Before(i) \union {i})
    BY <1>1, <2>1, FS_AddElement
  <2>3. Cardinality(Before(i) \union {i}) <= Cardinality(Before(j))
    BY <1>1, <2>1, FS_Subset
  <2>4. QED BY <1>2, <2>2, <2>3
<1>5. QED BY <1>3, <1>4

LEMMA ComponentTypes ==
  ASSUME NEW r \in Readings, NEW book
  PROVE  LET parts == Components(r, book)
         IN /\ \A c \in 1..5 : parts[c][2] \in Int
            /\ parts[1][1] = 30 /\ parts[2][1] = 20 /\ parts[3][1] = 20
            /\ parts[4][1] = 15 /\ parts[5][1] = 15
<1>1. r.change \in Int /\ r.dist \in Int /\ r.press \in Int
  <2>1. r \in Reading
    BY ParameterAssumption
  <2>2. r.change \in -5..5 /\ r.dist \in Int /\ r.press \in -10..10
    BY <2>1 DEF Reading
  <2>3. QED BY <2>2
<1>2. Clamp(r.press - r.change, 10) \in Int
  BY <1>1 DEF Clamp
<1>3. (IF book THEN r.press ELSE NoBook) \in Int
      /\ (IF book THEN Clamp(r.press - r.change, 10) ELSE NoBook) \in Int
  BY <1>1, <1>2 DEF NoBook
<1>4. QED BY <1>1, <1>3 DEF Components

\* The readings raw is computed from: reading of each pair, and whether it has a book.
Computed(raw, n, reading, book) ==
  /\ raw = [i \in 1..n |-> Components(reading[i], book[i])]
  /\ reading \in [1..n -> Readings]

\* A score is an integer, and of two pairs that read the same the later one
\* scores higher: each of the five components gives it a higher place.
LEMMA ScoreFacts ==
  ASSUME NEW n \in Nat, NEW raw, NEW reading, NEW book, Computed(raw, n, reading, book)
  PROVE  /\ \A i \in 1..n : Score(raw, i) \in Int
         /\ \A i, j \in 1..n : (i < j /\ reading[i] = reading[j] /\ book[i] = book[j])
              => Score(raw, i) < Score(raw, j)
<1> DEFINE value(c) == [j \in 1..n |-> raw[j][c][2]]
           place(c, i) == Place(value(c), i)
<1>1. Len(raw) = n /\ \A i \in 1..n : raw[i] = Components(reading[i], book[i])
  BY DEF Computed
<1>2. \A i \in 1..n : /\ \A c \in 1..5 : raw[i][c][2] \in Int
                      /\ raw[i][1][1] = 30 /\ raw[i][2][1] = 20 /\ raw[i][3][1] = 20
                      /\ raw[i][4][1] = 15 /\ raw[i][5][1] = 15
  <2> SUFFICES ASSUME NEW i \in 1..n
               PROVE  /\ \A c \in 1..5 : raw[i][c][2] \in Int
                      /\ raw[i][1][1] = 30 /\ raw[i][2][1] = 20 /\ raw[i][3][1] = 20
                      /\ raw[i][4][1] = 15 /\ raw[i][5][1] = 15
    OBVIOUS
  <2> DEFINE r == reading[i]  b == book[i]  parts == raw[i]
  <2>1. r \in Readings /\ parts = Components(r, b)
    BY <1>1 DEF Computed
  <2> HIDE DEF r, b, parts
  <2>2. /\ \A c \in 1..5 : parts[c][2] \in Int
        /\ parts[1][1] = 30 /\ parts[2][1] = 20 /\ parts[3][1] = 20
        /\ parts[4][1] = 15 /\ parts[5][1] = 15
    BY <2>1, ComponentTypes
  <2>3. QED BY <2>2 DEF parts
<1>3. \A c \in 1..5 : DOMAIN value(c) = 1..n /\ \A i \in 1..n : value(c)[i] = raw[i][c][2]
  OBVIOUS
<1>4. ASSUME NEW c \in 1..5, NEW i \in 1..n PROVE place(c, i) \in Nat
  <2> HIDE DEF value
  <2>1. QED BY <1>2, <1>3, PlaceFacts
<1>5. ASSUME NEW c \in 1..5, NEW i \in 1..n, NEW j \in 1..n, i < j, raw[i] = raw[j]
      PROVE  place(c, i) + 1 <= place(c, j)
  <2>1. value(c)[i] = value(c)[j]
    BY <1>3, <1>5
  <2> HIDE DEF value
  <2>2. QED BY <1>2, <1>3, <1>5, <2>1, PlaceFacts
<1>6. ASSUME NEW i \in 1..n
      PROVE  Score(raw, i) = 30 * (2 * place(1, i) - (n - 1)) + 20 * (2 * place(2, i) - (n - 1))
               + 20 * (2 * place(3, i) - (n - 1)) + 15 * (2 * place(4, i) - (n - 1))
               + 15 * (2 * place(5, i) - (n - 1))
  BY <1>1, <1>2 DEF Score
<1> HIDE DEF place
<1>7. ASSUME NEW i \in 1..n PROVE Score(raw, i) \in Int
  BY <1>4, <1>6
<1>8. ASSUME NEW i \in 1..n, NEW j \in 1..n, i < j, reading[i] = reading[j], book[i] = book[j]
      PROVE  Score(raw, i) < Score(raw, j)
  <2>1. raw[i] = raw[j]
    BY <1>1, <1>8
  <2>2. \A c \in 1..5 : place(c, i) + 1 <= place(c, j)
                        /\ place(c, i) \in Nat /\ place(c, j) \in Nat
    BY <1>4, <1>5, <1>8, <2>1
  <2>3. QED BY <1>6, <2>2
<1>9. QED BY <1>7, <1>8

\* The order of the ranking is total, so every rank is taken once.
LEMMA RankFacts ==
  ASSUME NEW n \in Nat, NEW score \in [1..n -> Int]
  PROVE  /\ \A i \in 1..n : Rank(score, i) \in 1..n
         /\ \A i, j \in 1..n : Above(score, i, j) => Rank(score, i) < Rank(score, j)
         /\ \A i, j \in 1..n : i # j => Rank(score, i) # Rank(score, j)
         /\ \A r \in 1..n : \E i \in 1..n : Rank(score, i) = r
<1> DEFINE Over(i) == {j \in 1..n : Above(score, j, i)}
           R == [i \in 1..n |-> Rank(score, i)]
<1>1. IsFiniteSet(1..n) /\ Cardinality(1..n) = n
  BY FS_Interval
<1>2. \A i \in 1..n : Over(i) \subseteq 1..n /\ i \notin Over(i)
  BY DEF Above
<1>3. \A i, j \in 1..n : Above(score, i, j) => Over(i) \subseteq Over(j) /\ i \in Over(j)
  BY DEF Above
<1>4. \A i \in 1..n : Rank(score, i) = 1 + Cardinality(Over(i))
  BY DEF Rank
<1>5. \A i, j \in 1..n : i # j => Above(score, i, j) \/ Above(score, j, i)
  BY DEF Above
<1> HIDE DEF Over
<1>6. ASSUME NEW i \in 1..n PROVE IsFiniteSet(Over(i)) /\ Cardinality(Over(i)) \in Nat
  BY <1>1, <1>2, FS_Subset, FS_CardinalityType
<1>7. ASSUME NEW i \in 1..n, NEW j \in 1..n, Above(score, i, j)
      PROVE  Rank(score, i) < Rank(score, j)
  <2>1. Over(i) \union {i} \subseteq Over(j) /\ i \notin Over(i)
    BY <1>2, <1>3, <1>7
  <2>2. /\ Cardinality(Over(i) \union {i}) = Cardinality(Over(i)) + 1
        /\ IsFiniteSet(Over(i) \union {i})
    BY <1>6, <2>1, FS_AddElement
  <2>3. Cardinality(Over(i) \union {i}) <= Cardinality(Over(j))
    BY <1>6, <2>1, FS_Subset
  <2>4. QED BY <1>4, <1>6, <2>2, <2>3
<1>8. ASSUME NEW i \in 1..n PROVE Rank(score, i) \in 1..n
  <2>1. /\ Cardinality(Over(i) \union {i}) = Cardinality(Over(i)) + 1
        /\ Over(i) \union {i} \subseteq 1..n
    BY <1>2, <1>6, FS_AddElement
  <2>2. Cardinality(Over(i) \union {i}) <= n
    BY <1>1, <2>1, FS_Subset
  <2>3. QED BY <1>4, <1>6, <2>1, <2>2
<1>9. ASSUME NEW i \in 1..n, NEW j \in 1..n, i # j PROVE Rank(score, i) # Rank(score, j)
  <2>1. Rank(score, i) \in Int /\ Rank(score, j) \in Int
    BY <1>8
  <2>2. QED BY <1>5, <1>7, <1>9, <2>1
<1>10. ASSUME NEW r \in 1..n PROVE \E i \in 1..n : Rank(score, i) = r
  <2>1. R \in Injection(1..n, 1..n)
    <3>1. R \in [1..n -> 1..n] /\ \A i, j \in 1..n : R[i] = R[j] => i = j
      BY <1>8, <1>9
    <3>2. QED BY <3>1 DEF Injection, IsInjective
  <2>2. R \in Surjection(1..n, 1..n)
    BY <1>1, <2>1, FS_Injection
  <2>3. \E i \in 1..n : R[i] = r
    BY <2>2 DEF Surjection
  <2>4. QED BY <2>3
<1>11. QED BY <1>7, <1>8, <1>9, <1>10

\* r lists the pairs of list once each, the a-th of r being the at[a]-th of list,
\* and a higher score never stands behind a lower one.
ListedBy(at, r, n, list, raw) ==
  /\ at \in [1..n -> 1..n] /\ r = [a \in 1..n |-> list[at[a]]]
  /\ \A a, b \in 1..n : at[a] = at[b] => a = b
  /\ \A i \in 1..n : \E a \in 1..n : at[a] = i
  /\ \A a, b \in 1..n : Score(raw, at[a]) > Score(raw, at[b]) => a < b

LEMMA RankingFacts ==
  ASSUME NEW n \in Nat, NEW raw, DOMAIN raw = 1..n, NEW list,
         \A i \in 1..n : Score(raw, i) \in Int
  PROVE  \E at : ListedBy(at, Ranking(list, raw), n, list, raw)
<1> DEFINE score == [i \in DOMAIN raw |-> Score(raw, i)]
           rank == [i \in DOMAIN raw |-> Rank(score, i)]
           at == [r \in 1..n |-> CHOOSE i \in 1..n : rank[i] = r]
<1>1. score \in [1..n -> Int] /\ \A i \in 1..n : score[i] = Score(raw, i)
  OBVIOUS
<1>2. Ranking(list, raw) = [r \in 1..n |-> list[CHOOSE i \in 1..n : rank[i] = r]]
  BY DEF Ranking
<1> HIDE DEF score
<1>3. /\ \A i \in 1..n : rank[i] \in 1..n
      /\ \A i, j \in 1..n : Above(score, i, j) => rank[i] < rank[j]
      /\ \A i, j \in 1..n : i # j => rank[i] # rank[j]
      /\ \A r \in 1..n : \E i \in 1..n : rank[i] = r
  <2>1. \A i \in 1..n : rank[i] = Rank(score, i)
    OBVIOUS
  <2> HIDE DEF rank
  <2>2. score \in [1..n -> Int]
    BY <1>1
  <2>3. /\ \A i \in 1..n : Rank(score, i) \in 1..n
        /\ \A i, j \in 1..n : Above(score, i, j) => Rank(score, i) < Rank(score, j)
        /\ \A i, j \in 1..n : i # j => Rank(score, i) # Rank(score, j)
        /\ \A r \in 1..n : \E i \in 1..n : Rank(score, i) = r
    BY <2>2, RankFacts
  <2>4. QED BY <2>1, <2>3
<1> HIDE DEF rank
<1>4. \A r \in 1..n : at[r] \in 1..n /\ rank[at[r]] = r
  BY <1>3
<1>5. at \in [1..n -> 1..n] /\ Ranking(list, raw) = [a \in 1..n |-> list[at[a]]]
  BY <1>2, <1>4
<1> HIDE DEF at
<1>6. \A a, b \in 1..n : at[a] = at[b] => a = b
  BY <1>4
<1>7. ASSUME NEW i \in 1..n PROVE \E a \in 1..n : at[a] = i
  <2>1. rank[i] \in 1..n /\ at[rank[i]] \in 1..n /\ rank[at[rank[i]]] = rank[i]
    BY <1>3, <1>4
  <2>2. QED BY <1>3, <2>1
<1>8. ASSUME NEW a \in 1..n, NEW b \in 1..n, Score(raw, at[a]) > Score(raw, at[b])
      PROVE  a < b
  <2>1. Above(score, at[a], at[b])
    BY <1>1, <1>5, <1>8 DEF Above
  <2>2. at[a] \in 1..n /\ at[b] \in 1..n /\ rank[at[a]] = a /\ rank[at[b]] = b
    BY <1>4
  <2>3. rank[at[a]] < rank[at[b]]
    BY <1>3, <2>1, <2>2
  <2>4. QED BY <2>2, <2>3
<1>9. QED BY <1>5, <1>6, <1>7, <1>8 DEF ListedBy

-----------------------------------------------------------------------------
(* A score of the universe, whatever its requests return.                   *)

\* A list without duplicates: the exchange's listing and what is made from it.
Once(list) == list \in Seq(Listed) /\ \A i, j \in DOMAIN list : list[i] = list[j] => i = j

\* The listing is what is kept in memory and on disk, or nothing is.
ListsOK == allPairs \in {Listing, <<>>} /\ file \in {None, Listing}

LEMMA ListsOnce == Once(Listing) /\ Once(<<>>)
BY ParameterAssumption DEF Once

LEMMA AnsweredOnce ==
  ASSUME NEW list, Once(list), NEW tickers \in Answered(list)
  PROVE  Once(tickers)
<1>1. PICK n \in 0..Len(list) : tickers = SubSeq(list, 1, n)
  BY DEF Answered, Once
<1>2. list \in Seq(Listed) /\ Len(list) \in Nat
  BY DEF Once
<1>3. /\ tickers \in Seq(Listed) /\ DOMAIN tickers = 1..n
      /\ \A i \in 1..n : tickers[i] = list[i]
  BY <1>1, <1>2
<1>4. QED BY <1>2, <1>3 DEF Once

\* Whatever was answered, the ranking lists the scored pairs once each, ties by
\* place.
LEMMA ScoreResult ==
  ASSUME NEW list, Once(list), ScoreList(list)
  PROVE  Once(ranked') /\ TiesRankByPlace'
<1>1. PICK tickers \in Answered(list), books \in Answered(list) :
        \E reading \in [1..Len(tickers) -> Readings] :
          /\ ranked' = Ranking(tickers, [i \in 1..Len(tickers) |->
                                           Components(reading[i], i <= Len(books))])
          /\ scored' = [i \in 1..Len(tickers) |->
                          [pair |-> tickers[i], reading |-> reading[i], book |-> i <= Len(books)]]
  BY Zenon DEF ScoreList
<1>reads. PICK reading \in [1..Len(tickers) -> Readings] :
        /\ ranked' = Ranking(tickers, [i \in 1..Len(tickers) |->
                                         Components(reading[i], i <= Len(books))])
        /\ scored' = [i \in 1..Len(tickers) |->
                        [pair |-> tickers[i], reading |-> reading[i], book |-> i <= Len(books)]]
  BY <1>1
<1> DEFINE n == Len(tickers)
           book == [i \in 1..n |-> i <= Len(books)]
           raw == [i \in 1..n |-> Components(reading[i], i <= Len(books))]
<1>2. Once(tickers) /\ n \in Nat /\ DOMAIN tickers = 1..n
  BY AnsweredOnce DEF Once
<1>3. Computed(raw, n, reading, book) /\ DOMAIN raw = 1..n
  BY <1>2 DEF Computed
<1>4. /\ ranked' = Ranking(tickers, raw) /\ DOMAIN scored' = 1..n
      /\ \A i \in 1..n : /\ scored'[i].pair = tickers[i] /\ scored'[i].reading = reading[i]
                         /\ scored'[i].book = book[i]
  BY <1>reads
<1> HIDE DEF book, raw, n
<1>5. /\ \A i \in 1..n : Score(raw, i) \in Int
      /\ \A i, j \in 1..n : (i < j /\ reading[i] = reading[j] /\ book[i] = book[j])
           => Score(raw, i) < Score(raw, j)
  BY <1>2, <1>3, ScoreFacts
<1>6. \E at : ListedBy(at, Ranking(tickers, raw), n, tickers, raw)
  BY <1>2, <1>3, <1>5, RankingFacts
<1>7. PICK at : ListedBy(at, ranked', n, tickers, raw)
  BY <1>4, <1>6
<1>8. Once(ranked')
  <2>1. /\ \A i \in 1..n : tickers[i] \in Listed
        /\ \A i, j \in 1..n : tickers[i] = tickers[j] => i = j
    <3>1. /\ tickers \in Seq(Listed) /\ DOMAIN tickers = 1..n
          /\ \A i, j \in DOMAIN tickers : tickers[i] = tickers[j] => i = j
      BY <1>2 DEF Once
    <3>2. \A s \in Seq(Listed) : \A i \in DOMAIN s : s[i] \in Listed
      OBVIOUS
    <3>3. \A i \in DOMAIN tickers : tickers[i] \in Listed
      BY <3>1, <3>2, Zenon
    <3>4. QED BY <3>1, <3>3, Zenon
  <2>2. /\ \A a \in 1..n : at[a] \in 1..n
        /\ ranked' = [a \in 1..n |-> tickers[at[a]]]
        /\ \A a, b \in 1..n : at[a] = at[b] => a = b
    BY <1>7 DEF ListedBy
  <2>3. ranked' \in Seq(Listed) /\ DOMAIN ranked' = 1..n
    BY <1>2, <2>1, <2>2
  <2>4. \A a, b \in 1..n : ranked'[a] = ranked'[b] => a = b
    BY <2>1, <2>2
  <2>5. QED BY <2>3, <2>4 DEF Once
<1>9. ASSUME NEW i \in 1..n, NEW j \in 1..n, i < j, scored'[i].reading = scored'[j].reading,
             scored'[i].book = scored'[j].book
      PROVE  \E a, b \in 1..n : a < b /\ ranked'[a] = scored'[j].pair
                                      /\ ranked'[b] = scored'[i].pair
  <2>1. Score(raw, i) < Score(raw, j) /\ Score(raw, i) \in Int /\ Score(raw, j) \in Int
    BY <1>4, <1>5, <1>9
  <2>2. PICK a \in 1..n, b \in 1..n : at[a] = j /\ at[b] = i
    BY <1>7 DEF ListedBy
  <2>3. a < b
    BY <1>7, <2>1, <2>2 DEF ListedBy
  <2>4. ranked'[a] = tickers[j] /\ ranked'[b] = tickers[i]
    BY <1>7, <2>2 DEF ListedBy
  <2>5. QED BY <1>4, <2>3, <2>4
<1>10. DOMAIN ranked' = 1..n
  BY <1>7 DEF ListedBy
<1>11. TiesRankByPlace'
  <2> SUFFICES ASSUME NEW i \in DOMAIN scored', NEW j \in DOMAIN scored', i < j,
                      scored'[i].reading = scored'[j].reading,
                      scored'[i].book = scored'[j].book
               PROVE  \E a, b \in DOMAIN ranked' : a < b /\ ranked'[a] = scored'[j].pair
                                                         /\ ranked'[b] = scored'[i].pair
    BY DEF TiesRankByPlace
  <2>1. QED BY <1>4, <1>9, <1>10
<1>12. QED BY <1>8, <1>11

\* Every update scores a list without duplicates.
LEMMA UpdateScores ==
  ASSUME ListsOK, Update
  PROVE  ListsOK' /\ \E list : Once(list) /\ ScoreList(list)
<1>1. Loaded(file) \in {Listing, <<>>}
  BY DEF ListsOK, Loaded
<1>2. CASE allPairs = <<>>
  <2>1. PICK f \in FetchedPairs : allPairs' = f.all /\ file' = f.file /\ ScoreList(f.all)
    BY <1>2 DEF Update
  <2>2. f.all \in {Listing, <<>>} /\ f.file \in {None, Listing}
    BY <1>1 DEF FetchedPairs, ListsOK
  <2>3. QED BY <2>1, <2>2, ListsOnce DEF ListsOK
<1>3. CASE allPairs # <<>>
  BY <1>3, ListsOnce DEF Update, ListsOK
<1>4. QED BY <1>2, <1>3

LEMMA ListsKept == ListsOK /\ [Next]_vars => ListsOK'
<1> SUFFICES ASSUME ListsOK, [Next]_vars PROVE ListsOK'
  OBVIOUS
<1>1. CASE Boot
  BY <1>1 DEF Boot, BootWith, ListsOK, Loaded
<1>2. CASE Update
  BY <1>2, UpdateScores
<1>3. CASE Kill \/ UNCHANGED vars
  BY <1>3 DEF Kill, vars, ListsOK
<1>4. QED BY <1>1, <1>2, <1>3 DEF Next

\* Ties get different percentiles, so of two pairs that read the same the later
\* one of the list is always ranked above.
THEOREM TiesByPlace == Spec => []TiesRankByPlace
<1>1. Init => ListsOK /\ TiesRankByPlace
  BY DEF Init, ListsOK, TiesRankByPlace
<1>2. ListsOK /\ TiesRankByPlace /\ [Next]_vars => TiesRankByPlace'
  <2> SUFFICES ASSUME ListsOK, TiesRankByPlace, [Next]_vars PROVE TiesRankByPlace'
    OBVIOUS
  <2>1. CASE Boot
    <3>1. scored' = <<>>
      BY <2>1 DEF Boot, BootWith
    <3>2. QED BY <3>1 DEF TiesRankByPlace
  <2>2. CASE Update
    BY <2>2, UpdateScores, ScoreResult
  <2>3. CASE Kill \/ UNCHANGED vars
    <3>1. scored' = scored /\ ranked' = ranked
      BY <2>3 DEF Kill, vars
    <3>2. QED BY <3>1 DEF TiesRankByPlace
  <2>4. QED BY <2>1, <2>2, <2>3 DEF Next
<1>3. QED BY <1>1, <1>2, ListsKept, PTL DEF Spec

-----------------------------------------------------------------------------
(* The first places of a set of indices.                                    *)

\* How many elements of T come before i, and the first m elements of T as far as
\* they come before i.
Earlier(T, i) == Cardinality({k \in T : k < i})
Firsts(T, m, i) == {k \in T : k < i /\ Earlier(T, k) < m}

LEMMA EarlierFacts ==
  ASSUME NEW n \in Nat, NEW T \in SUBSET (1..n), NEW i \in 1..(n + 1)
  PROVE  /\ Earlier(T, i) \in Nat /\ Earlier(T, i) <= i - 1
         /\ i \in T => Earlier(T, i + 1) = Earlier(T, i) + 1
         /\ i \notin T => Earlier(T, i + 1) = Earlier(T, i)
<1> DEFINE E(j) == {k \in T : k < j}
<1>0. \A k \in T : k \in Int /\ 1 <= k /\ (k < i + 1 <=> k < i \/ k = i) /\ (k < i => k <= i - 1)
  OBVIOUS
<1>1. /\ IsFiniteSet(1..(i - 1)) /\ Cardinality(1..(i - 1)) = i - 1
      /\ E(i) \in SUBSET (1..(i - 1))
  <2>1. i - 1 \in Int /\ 1 \in Int /\ (IF 1 > i - 1 THEN 0 ELSE i - 1 - 1 + 1) = i - 1
    OBVIOUS
  <2>2. \A k \in E(i) : k \in 1..(i - 1)
    BY <1>0
  <2>3. IsFiniteSet(1..(i - 1)) /\ Cardinality(1..(i - 1)) = i - 1
    BY <2>1, FS_Interval
  <2>4. QED BY <2>2, <2>3
<1>2. /\ i \in T => E(i + 1) = E(i) \union {i}
      /\ i \notin T => E(i + 1) = E(i)
      /\ i \notin E(i)
  <2>1. \A k : k \in E(i + 1) <=> k \in E(i) \/ (k = i /\ i \in T)
    BY <1>0
  <2>2. i \notin E(i)
    OBVIOUS
  <2> HIDE DEF E
  <2>3. QED BY <2>1, <2>2
<1> HIDE DEF E
<1>3. IsFiniteSet(E(i)) /\ Cardinality(E(i)) <= i - 1 /\ Cardinality(E(i)) \in Nat
  BY <1>1, FS_Subset, FS_CardinalityType
<1>4. Cardinality(E(i) \union {i}) = Cardinality(E(i)) + 1
  BY <1>2, <1>3, FS_AddElement
<1>5. QED BY <1>2, <1>3, <1>4 DEF Earlier, E

\* There are m of them, or all there are.
LEMMA FirstsCount ==
  ASSUME NEW n \in Nat, NEW T \in SUBSET (1..n), NEW m \in Nat, NEW i \in 1..(n + 1)
  PROVE  /\ IsFiniteSet(Firsts(T, m, i)) /\ Firsts(T, m, i) \subseteq T
         /\ Cardinality(Firsts(T, m, i)) = IF Earlier(T, i) < m THEN Earlier(T, i) ELSE m
<1> DEFINE F(j) == Firsts(T, m, j)
           c(j) == Earlier(T, j)
           Good == {k \in 0..n : Cardinality(F(k + 1)) = IF c(k + 1) < m THEN c(k + 1) ELSE m}
<1>1. \A j \in 1..(n + 1) : F(j) \subseteq T /\ IsFiniteSet(F(j))
  <2>1. \A j \in 1..(n + 1) : F(j) \subseteq T
    BY DEF Firsts
  <2> HIDE DEF F
  <2>2. IsFiniteSet(1..n)
    BY FS_Interval
  <2>3. IsFiniteSet(T)
    BY <2>2, FS_Subset
  <2>4. QED BY <2>1, <2>3, FS_Subset
<1>2. 0 \in Good
  <2>0. \A k \in T : ~(k < 1)
    OBVIOUS
  <2>1. F(1) = {} /\ {k \in T : k < 1} = {}
    BY <2>0 DEF Firsts
  <2>2. Cardinality(F(1)) = 0 /\ c(1) = 0
    BY <2>1, FS_EmptySet DEF Earlier
  <2> HIDE DEF F, c
  <2>3. QED BY <2>2
<1>3. ASSUME NEW k \in 1..n, k - 1 \in Good PROVE k \in Good
  <2>1. /\ (k \in T /\ c(k) < m) => F(k + 1) = F(k) \union {k}
        /\ ~(k \in T /\ c(k) < m) => F(k + 1) = F(k)
        /\ k \notin F(k)
    <3>1. \A j \in T : (j < k + 1 <=> j < k \/ j = k) /\ ~(k < k)
      OBVIOUS
    <3>2. QED BY <3>1 DEF Firsts
  <2>2. /\ c(k) \in Nat
        /\ k \in T => c(k + 1) = c(k) + 1
        /\ k \notin T => c(k + 1) = c(k)
    BY EarlierFacts
  <2>3. IsFiniteSet(F(k)) /\ k - 1 + 1 = k
    BY <1>1
  <2> HIDE DEF F, c
  <2>4. Cardinality(F(k)) = IF c(k) < m THEN c(k) ELSE m
    BY <1>3, <2>3
  <2>5. Cardinality(F(k) \union {k}) = Cardinality(F(k)) + 1
    BY <2>1, <2>3, FS_AddElement
  <2>6. Cardinality(F(k + 1)) = IF c(k + 1) < m THEN c(k + 1) ELSE m
    BY <2>1, <2>2, <2>4, <2>5
  <2>7. QED BY <2>6
<1>4. 0..n \subseteq Good
  <2> HIDE DEF Good
  <2>1. QED BY <1>2, <1>3, PrefixInduction
<1>5. i - 1 \in Good
  <2>1. i - 1 \in 0..n
    OBVIOUS
  <2> HIDE DEF Good
  <2>2. QED BY <1>4, <2>1
<1>6. i - 1 + 1 = i
  OBVIOUS
<1> HIDE DEF F, c
<1>7. Cardinality(F(i)) = IF c(i) < m THEN c(i) ELSE m
  BY <1>5, <1>6
<1>8. QED BY <1>1, <1>7 DEF F, c

\* What a list without duplicates has at a set of places is as large as the set.
LEMMA ImageCount ==
  ASSUME NEW r, Once(r), NEW X \in SUBSET DOMAIN r, IsFiniteSet(X)
  PROVE  /\ IsFiniteSet({r[i] : i \in X})
         /\ Cardinality({r[i] : i \in X}) = Cardinality(X)
<1> DEFINE f == [i \in X |-> r[i]]
           Y == {r[i] : i \in X}
<1>1. f \in [X -> Y] /\ \A y \in Y : \E i \in X : f[i] = y
  OBVIOUS
<1>2. \A i, j \in X : f[i] = f[j] => i = j
  BY DEF Once
<1> HIDE DEF f, Y
<1>3. f \in Injection(X, Y) /\ f \in Surjection(X, Y)
  BY <1>1, <1>2 DEF Injection, IsInjective, Surjection
<1>4. IsFiniteSet(Y) /\ (Cardinality(Y) = Cardinality(X) <=> f \in Injection(X, Y))
  BY <1>3, FS_Surjection
<1>5. QED BY <1>3, <1>4 DEF Y

-----------------------------------------------------------------------------
(* The selection.                                                           *)

Sides(r) == [strong : SUBSET Range(r), weak : SUBSET Range(r)]
All(sel) == sel.strong \union sel.weak

\* The two sides have no pair in common and no more pairs than slots.
Balanced(sel) ==
  /\ IsFiniteSet(sel.strong) /\ IsFiniteSet(sel.weak) /\ sel.strong \cap sel.weak = {}
  /\ Cardinality(sel.strong) <= Strong /\ Cardinality(sel.weak) <= Weak

\* One round of the loop adds the pair if it may be traded, is not selected
\* yet and a slot is left.
LEMMA FillStep ==
  ASSUME NEW sel, Balanced(sel), sel = [strong |-> sel.strong, weak |-> sel.weak], NEW p
  PROVE  /\ Balanced(Fill(sel, p))
         /\ Fill(sel, p) = [strong |-> Fill(sel, p).strong, weak |-> Fill(sel, p).weak]
         /\ All(Fill(sel, p)) =
              IF p # BTC /\ Cardinality(All(sel)) < Strong + Weak
                THEN All(sel) \union {p} ELSE All(sel)
<1> DEFINE s == sel.strong  w == sel.weak
<1>1. /\ Strong \in Nat /\ Weak \in Nat /\ Cardinality(s) \in Nat /\ Cardinality(w) \in Nat
      /\ Cardinality(s) <= Strong /\ Cardinality(w) <= Weak
      /\ IsFiniteSet(s) /\ IsFiniteSet(w) /\ s \cap w = {}
  BY ParameterAssumption, FS_CardinalityType DEF Balanced
<1>2. Cardinality(All(sel)) = Cardinality(s) + Cardinality(w)
  <2>1. Cardinality(s \union w) = Cardinality(s) + Cardinality(w) - Cardinality({})
    BY <1>1, FS_Union
  <2>2. Cardinality({}) = 0
    BY FS_EmptySet
  <2> HIDE DEF s, w
  <2>3. Cardinality(s \union w) = Cardinality(s) + Cardinality(w)
    BY <1>1, <2>1, <2>2
  <2>4. QED BY <2>3 DEF All, s, w
<1>3. CASE p = BTC \/ p \in s \union w
  <2>1. Fill(sel, p) = sel
    BY <1>3 DEF Fill
  <2>2. p \in s \union w => All(sel) \union {p} = All(sel)
    BY DEF All
  <2>3. QED BY <1>3, <2>1, <2>2
<1>4. CASE ~(p = BTC \/ p \in s \union w) /\ Cardinality(s) < Strong
  <2>1. Fill(sel, p) = [strong |-> s \union {p}, weak |-> w]
    BY <1>4 DEF Fill
  <2>2. IsFiniteSet(s \union {p}) /\ Cardinality(s \union {p}) = Cardinality(s) + 1
    BY <1>1, <1>4, FS_AddElement
  <2>3. (s \union {p}) \cap w = {} /\ (s \union {p}) \union w = (s \union w) \union {p}
    BY <1>1, <1>4
  <2>4. Cardinality(All(sel)) < Strong + Weak /\ p # BTC
    BY <1>1, <1>2, <1>4
  <2>5. Cardinality(s) + 1 <= Strong
    BY <1>1, <1>4
  <2>6. Balanced(Fill(sel, p))
    BY <1>1, <2>1, <2>2, <2>3, <2>5 DEF Balanced
  <2>7. QED BY <2>1, <2>3, <2>4, <2>6 DEF All
<1>5. CASE ~(p = BTC \/ p \in s \union w) /\ ~(Cardinality(s) < Strong) /\ Cardinality(w) < Weak
  <2>1. Fill(sel, p) = [strong |-> s, weak |-> w \union {p}]
    BY <1>5 DEF Fill
  <2>2. IsFiniteSet(w \union {p}) /\ Cardinality(w \union {p}) = Cardinality(w) + 1
    BY <1>1, <1>5, FS_AddElement
  <2>3. s \cap (w \union {p}) = {} /\ s \union (w \union {p}) = (s \union w) \union {p}
    BY <1>1, <1>5
  <2>4. Cardinality(All(sel)) < Strong + Weak /\ p # BTC
    BY <1>1, <1>2, <1>5
  <2>5. Cardinality(w) + 1 <= Weak
    BY <1>1, <1>5
  <2>6. Balanced(Fill(sel, p))
    BY <1>1, <2>1, <2>2, <2>3, <2>5 DEF Balanced
  <2>7. QED BY <2>1, <2>3, <2>4, <2>6 DEF All
<1>6. CASE ~(p = BTC \/ p \in s \union w) /\ ~(Cardinality(s) < Strong) /\ ~(Cardinality(w) < Weak)
  <2>1. Fill(sel, p) = sel
    BY <1>6 DEF Fill
  <2>2. ~(Cardinality(All(sel)) < Strong + Weak)
    BY <1>1, <1>2, <1>6
  <2>3. QED BY <2>1, <2>2
<1>7. QED BY <1>3, <1>4, <1>5, <1>6

\* The pairs of a slice are those at its places.
LEMMA SliceRange ==
  ASSUME NEW n \in Nat, NEW r, Once(r), DOMAIN r = 1..n, n >= Strong + Weak
  PROVE  /\ Range(SubSeq(r, 1, Strong)) = {r[i] : i \in 1..Strong}
         /\ Range(SubSeq(r, Len(r) - Weak + 1, Len(r))) = {r[i] : i \in (n - Weak + 1)..n}
         /\ Range(r) = {r[i] : i \in 1..n}
<1>1. r \in Seq(Listed) /\ Len(r) = n
  BY DEF Once
<1>2. Strong \in Nat \ {0} /\ Weak \in Nat \ {0}
  BY ParameterAssumption
<1>3. Range(SubSeq(r, 1, Strong)) = {r[i] : i \in 1..Strong}
  <2> DEFINE t == SubSeq(r, 1, Strong)
  <2>1. DOMAIN t = 1..Strong /\ \A i \in 1..Strong : t[i] = r[i]
    BY <1>1, <1>2
  <2> HIDE DEF t
  <2>2. QED BY <2>1 DEF Range, t
<1>4. Range(SubSeq(r, Len(r) - Weak + 1, Len(r))) = {r[i] : i \in (n - Weak + 1)..n}
  <2> DEFINE t == SubSeq(r, Len(r) - Weak + 1, Len(r))
  <2>1. DOMAIN t = 1..Weak /\ \A i \in 1..Weak : t[i] = r[n - Weak + i]
    BY <1>1, <1>2
  <2>2. /\ \A i \in 1..Weak : n - Weak + i \in (n - Weak + 1)..n
        /\ \A i \in (n - Weak + 1)..n : i - (n - Weak) \in 1..Weak
                                        /\ n - Weak + (i - (n - Weak)) = i
    BY <1>2
  <2> HIDE DEF t
  <2>3. Range(t) = {t[i] : i \in 1..Weak}
    BY <2>1 DEF Range
  <2>4. ASSUME NEW i \in (n - Weak + 1)..n PROVE r[i] \in Range(t)
    <3>1. i - (n - Weak) \in 1..Weak /\ n - Weak + (i - (n - Weak)) = i
      BY <2>2
    <3>2. t[i - (n - Weak)] = r[i]
      BY <2>1, <3>1
    <3>3. QED BY <2>3, <3>1, <3>2
  <2>5. ASSUME NEW i \in 1..Weak PROVE t[i] \in {r[k] : k \in (n - Weak + 1)..n}
    BY <2>1, <2>2
  <2>6. QED BY <2>3, <2>4, <2>5 DEF t
<1>5. QED BY <1>3, <1>4 DEF Range

\* The loop has a selection after each pair of the ranking.
LEMMA FillLoop ==
  ASSUME NEW n \in Nat, NEW r, Once(r), DOMAIN r = 1..n, n >= Strong + Weak
  PROVE  \E acc \in [0..n -> Sides(r)] :
           /\ acc[0] = Ends(r) /\ Selected(r) = All(acc[n])
           /\ \A k \in 1..n : acc[k] = Fill(acc[k - 1], r[k])
<1> DEFINE pick == LastPick(n)  S == 1..n  V == Sides(r)
           step == [p \in S \X V |-> Fill(p[2], r[p[1]])]
           P(h) == h = [t \in SUBSET S |->
                          IF t = {} THEN Ends(r) ELSE Fill(h[t \ {Max(t)}], r[Max(t)])]
           F == CHOOSE h : P(h)
<1>1. Selected(r) = All(F[S])
  BY DEF Selected, All, FoldLeft, MapThenFoldSet
<1>2. IsFiniteSet(S) /\ Picks(pick, S)
  BY LastPicks
<1>3. Ends(r) \in V
  <2>1. 1..Strong \subseteq 1..n /\ (n - Weak + 1)..n \subseteq 1..n
    BY ParameterAssumption
  <2>2. /\ Range(SubSeq(r, 1, Strong)) \subseteq Range(r)
        /\ Range(SubSeq(r, Len(r) - Weak + 1, Len(r))) \subseteq Range(r)
    BY <2>1, SliceRange
  <2>3. QED BY <2>2 DEF Ends, Sides
<1>4. ASSUME NEW v \in V, NEW i \in S PROVE Fill(v, r[i]) \in V
  <2>1. r[i] \in Range(r)
    BY DEF Range
  <2>2. QED BY <2>1 DEF Fill, Sides
<1>5. \A i \in S, v \in V : step[<<i, v>>] = Fill(v, r[i]) /\ step[<<i, v>>] \in V
  BY <1>4
<1>6. StepsWithin(step, S, V)
  BY <1>5 DEF StepsWithin
<1>7. \A t \in SUBSET S : t # {} => /\ pick[t] = Max(t) /\ Max(t) \in S
                                    /\ t \ {Max(t)} \in SUBSET S
  BY <1>2 DEF LastPick, Picks
<1> HIDE DEF pick, step, S, V
<1>8. \E h : P(h)
  <2>1. PICK h \in [SUBSET S -> V] : Folds(h, S, pick, Ends(r), step)
    BY <1>2, <1>3, <1>6, FoldExists
  <2>2. ASSUME NEW t \in SUBSET S
        PROVE  h[t] = IF t = {} THEN Ends(r) ELSE Fill(h[t \ {Max(t)}], r[Max(t)])
    <3>1. CASE t = {}
      BY <2>1, <3>1 DEF Folds
    <3>2. CASE t # {}
      <4>1. pick[t] = Max(t) /\ Max(t) \in S /\ t \ {Max(t)} \in SUBSET S
        BY <1>7, <3>2
      <4>2. h[t] = step[<<Max(t), h[t \ {Max(t)}]>>]
        BY <2>1, <3>2, <4>1 DEF Folds
      <4>3. QED BY <1>5, <2>1, <3>2, <4>1, <4>2
    <3>3. QED BY <3>1, <3>2
  <2>3. P(h)
    BY <2>1, <2>2
  <2>4. QED BY <2>3
<1>9. P(F)
  <2> HIDE DEF P
  <2>1. QED BY <1>8
<1> HIDE DEF F
<1>10. FoldsWithin(F, S, pick, V, Ends(r), step)
  <2>1. \A t \in SUBSET S :
          F[t] = IF t = {} THEN Ends(r) ELSE Fill(F[t \ {Max(t)}], r[Max(t)])
    BY <1>9
  <2>2. F[{}] = Ends(r)
    BY <2>1
  <2>3. ASSUME NEW t \in SUBSET S, t # {}, F[t \ {pick[t]}] \in V
        PROVE  F[t] = step[<<pick[t], F[t \ {pick[t]}]>>]
    <3>1. pick[t] = Max(t) /\ Max(t) \in S
      BY <1>7, <2>3
    <3>2. step[<<Max(t), F[t \ {Max(t)}]>>] = Fill(F[t \ {Max(t)}], r[Max(t)])
      BY <1>5, <2>3, <3>1
    <3>3. QED BY <2>1, <2>3, <3>1, <3>2
  <2>4. QED BY <2>2, <2>3 DEF FoldsWithin
<1>11. PICK acc \in [0..n -> V] :
         /\ acc[0] = Ends(r) /\ acc[n] = F[1..n]
         /\ \A k \in 1..n : acc[k] = step[<<k, acc[k - 1]>>]
  BY <1>3, <1>6, <1>10, FoldFromLeft DEF pick, S
<1>12. ASSUME NEW k \in 1..n PROVE acc[k] = Fill(acc[k - 1], r[k])
  <2>1. k \in S /\ acc[k - 1] \in V
    BY <1>11 DEF S
  <2>2. QED BY <1>5, <1>11, <2>1
<1>13. acc \in [0..n -> Sides(r)] /\ Selected(r) = All(acc[n])
  BY <1>1, <1>11 DEF V, S
<1>14. QED BY <1>11, <1>12, <1>13

\* A ranking long enough is refined to its weakest pairs and the best that are
\* left, BTC among neither: the pairs the loop meets before the slots are full
\* are the first it may take.
LEMMA SelectionIs ==
  ASSUME NEW n \in Nat, NEW r, Once(r), DOMAIN r = 1..n, n >= Strong + Weak
  PROVE  LET weak == Range(SubSeq(r, Len(r) - Weak + 1, Len(r))) \ {BTC}
         IN Selected(r) = weak \union Best(r, weak, Strong + Weak - Cardinality(weak))
<1> DEFINE tail == {i \in (n - Weak + 1)..n : r[i] # BTC}
           weak == Range(SubSeq(r, Len(r) - Weak + 1, Len(r))) \ {BTC}
           T == Open(r, weak)
           slots == Strong + Weak - Cardinality(weak)
           top(i) == {r[k] : k \in Firsts(T, slots, i)}
<1>1. Strong \in Nat \ {0} /\ Weak \in Nat \ {0} /\ Strong + Weak <= n
  BY ParameterAssumption
<1>2. weak = {r[i] : i \in tail} /\ tail \in SUBSET (1..n)
  BY <1>1, SliceRange
<1>3. IsFiniteSet(weak) /\ Cardinality(weak) \in Nat /\ Cardinality(weak) <= Weak
  <2>1. IsFiniteSet((n - Weak + 1)..n) /\ Cardinality((n - Weak + 1)..n) = Weak
    BY <1>1, FS_Interval
  <2>2. IsFiniteSet(tail) /\ Cardinality(tail) <= Weak
    <3>1. tail \subseteq (n - Weak + 1)..n
      OBVIOUS
    <3> HIDE DEF tail
    <3>2. QED BY <2>1, <3>1, FS_Subset, ZenonT(30)
  <2> HIDE DEF tail, weak
  <2>3. IsFiniteSet(weak) /\ Cardinality(weak) = Cardinality(tail)
    BY <1>2, <2>2, ImageCount
  <2>4. QED BY <2>2, <2>3, FS_CardinalityType
<1>4. slots \in Nat /\ Strong <= slots
  BY <1>1, <1>3
<1>5. /\ T \in SUBSET (1..n)
      /\ \A i \in 1..n : i \in T <=> r[i] # BTC /\ r[i] \notin weak
  BY DEF Open
<1>6. \A i, j \in 1..n : r[i] = r[j] => i = j
  BY DEF Once
<1>7. ASSUME NEW i \in 1..Strong PROVE i \in 1..n /\ r[i] \notin weak
  <2>1. i \in 1..n /\ i \notin tail
    BY <1>1
  <2> HIDE DEF tail, weak
  <2>2. QED BY <1>2, <1>6, <2>1
<1> HIDE DEF tail, weak, T, slots
<1>8. ASSUME NEW i \in 1..(n + 1)
      PROVE  /\ Firsts(T, slots, i) \in SUBSET T /\ top(i) \cap weak = {}
             /\ Cardinality(weak \union top(i)) < Strong + Weak <=> Earlier(T, i) < slots
  <2> DEFINE F == Firsts(T, slots, i)
  <2>1. /\ IsFiniteSet(F) /\ F \subseteq T
        /\ Cardinality(F) = IF Earlier(T, i) < slots THEN Earlier(T, i) ELSE slots
        /\ Earlier(T, i) \in Nat
    BY <1>4, <1>5, FirstsCount, EarlierFacts
  <2>2. F \in SUBSET DOMAIN r /\ \A k \in F : r[k] \notin weak
    BY <1>5, <2>1
  <2> HIDE DEF F
  <2>3. IsFiniteSet({r[k] : k \in F}) /\ Cardinality({r[k] : k \in F}) = Cardinality(F)
    BY <2>1, <2>2, ImageCount
  <2>4. {r[k] : k \in F} \cap weak = {}
    BY <2>2
  <2> DEFINE X == {r[k] : k \in F}
  <2> HIDE DEF X
  <2>5. IsFiniteSet(X) /\ Cardinality(X) = Cardinality(F) /\ weak \cap X = {}
    BY <2>3, <2>4 DEF X
  <2>6. Cardinality(weak \union X) = Cardinality(weak) + Cardinality(X) - Cardinality({})
    BY <1>3, <2>5, FS_Union
  <2>7. Cardinality({}) = 0
    BY FS_EmptySet
  <2>8. Cardinality(weak \union X) = Cardinality(weak) + Cardinality(F)
    BY <1>3, <2>1, <2>5, <2>6, <2>7, <1>4
  <2>9. Cardinality(weak \union X) < Strong + Weak <=> Earlier(T, i) < slots
    BY <1>1, <1>3, <1>4, <2>1, <2>8 DEF slots
  <2>10. top(i) = X
    BY DEF X, F
  <2>11. QED BY <2>1, <2>4, <2>9, <2>10 DEF F, X
<1>9. PICK acc \in [0..n -> Sides(r)] :
        /\ acc[0] = Ends(r) /\ Selected(r) = All(acc[n])
        /\ \A k \in 1..n : acc[k] = Fill(acc[k - 1], r[k])
  BY FillLoop
<1> DEFINE next(k) == IF k < Strong THEN Strong + 1 ELSE k + 1
           Good == {k \in 0..n : Balanced(acc[k]) /\ All(acc[k]) = weak \union top(next(k))}
<1>10. \A i \in 1..Strong : i \in Firsts(T, slots, Strong + 1) <=> r[i] # BTC
  <2>1. TAKE i \in 1..Strong
  <2>2. i \in T <=> r[i] # BTC
    BY <1>5, <1>7
  <2>3. Earlier(T, i) < slots
    <3>1. Earlier(T, i) \in Nat /\ Earlier(T, i) <= i - 1
      BY <1>5, <1>7, EarlierFacts
    <3>2. QED BY <1>1, <1>4, <3>1
  <2>4. i < Strong + 1
    BY <1>1
  <2>5. QED BY <2>2, <2>3, <2>4 DEF Firsts
<1>11. top(Strong + 1) = {r[i] : i \in 1..Strong} \ {BTC}
  <2>1. \A i \in Firsts(T, slots, Strong + 1) : i \in 1..Strong
    <3>1. \A i \in T : i \in Int /\ 1 <= i
      BY <1>5
    <3>2. QED BY <1>1, <3>1 DEF Firsts
  <2>2. QED BY <1>10, <2>1
<1>12. 0 \in Good
  <2>1. Ends(r) = [strong |-> {r[i] : i \in 1..Strong} \ {BTC}, weak |-> weak]
    BY SliceRange DEF Ends, weak
  <2>2. next(0) = Strong + 1
    BY <1>1
  <2>3. acc[0].strong = {r[i] : i \in 1..Strong} \ {BTC} /\ acc[0].weak = weak
    BY <1>9, <2>1
  <2>4. acc[0].strong = top(Strong + 1)
    BY <1>11, <2>3
  <2>5. acc[0].strong \cap acc[0].weak = {}
    <3>1. Strong + 1 \in 1..(n + 1)
      BY <1>1
    <3>2. top(Strong + 1) \cap weak = {}
      BY <1>8, <3>1
    <3> HIDE DEF top
    <3>3. QED BY <2>3, <2>4, <3>2
  <2>6. IsFiniteSet(acc[0].strong) /\ Cardinality(acc[0].strong) <= Strong
    <3> DEFINE X == {i \in 1..Strong : r[i] # BTC}
    <3>1. IsFiniteSet(1..Strong) /\ Cardinality(1..Strong) = Strong
      BY <1>1, FS_Interval
    <3>2. X \in SUBSET (1..Strong) /\ X \in SUBSET DOMAIN r
      BY <1>7
    <3>3. acc[0].strong = {r[i] : i \in X}
      BY <2>3
    <3> HIDE DEF X
    <3>4. IsFiniteSet(X) /\ Cardinality(X) <= Strong
      BY <3>1, <3>2, FS_Subset
    <3>5. IsFiniteSet({r[i] : i \in X}) /\ Cardinality({r[i] : i \in X}) = Cardinality(X)
      BY <3>2, <3>4, ImageCount
    <3>6. QED BY <3>3, <3>4, <3>5
  <2>7. Balanced(acc[0])
    BY <1>3, <2>3, <2>5, <2>6 DEF Balanced
  <2>8. All(acc[0]) = weak \union top(next(0))
    <3> HIDE DEF top, next
    <3>1. QED BY <2>2, <2>3, <2>4 DEF All
  <2> HIDE DEF top, next
  <2>9. QED BY <2>7, <2>8
<1>13. ASSUME NEW k \in 1..n, k - 1 \in Good PROVE k \in Good
  <2> DEFINE old == acc[k - 1]  new == acc[k]
  <2>1. Balanced(old) /\ All(old) = weak \union top(next(k - 1))
    BY <1>13
  <2>2. old = [strong |-> old.strong, weak |-> old.weak] /\ new = Fill(old, r[k])
    <3>1. k - 1 \in 0..n
      OBVIOUS
    <3>2. old \in Sides(r)
      BY <1>9, <3>1
    <3>3. QED BY <1>9, <3>2 DEF Sides
  <2> HIDE DEF old, new
  <2>3. /\ Balanced(new)
        /\ All(new) = IF r[k] # BTC /\ Cardinality(All(old)) < Strong + Weak
                        THEN All(old) \union {r[k]} ELSE All(old)
    BY <2>1, <2>2, FillStep
  <2>4. CASE k <= Strong
    <3>1. next(k - 1) = Strong + 1 /\ next(k) = Strong + 1 /\ k \in 1..Strong
      BY <1>1, <2>4
    <3>2. r[k] # BTC => r[k] \in All(old)
      BY <1>10, <2>1, <3>1
    <3>3. All(new) = All(old)
      BY <2>3, <3>2
    <3>4. QED BY <2>1, <2>3, <3>1, <3>3 DEF new
  <2>5. CASE k > Strong
    <3>1. next(k - 1) = k /\ next(k) = k + 1 /\ k \in 1..(n + 1)
      BY <1>1, <2>5
    <3>2. Cardinality(All(old)) < Strong + Weak <=> Earlier(T, k) < slots
      BY <1>8, <2>1, <3>1
    <3>3. CASE k \in T /\ Earlier(T, k) < slots
      <4>1. Firsts(T, slots, k + 1) = Firsts(T, slots, k) \union {k}
        <5>1. \A j \in T : j < k + 1 <=> j < k \/ j = k
          BY <1>5
        <5>2. QED BY <3>3, <5>1 DEF Firsts
      <4>2. top(k + 1) = top(k) \union {r[k]} /\ r[k] # BTC
        BY <1>5, <3>3, <4>1
      <4> HIDE DEF top
      <4>3. All(new) = All(old) \union {r[k]}
        BY <2>3, <3>2, <3>3, <4>2
      <4>4. All(new) = weak \union top(next(k))
        BY <2>1, <3>1, <4>2, <4>3
      <4>5. QED BY <2>3, <4>4 DEF new
    <3>4. CASE ~(k \in T /\ Earlier(T, k) < slots)
      <4>1. Firsts(T, slots, k + 1) = Firsts(T, slots, k)
        <5>1. \A j \in T : j < k + 1 <=> j < k \/ j = k
          BY <1>5
        <5>2. QED BY <3>4, <5>1 DEF Firsts
      <4>2. k \notin T => r[k] = BTC \/ r[k] \in All(old)
        BY <1>5, <2>1
      <4>3. All(new) = All(old)
        BY <2>3, <3>2, <3>4, <4>2
      <4>4. QED BY <2>1, <2>3, <3>1, <4>1, <4>3 DEF new
    <3>5. QED BY <3>3, <3>4
  <2>6. QED BY <1>1, <2>4, <2>5
<1>14. 0..n \subseteq Good
  <2> HIDE DEF Good
  <2>1. QED BY <1>12, <1>13, PrefixInduction
<1>15. Selected(r) = weak \union top(n + 1)
  <2>1. n \in Good /\ next(n) = n + 1
    BY <1>1, <1>14
  <2>2. QED BY <1>9, <2>1
<1>16. top(n + 1) = Best(r, weak, slots)
  <2>1. \A i \in T : i < n + 1
    BY <1>5
  <2>2. QED BY <2>1 DEF Firsts, Best, Earlier, T
<1>17. QED BY <1>15, <1>16 DEF weak, slots

\* Wherever BTC is ranked, the pairs traded after the first score are the
\* weakest and the strongest that may be, and no slot stays empty that a pair
\* is left for.
THEOREM SelectionIsTradeable == Spec => []SelectionTradeable
<1>1. Init => ListsOK /\ IInv /\ SelectionTradeable
  BY InitIInv DEF Init, ListsOK, SelectionTradeable, Range
<1>2. ListsOK /\ IInv /\ SelectionTradeable /\ [Next]_vars => SelectionTradeable'
  <2> SUFFICES ASSUME ListsOK, IInv, SelectionTradeable, [Next]_vars
               PROVE  SelectionTradeable'
    OBVIOUS
  <2>1. CASE Boot
    <3>1. initial' = <<>>
      BY <2>1 DEF Boot, BootWith
    <3>2. Range(initial') = {}
      BY <3>1 DEF Range
    <3>3. QED BY <3>2 DEF SelectionTradeable
  <2>2. CASE Update
    <3>1. PICK list : Once(list) /\ ScoreList(list)
      BY <2>2, UpdateScores
    <3>2. /\ pairs' = IF first THEN Refined(ranked', pairs) ELSE pairs
          /\ initial' = IF initial = <<>> THEN <<ranked'>> ELSE initial
      BY <3>1 DEF ScoreList
    <3>3. CASE initial = <<>>
      <4>1. initial' = <<ranked'>> /\ pairs' = Refined(ranked', pairs)
        BY <3>2, <3>3 DEF IInv
      <4>2. ASSUME NEW r \in Range(initial'), Enough(r)
            PROVE  LET weak == Range(SubSeq(r, Len(r) - Weak + 1, Len(r))) \ {BTC}
                   IN pairs' = weak \union Best(r, weak, Strong + Weak - Cardinality(weak))
        <5>1. r = ranked' /\ Once(r)
          BY <3>1, <4>1, ScoreResult DEF Range
        <5>2. DOMAIN r = 1..Len(r) /\ Len(r) \in Nat /\ Len(r) >= Strong + Weak
          BY <4>2, <5>1 DEF Once, Enough
        <5>3. pairs' = Selected(r)
          BY <4>1, <4>2, <5>1 DEF Refined
        <5>4. QED BY <5>1, <5>2, <5>3, SelectionIs
      <4>3. QED BY <4>2 DEF SelectionTradeable
    <3>4. CASE initial # <<>>
      <4>1. initial' = initial /\ pairs' = pairs
        BY <3>2, <3>4 DEF IInv
      <4>2. QED BY <4>1 DEF SelectionTradeable
    <3>5. QED BY <3>3, <3>4
  <2>3. CASE Kill \/ UNCHANGED vars
    <3>1. initial' = initial /\ pairs' = pairs
      BY <2>3 DEF Kill, vars
    <3>2. QED BY <3>1 DEF SelectionTradeable
  <2>4. QED BY <2>1, <2>2, <2>3 DEF Next
<1>3. QED BY <1>1, <1>2, ListsKept, InitIInv, NextIInv, PTL DEF Spec
=============================================================================
