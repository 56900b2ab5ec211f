------------------------------ MODULE FoldLemmas ------------------------------
(***************************************************************************)
(* Induction over finite sets and natural numbers in the form the proofs   *)
(* about recursive definitions need it, and what follows for the folds of  *)
(* the community modules: a fold over a finite set satisfies its           *)
(* recursion, a sum does not depend on the order of its terms, a fold over *)
(* a sequence goes through it from the left.                               *)
(*                                                                         *)
(* A step of a fold is a function on pairs <<element, value so far>>, so   *)
(* that these lemmas hold for every fold without an operator parameter.    *)
(***************************************************************************)
EXTENDS FiniteSetsExt, FiniteSetTheorems, TLAPS

\* A set of natural numbers that is not empty has a least element.
LEMMA LeastNatural ==
  ASSUME NEW S, S \subseteq Nat, S # {}
  PROVE  \E n \in S : \A m \in S : n <= m
<1>1. PICK n \in S : \A m \in S : ~(<<m, n>> \in OpToRel(<, Nat))
  BY WFMin, NatLessThanWellFounded, Zenon
<1>2. \A m \in S : ~(m < n)
  BY <1>1, Zenon DEF OpToRel
<1>3. QED
  BY <1>2

\* Induction over the natural numbers, for a set instead of a predicate.
LEMMA NatSetInduction ==
  ASSUME NEW S, 0 \in S, \A n \in Nat : n \in S => n + 1 \in S
  PROVE  Nat \subseteq S
<1> SUFFICES ASSUME Nat \ S # {} PROVE FALSE
  OBVIOUS
<1>1. PICK n \in Nat \ S : \A m \in Nat \ S : n <= m
  BY LeastNatural
<1>2. n # 0 /\ n - 1 \in Nat /\ ~(n <= n - 1)
  BY <1>1
<1>3. n - 1 \in S
  BY <1>1, <1>2
<1>4. n - 1 + 1 = n
  OBVIOUS
<1> QED
  BY <1>1, <1>2, <1>3, <1>4

\* Induction over the subsets of a finite set: a set of them has a minimal one.
LEMMA MinimalSet ==
  ASSUME NEW S, IsFiniteSet(S), NEW T, T \subseteq SUBSET S, T # {}
  PROVE  \E s \in T : \A t \in T : t \subseteq s => t = s
<1>1. IsWellFoundedOn(StrictSubsetOrdering(S), SUBSET S)
  BY FS_StrictSubsetOrderingWellFounded, FS_FiniteSubsetsOfFinite, Zenon
<1>2. PICK s \in T : \A t \in T : ~(<<t, s>> \in StrictSubsetOrdering(S))
  BY <1>1, WFMin, Zenon
<1>3. QED
  BY <1>2 DEF StrictSubsetOrdering

-----------------------------------------------------------------------------
(* Folds over a finite set S whose elements are taken in the order pick.    *)

Picks(pick, S) == \A s \in SUBSET S : s # {} => pick[s] \in s

\* h folds every subset of s.
Folds(h, s, pick, base, step) ==
  \A t \in SUBSET s :
    h[t] = IF t = {} THEN base ELSE step[<<pick[t], h[t \ {pick[t]}]>>]

\* The step stays within V.
StepsWithin(step, S, V) == \A x \in S, v \in V : step[<<x, v>>] \in V

\* Two folds of the same step agree wherever both are defined.
LEMMA FoldsAgree ==
  ASSUME NEW S, IsFiniteSet(S), NEW pick, Picks(pick, S), NEW base, NEW step,
         NEW s \in SUBSET S, NEW r \in SUBSET S, NEW g, NEW h,
         Folds(g, s, pick, base, step), Folds(h, r, pick, base, step)
  PROVE  \A t \in SUBSET (s \cap r) : g[t] = h[t]
<1> DEFINE T == {t \in SUBSET (s \cap r) : g[t] # h[t]}
<1> SUFFICES ASSUME T # {} PROVE FALSE
  OBVIOUS
<1>1. PICK t \in T : \A u \in T : u \subseteq t => u = t
  <2>1. T \subseteq SUBSET S
    OBVIOUS
  <2> HIDE DEF T
  <2> QED BY <2>1, MinimalSet
<1>2. t # {}
  BY <1>1 DEF Folds
<1> DEFINE u == t \ {pick[t]}
<1>3. pick[t] \in t /\ u \subseteq t /\ u # t
  BY <1>1, <1>2 DEF Picks
<1>4. g[u] = h[u]
  BY <1>1, <1>3
<1>5. g[t] = step[<<pick[t], g[u]>>] /\ h[t] = step[<<pick[t], h[u]>>]
  BY <1>1, <1>2 DEF Folds
<1> QED
  BY <1>1, <1>4, <1>5

\* A fold whose step stays within V exists.
LEMMA FoldExists ==
  ASSUME NEW S, IsFiniteSet(S), NEW pick, Picks(pick, S), NEW V, NEW base \in V,
         NEW step, StepsWithin(step, S, V)
  PROVE  \E h \in [SUBSET S -> V] : Folds(h, S, pick, base, step)
<1> DEFINE Approx(s) == {h \in [SUBSET s -> V] : Folds(h, s, pick, base, step)}
           Gaps == {s \in SUBSET S : Approx(s) = {}}
<1> SUFFICES Gaps = {}
  OBVIOUS
<1> SUFFICES ASSUME Gaps # {} PROVE FALSE
  OBVIOUS
<1>1. PICK s \in Gaps : \A t \in Gaps : t \subseteq s => t = s
  <2>1. Gaps \subseteq SUBSET S
    OBVIOUS
  <2> HIDE DEF Gaps
  <2> QED BY <2>1, MinimalSet
<1> DEFINE G == [t \in SUBSET s |-> CHOOSE h : h \in Approx(t)]
           H == [t \in SUBSET s |-> IF t = {} THEN base
                   ELSE step[<<pick[t], G[t \ {pick[t]}][t \ {pick[t]}]>>]]
<1>2. ASSUME NEW t \in SUBSET s, t # s
      PROVE  G[t] \in [SUBSET t -> V] /\ Folds(G[t], t, pick, base, step)
  <2>1. Approx(t) # {}
    BY <1>1, <1>2
  <2>2. G[t] = CHOOSE h : h \in Approx(t)
    OBVIOUS
  <2>3. G[t] \in Approx(t)
    BY <2>1, <2>2
  <2> QED BY <2>3
<1>3. ASSUME NEW t \in SUBSET s, t # {}
      PROVE  /\ pick[t] \in S /\ pick[t] \in t
             /\ t \ {pick[t]} \in SUBSET s /\ t \ {pick[t]} # s
  BY <1>1, <1>3 DEF Picks
<1> HIDE DEF G
<1>4. ASSUME NEW t \in SUBSET s PROVE H[t] \in V
  <2>1. CASE t = {}
    BY <2>1
  <2>2. CASE t # {}
    <3> DEFINE u == t \ {pick[t]}
    <3>1. u \in SUBSET s /\ u # s
      BY <1>3, <2>2
    <3> HIDE DEF u
    <3>2. G[u] \in [SUBSET u -> V]
      BY <1>2, <3>1
    <3>3. G[u][u] \in V
      BY <3>2
    <3> USE DEF u
    <3> QED BY <1>3, <2>2, <3>3 DEF StepsWithin
  <2> QED BY <2>1, <2>2
<1>5. ASSUME NEW t \in SUBSET s, t # s PROVE H[t] = G[t][t]
  <2>1. Folds(G[t], t, pick, base, step)
    BY <1>2, <1>5
  <2>2. CASE t = {}
    BY <2>1, <2>2 DEF Folds
  <2>3. CASE t # {}
    <3> DEFINE u == t \ {pick[t]}
    <3>1. u \in SUBSET s /\ u # s /\ u \in SUBSET t
      BY <1>3, <2>3
    <3>2. Folds(G[u], u, pick, base, step)
      BY <1>2, <3>1
    <3>3. \A v \in SUBSET (t \cap u) : G[t][v] = G[u][v]
      <4> DEFINE g == G[t]  h == G[u]
      <4>1. t \in SUBSET S /\ u \in SUBSET S
        BY <1>1, <3>1
      <4>2. Folds(g, t, pick, base, step) /\ Folds(h, u, pick, base, step)
        BY <2>1, <3>2
      <4> HIDE DEF u, g, h
      <4>3. \A v \in SUBSET (t \cap u) : g[v] = h[v]
        BY <4>1, <4>2, FoldsAgree
      <4> QED BY <4>3 DEF g, h
    <3>4. G[t][u] = G[u][u]
      BY <3>3
    <3>5. G[t][t] = step[<<pick[t], G[t][u]>>]
      BY <2>1, <2>3 DEF Folds
    <3> QED BY <2>3, <3>4, <3>5
  <2> QED BY <2>2, <2>3
<1>6. Folds(H, s, pick, base, step)
  <2> SUFFICES ASSUME NEW t \in SUBSET s
               PROVE  H[t] = IF t = {} THEN base ELSE step[<<pick[t], H[t \ {pick[t]}]>>]
    BY Zenon DEF Folds
  <2>1. CASE t = {}
    BY <2>1
  <2>2. CASE t # {}
    <3>1. H[t \ {pick[t]}] = G[t \ {pick[t]}][t \ {pick[t]}]
      BY <1>3, <1>5, <2>2
    <3> QED BY <2>2, <3>1
  <2> QED BY <2>1, <2>2
<1>7. H \in Approx(s)
  <2>1. H \in [SUBSET s -> V]
    BY <1>4
  <2> HIDE DEF H
  <2> QED BY <1>6, <2>1
<1> QED BY <1>1, <1>7

\* h folds every subset of S as long as its values are in V.
FoldsWithin(h, S, pick, V, base, step) ==
  /\ h[{}] = base
  /\ \A t \in SUBSET S : (t # {} /\ h[t \ {pick[t]}] \in V) =>
       h[t] = step[<<pick[t], h[t \ {pick[t]}]>>]

\* Such a function never leaves V.
LEMMA FoldTyped ==
  ASSUME NEW S, IsFiniteSet(S), NEW pick, Picks(pick, S), NEW V, NEW base \in V,
         NEW step, StepsWithin(step, S, V), NEW h, FoldsWithin(h, S, pick, V, base, step)
  PROVE  Folds(h, S, pick, base, step) /\ \A t \in SUBSET S : h[t] \in V
<1> DEFINE T == {t \in SUBSET S : h[t] \notin V}
<1>1. T = {}
  <2> SUFFICES ASSUME T # {} PROVE FALSE
    OBVIOUS
  <2>1. PICK t \in T : \A u \in T : u \subseteq t => u = t
    <3>1. T \subseteq SUBSET S
      OBVIOUS
    <3> HIDE DEF T
    <3> QED BY <3>1, MinimalSet
  <2>2. t # {} /\ pick[t] \in t /\ pick[t] \in S /\ t \in SUBSET S
    BY <2>1 DEF Picks, FoldsWithin
  <2>3. h[t \ {pick[t]}] \in V
    BY <2>1, <2>2
  <2> QED BY <2>1, <2>2, <2>3 DEF StepsWithin, FoldsWithin
<1>2. \A t \in SUBSET S : h[t] \in V
  BY <1>1
<1>3. \A t \in SUBSET S : t # {} => t \ {pick[t]} \in SUBSET S
  OBVIOUS
<1> QED BY <1>2, <1>3 DEF Folds, FoldsWithin

-----------------------------------------------------------------------------
(* Sums.                                                                    *)

SumOver(f, S) == MapThenSumSet(LAMBDA x : f[x], S)

\* The order in which MapThenSumSet takes the elements, and its step.
AnyPick(S) == [s \in SUBSET S |-> CHOOSE x \in s : TRUE]
AddStep(f, S) == [p \in S \X Int |-> f[p[1]] + p[2]]

IntsOn(f, S) == \A x \in S : f[x] \in Int

LEMMA AnyPicks == \A S : Picks(AnyPick(S), S)
  BY DEF Picks, AnyPick

LEMMA AddSteps ==
  ASSUME NEW S, NEW f, IntsOn(f, S), NEW x \in S, NEW v \in Int
  PROVE  AddStep(f, S)[<<x, v>>] = f[x] + v
  BY DEF AddStep, IntsOn

\* The recursion of MapThenSumSet is one that has a solution.
LEMMA SumFold ==
  ASSUME NEW S, IsFiniteSet(S), NEW f, IntsOn(f, S), NEW r \in SUBSET S
  PROVE  \E h : /\ Folds(h, r, AnyPick(S), 0, AddStep(f, S))
                /\ \A t \in SUBSET r : h[t] \in Int
                /\ SumOver(f, r) = h[r]
<1> DEFINE pick == AnyPick(S)  step == AddStep(f, S)
           any(s) == CHOOSE x \in s : TRUE
           P(h) == h = [s \in SUBSET r |-> IF s = {} THEN 0 ELSE f[any(s)] + h[s \ {any(s)}]]
           F == CHOOSE h : P(h)
<1>1. SumOver(f, r) = F[r]
  BY DEF SumOver, MapThenSumSet, MapThenFoldSet
<1>2. IsFiniteSet(r) /\ Picks(pick, r) /\ StepsWithin(step, r, Int)
  <2>1. IsFiniteSet(r)
    BY FS_Subset
  <2>2. Picks(pick, r)
    BY AnyPicks DEF Picks
  <2>3. StepsWithin(step, r, Int)
    <3> SUFFICES ASSUME NEW x \in r, NEW v \in Int PROVE step[<<x, v>>] \in Int
      BY DEF StepsWithin
    <3>1. step[<<x, v>>] = f[x] + v /\ f[x] \in Int
      BY AddSteps DEF IntsOn
    <3> HIDE DEF step
    <3> QED BY <3>1
  <2> QED BY <2>1, <2>2, <2>3
<1>3. \A s \in SUBSET r : s # {} => /\ pick[s] = any(s) /\ any(s) \in s /\ any(s) \in S
                                    /\ s \ {any(s)} \in SUBSET r
  BY DEF AnyPick
<1>4. \E h : P(h)
  <2>1. PICK h \in [SUBSET r -> Int] : Folds(h, r, pick, 0, step)
    <3>1. 0 \in Int
      OBVIOUS
    <3> HIDE DEF pick, step
    <3> QED BY <1>2, <3>1, FoldExists
  <2>2. ASSUME NEW s \in SUBSET r
        PROVE  h[s] = IF s = {} THEN 0 ELSE f[any(s)] + h[s \ {any(s)}]
    <3>1. CASE s = {}
      BY <2>1, <3>1 DEF Folds
    <3>2. CASE s # {}
      <4>1. h[s] = step[<<any(s), h[s \ {any(s)}]>>]
        BY <1>3, <2>1, <3>2 DEF Folds
      <4>2. h[s \ {any(s)}] \in Int /\ any(s) \in S
        BY <1>3, <2>1, <3>2
      <4> HIDE DEF any
      <4>3. h[s] = f[any(s)] + h[s \ {any(s)}]
        BY <4>1, <4>2, AddSteps
      <4> QED BY <3>2, <4>3
    <3> QED BY <3>1, <3>2
  <2> HIDE DEF any
  <2>3. P(h)
    BY <2>1, <2>2
  <2> QED BY <2>3
<1>5. P(F)
  <2> HIDE DEF P
  <2> QED BY <1>4
<1>6. /\ F[{}] = 0
      /\ \A t \in SUBSET r : t # {} => F[t] = f[any(t)] + F[t \ {any(t)}]
  <2> HIDE DEF F, any
  <2>1. \A t \in SUBSET r : F[t] = IF t = {} THEN 0 ELSE f[any(t)] + F[t \ {any(t)}]
    BY <1>5
  <2> QED BY <2>1
<1>7. \A t \in SUBSET r : (t # {} /\ F[t \ {pick[t]}] \in Int) =>
        F[t] = step[<<pick[t], F[t \ {pick[t]}]>>]
  <2> SUFFICES ASSUME NEW t \in SUBSET r, t # {}, F[t \ {pick[t]}] \in Int
               PROVE  F[t] = step[<<pick[t], F[t \ {pick[t]}]>>]
    OBVIOUS
  <2>1. pick[t] = any(t) /\ pick[t] \in S
    BY <1>3
  <2> HIDE DEF F, pick, any
  <2>2. step[<<pick[t], F[t \ {pick[t]}]>>] = f[pick[t]] + F[t \ {pick[t]}]
    BY <2>1, AddSteps
  <2> QED BY <1>6, <2>1, <2>2
<1>8. Folds(F, r, pick, 0, step) /\ \A t \in SUBSET r : F[t] \in Int
  <2>1. 0 \in Int /\ F[{}] = 0
    BY <1>6
  <2> HIDE DEF F, pick, step
  <2>2. FoldsWithin(F, r, pick, Int, 0, step)
    BY <1>7, <2>1 DEF FoldsWithin
  <2> QED BY <1>2, <2>1, <2>2, FoldTyped
<1> QED BY <1>1, <1>8

\* A sum of integers is one; the empty sum is 0; any other is the element taken
\* first and the sum over the rest.
LEMMA SumSteps ==
  ASSUME NEW S, IsFiniteSet(S), NEW f, IntsOn(f, S), NEW r \in SUBSET S
  PROVE  /\ SumOver(f, r) \in Int
         /\ r = {} => SumOver(f, r) = 0
         /\ r # {} => \E x \in r : SumOver(f, r) = f[x] + SumOver(f, r \ {x})
<1> DEFINE pick == AnyPick(S)  step == AddStep(f, S)
<1>1. PICK h : /\ Folds(h, r, pick, 0, step)
               /\ \A t \in SUBSET r : h[t] \in Int
               /\ SumOver(f, r) = h[r]
  BY SumFold
<1>2. SumOver(f, r) \in Int /\ (r = {} => SumOver(f, r) = 0)
  BY <1>1 DEF Folds
<1>3. ASSUME r # {}
      PROVE  \E x \in r : SumOver(f, r) = f[x] + SumOver(f, r \ {x})
  <2> DEFINE x == pick[r]  s == r \ {x}
  <2>1. x \in r /\ x \in S /\ s \in SUBSET S /\ s \in SUBSET r
    BY <1>3, AnyPicks DEF Picks
  <2>2. h[r] = step[<<x, h[s]>>]
    BY <1>1, <1>3 DEF Folds
  <2> HIDE DEF s, x
  <2>3. PICK g : /\ Folds(g, s, pick, 0, step)
                 /\ SumOver(f, s) = g[s]
    BY <2>1, SumFold
  <2>4. h[s] = g[s]
    <3>1. Picks(pick, S) /\ s \in SUBSET (r \cap s)
      BY <2>1, AnyPicks
    <3> HIDE DEF pick, step
    <3> QED BY <1>1, <2>1, <2>3, <3>1, FoldsAgree
  <2>5. step[<<x, h[s]>>] = f[x] + h[s]
    BY <1>1, <2>1, AddSteps
  <2>6. SumOver(f, r) = f[x] + SumOver(f, s)
    BY <1>1, <2>2, <2>3, <2>4, <2>5
  <2> QED BY <2>1, <2>6 DEF s
<1> QED BY <1>2, <1>3

LEMMA SumEmpty == \A f : SumOver(f, {}) = 0
<1> TAKE f
<1>1. IsFiniteSet({}) /\ IntsOn(f, {})
  BY FS_EmptySet DEF IntsOn
<1> QED BY <1>1, SumSteps

LEMMA SumType ==
  ASSUME NEW S, IsFiniteSet(S), NEW f, IntsOn(f, S)
  PROVE  SumOver(f, S) \in Int
  BY SumSteps

\* A sum does not depend on the order of its terms: any of them may be taken first.
LEMMA SumRemove ==
  ASSUME NEW S, IsFiniteSet(S), NEW f, IntsOn(f, S), NEW x \in S
  PROVE  SumOver(f, S) = f[x] + SumOver(f, S \ {x})
<1> DEFINE T == {r \in SUBSET S : \E y \in r : SumOver(f, r) # f[y] + SumOver(f, r \ {y})}
<1> SUFFICES ASSUME T # {} PROVE FALSE
  OBVIOUS
<1>1. PICK r \in T : \A t \in T : t \subseteq r => t = r
  <2>1. T \subseteq SUBSET S
    OBVIOUS
  <2> HIDE DEF T
  <2> QED BY <2>1, MinimalSet
<1>2. PICK y \in r : SumOver(f, r) # f[y] + SumOver(f, r \ {y})
  BY <1>1
<1>3. PICK a \in r : SumOver(f, r) = f[a] + SumOver(f, r \ {a})
  BY <1>1, <1>2, SumSteps
<1>4. a # y
  BY <1>2, <1>3
<1> DEFINE rest == r \ {a, y}
<1>5. SumOver(f, r \ {a}) = f[y] + SumOver(f, rest)
  <2>1. y \in r \ {a} /\ r \ {a} # r /\ r \ {a} \in SUBSET S
    BY <1>1, <1>4
  <2>2. r \ {a} \notin T
    BY <1>1, <2>1
  <2>3. (r \ {a}) \ {y} = rest
    OBVIOUS
  <2> QED BY <2>1, <2>2, <2>3
<1>6. SumOver(f, r \ {y}) = f[a] + SumOver(f, rest)
  <2>1. a \in r \ {y} /\ r \ {y} # r /\ r \ {y} \in SUBSET S
    BY <1>1, <1>4
  <2>2. r \ {y} \notin T
    BY <1>1, <2>1
  <2>3. (r \ {y}) \ {a} = rest
    OBVIOUS
  <2> QED BY <2>1, <2>2, <2>3
<1>7. f[a] \in Int /\ f[y] \in Int /\ SumOver(f, rest) \in Int
  <2>1. rest \in SUBSET S /\ a \in S /\ y \in S
    BY <1>1
  <2> QED BY <2>1, SumSteps DEF IntsOn
<1> QED BY <1>2, <1>3, <1>5, <1>6, <1>7

\* A sum depends on the terms only.
LEMMA SumSame ==
  ASSUME NEW S, IsFiniteSet(S), NEW f, NEW g, IntsOn(f, S), \A x \in S : g[x] = f[x]
  PROVE  SumOver(g, S) = SumOver(f, S)
<1> DEFINE T == {r \in SUBSET S : SumOver(g, r) # SumOver(f, r)}
<1> SUFFICES ASSUME T # {} PROVE FALSE
  OBVIOUS
<1>1. PICK r \in T : \A t \in T : t \subseteq r => t = r
  <2>1. T \subseteq SUBSET S
    OBVIOUS
  <2> HIDE DEF T
  <2> QED BY <2>1, MinimalSet
<1>2. IntsOn(g, S) /\ r \in SUBSET S
  BY <1>1 DEF IntsOn
<1>3. r # {}
  BY <1>1, SumEmpty
<1>4. PICK x \in r : SumOver(f, r) = f[x] + SumOver(f, r \ {x})
  BY <1>2, <1>3, SumSteps
<1>5. SumOver(g, r) = g[x] + SumOver(g, r \ {x})
  <2>1. IsFiniteSet(r) /\ IntsOn(g, r)
    BY <1>2, FS_Subset DEF IntsOn
  <2> QED BY <2>1, SumRemove
<1>6. SumOver(g, r \ {x}) = SumOver(f, r \ {x})
  BY <1>1
<1> QED BY <1>1, <1>4, <1>5, <1>6

\* A new element adds its term.
LEMMA SumAdd ==
  ASSUME NEW S, IsFiniteSet(S), NEW x, x \notin S, NEW f, IntsOn(f, S \union {x})
  PROVE  SumOver(f, S \union {x}) = SumOver(f, S) + f[x]
<1>1. IsFiniteSet(S \union {x}) /\ (S \union {x}) \ {x} = S
  BY FS_AddElement
<1>2. SumOver(f, S \union {x}) = f[x] + SumOver(f, S)
  BY <1>1, SumRemove
<1>3. f[x] \in Int /\ SumOver(f, S) \in Int
  BY SumType DEF IntsOn
<1> QED BY <1>2, <1>3

\* When one term changes, the sum changes with it.
LEMMA SumUpdate ==
  ASSUME NEW S, IsFiniteSet(S), NEW x \in S, NEW f, NEW g, IntsOn(f, S), g[x] \in Int,
         \A y \in S \ {x} : g[y] = f[y]
  PROVE  SumOver(g, S) = SumOver(f, S) + g[x] - f[x]
<1> DEFINE R == S \ {x}
<1>1. IsFiniteSet(R) /\ IntsOn(f, R) /\ IntsOn(g, S)
  BY FS_RemoveElement DEF IntsOn
<1>2. SumOver(g, R) = SumOver(f, R) /\ SumOver(f, R) \in Int
  <2> HIDE DEF R
  <2>1. \A y \in R : g[y] = f[y]
    BY DEF R
  <2> QED BY <1>1, <2>1, SumSame, SumType
<1>3. SumOver(f, S) = f[x] + SumOver(f, R) /\ SumOver(g, S) = g[x] + SumOver(g, R)
  BY <1>1, SumRemove
<1>4. f[x] \in Int
  BY DEF IntsOn
<1> QED BY <1>2, <1>3, <1>4

\* Sums are added term by term.
LEMMA SumPlus ==
  ASSUME NEW S, IsFiniteSet(S), NEW f, NEW g, NEW h, IntsOn(f, S), IntsOn(g, S),
         \A x \in S : h[x] = f[x] + g[x]
  PROVE  SumOver(h, S) = SumOver(f, S) + SumOver(g, S)
<1> DEFINE T == {r \in SUBSET S : SumOver(h, r) # SumOver(f, r) + SumOver(g, r)}
<1> SUFFICES ASSUME T # {} PROVE FALSE
  BY DEF T
<1>1. PICK r \in T : \A t \in T : t \subseteq r => t = r
  <2>1. T \subseteq SUBSET S
    OBVIOUS
  <2> HIDE DEF T
  <2> QED BY <2>1, MinimalSet
<1>2. r \in SUBSET S /\ SumOver(h, r) # SumOver(f, r) + SumOver(g, r)
  BY <1>1
<1>3. PICK x \in r : TRUE
  BY <1>2, SumEmpty
<1> DEFINE s == r \ {x}
<1>4. SumOver(h, s) = SumOver(f, s) + SumOver(g, s)
  BY <1>1, <1>3
<1>5. ASSUME NEW k, IntsOn(k, S)
      PROVE  SumOver(k, r) = k[x] + SumOver(k, s) /\ SumOver(k, s) \in Int /\ k[x] \in Int
  <2>1. IsFiniteSet(r) /\ IntsOn(k, r) /\ s \in SUBSET S
    BY <1>2, <1>5, FS_Subset DEF IntsOn
  <2> QED BY <1>3, <1>5, <2>1, SumRemove, SumSteps DEF IntsOn
<1>6. IntsOn(h, S) /\ h[x] = f[x] + g[x]
  BY <1>2, <1>3 DEF IntsOn
<1> HIDE DEF s, T
<1>7. /\ SumOver(h, r) = h[x] + SumOver(h, s)
      /\ SumOver(f, r) = f[x] + SumOver(f, s) /\ SumOver(f, s) \in Int /\ f[x] \in Int
      /\ SumOver(g, r) = g[x] + SumOver(g, s) /\ SumOver(g, s) \in Int /\ g[x] \in Int
  BY <1>5, <1>6
<1> QED BY <1>2, <1>4, <1>6, <1>7

\* A sum of natural numbers is one, and zeros add up to zero.
LEMMA SumNat ==
  ASSUME NEW S, IsFiniteSet(S), NEW f, \A x \in S : f[x] \in Nat
  PROVE  SumOver(f, S) \in Nat
<1> DEFINE T == {r \in SUBSET S : SumOver(f, r) \notin Nat}
<1> SUFFICES ASSUME T # {} PROVE FALSE
  BY DEF T
<1>1. PICK r \in T : \A t \in T : t \subseteq r => t = r
  <2>1. T \subseteq SUBSET S
    OBVIOUS
  <2> HIDE DEF T
  <2> QED BY <2>1, MinimalSet
<1>2. IntsOn(f, S) /\ r \in SUBSET S
  BY <1>1 DEF IntsOn
<1>3. r # {}
  <2>1. SumOver(f, {}) = 0 /\ SumOver(f, r) \notin Nat
    BY <1>1, SumEmpty
  <2> QED BY <2>1
<1>4. PICK x \in r : SumOver(f, r) = f[x] + SumOver(f, r \ {x})
  BY <1>2, <1>3, SumSteps
<1>5. SumOver(f, r \ {x}) \in Nat /\ f[x] \in Nat
  BY <1>1, <1>2
<1> QED BY <1>1, <1>4, <1>5

LEMMA SumZero ==
  ASSUME NEW S, IsFiniteSet(S), NEW f, \A x \in S : f[x] = 0
  PROVE  SumOver(f, S) = 0
<1>1. IntsOn(f, S) /\ \A x \in S : f[x] = f[x] + f[x]
  BY DEF IntsOn
<1>2. SumOver(f, S) = SumOver(f, S) + SumOver(f, S)
  BY <1>1, SumPlus
<1> QED BY <1>1, <1>2, SumType
-----------------------------------------------------------------------------
(* Folds over a sequence from the left: FoldLeft takes the largest index of *)
(* what is left, so the value of a prefix comes from the prefix before it.  *)

LastPick(n) == [s \in SUBSET (1..n) |-> Max(s)]

LEMMA LastPicks ==
  ASSUME NEW n \in Nat
  PROVE  /\ IsFiniteSet(1..n) /\ Picks(LastPick(n), 1..n)
         /\ \A k \in 1..n : LastPick(n)[1..k] = k
<1>1. IsFiniteSet(1..n)
  BY FS_Interval
<1>2. ASSUME NEW s \in SUBSET (1..n), s # {} PROVE Max(s) \in s
  <2> DEFINE gaps == {n - i : i \in s}
  <2>1. gaps \subseteq Nat /\ gaps # {}
    <3>1. \A i \in s : n - i \in Nat
      OBVIOUS
    <3> QED BY <1>2, <3>1
  <2>2. PICK d \in gaps : \A e \in gaps : d <= e
    <3> HIDE DEF gaps
    <3> QED BY <2>1, LeastNatural
  <2>3. PICK i \in s : d = n - i
    BY <2>2
  <2>4. \A j \in s : i >= j
    <3>1. ASSUME NEW j \in s PROVE i >= j
      <4>1. d <= n - j
        BY <2>2
      <4>2. i \in Int /\ j \in Int
        OBVIOUS
      <4> HIDE DEF gaps
      <4>3. QED BY <2>3, <4>1, <4>2
    <3> QED BY <3>1
  <2> QED BY <2>3, <2>4 DEF Max
<1>3. ASSUME NEW k \in 1..n PROVE LastPick(n)[1..k] = k
  <2>1. 1..k \in SUBSET (1..n) /\ k \in 1..k
    OBVIOUS
  <2>2. Max(1..k) \in 1..k /\ \A j \in 1..k : Max(1..k) >= j
    <3>1. k \in 1..k /\ \A j \in 1..k : k >= j
      OBVIOUS
    <3> QED BY <3>1 DEF Max
  <2>3. Max(1..k) = k
    BY <2>1, <2>2
  <2> QED BY <2>1, <2>3 DEF LastPick
<1> QED BY <1>1, <1>2, <1>3 DEF Picks, LastPick

\* A fold from the left has a value after each prefix, and every value is a step
\* from the one before.
LEMMA FoldFromLeft ==
  ASSUME NEW n \in Nat, NEW V, NEW base \in V, NEW step, StepsWithin(step, 1..n, V),
         NEW h, FoldsWithin(h, 1..n, LastPick(n), V, base, step)
  PROVE  \E acc \in [0..n -> V] :
           /\ acc[0] = base /\ acc[n] = h[1..n]
           /\ \A k \in 1..n : acc[k] = step[<<k, acc[k - 1]>>]
<1>1. Folds(h, 1..n, LastPick(n), base, step) /\ \A t \in SUBSET (1..n) : h[t] \in V
  BY LastPicks, FoldTyped
<1> DEFINE acc == [k \in 0..n |-> h[1..k]]
<1>2. \A k \in 0..n : 1..k \in SUBSET (1..n)
  OBVIOUS
<1>3. acc \in [0..n -> V]
  BY <1>1, <1>2
<1>4. acc[0] = base /\ acc[n] = h[1..n]
  BY DEF FoldsWithin
<1>5. ASSUME NEW k \in 1..n PROVE acc[k] = step[<<k, acc[k - 1]>>]
  <2>1. 1..k \in SUBSET (1..n) /\ 1..k # {} /\ (1..k) \ {k} = 1..(k - 1)
    OBVIOUS
  <2>2. LastPick(n)[1..k] = k
    BY LastPicks
  <2>3. h[1..k] = step[<<k, h[1..(k - 1)]>>]
    BY <1>1, <2>1, <2>2 DEF Folds
  <2>4. acc[k] = h[1..k] /\ acc[k - 1] = h[1..(k - 1)]
    OBVIOUS
  <2> HIDE DEF acc
  <2> QED BY <2>3, <2>4
<1> QED BY <1>3, <1>4, <1>5

\* What holds of the first value and goes from each value to the next holds of
\* all of them.
LEMMA PrefixInduction ==
  ASSUME NEW n \in Nat, NEW S, 0 \in S, \A k \in 1..n : k - 1 \in S => k \in S
  PROVE  0..n \subseteq S
<1> DEFINE T == {k \in Nat : k <= n => k \in S}
<1>1. 0 \in T
  OBVIOUS
<1>2. ASSUME NEW k \in Nat, k \in T PROVE k + 1 \in T
  <2>1. k + 1 <= n => k + 1 \in 1..n /\ k + 1 - 1 = k
    OBVIOUS
  <2> QED BY <1>2, <2>1
<1> HIDE DEF T
<1>3. Nat \subseteq T
  BY <1>1, <1>2, NatSetInduction
<1> QED BY <1>3 DEF T
===============================================================================
