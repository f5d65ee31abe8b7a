---------------------------- MODULE ScoringProofs ----------------------------
(***************************************************************************)
(* Theorems about what is concluded from one client's traffic: the score   *)
(* of its signals, the sequence of its pages, its QUIC handshake.          *)
(***************************************************************************)
EXTENDS RiskScoring, VisitPatterns, QuicHandshake, FiniteSetTheorems, NaturalsInduction,
        SequenceTheorems, TLAPS

-----------------------------------------------------------------------------
(* Numbers and finite sets *)

\* A set of natural numbers that is not empty has a least element.
LEMMA LeastOf ==
  ASSUME NEW T \in SUBSET Nat, T # {}
  PROVE  \E x \in T : \A y \in T : x <= y
<1>1. PICK x \in T : \A y \in T : <<y, x>> \notin OpToRel(<, Nat)
  BY NatLessThanWellFounded, WFMin
<1>2. \A y \in T : ~(y < x)
  BY <1>1 DEF OpToRel
<1> QED
  BY <1>2

LEMMA MaxOfTwo ==
  ASSUME NEW m \in Int, NEW n \in Int
  PROVE  Max({m, n}) = IF m >= n THEN m ELSE n
<1>1. \E x \in {m, n} : \A y \in {m, n} : x >= y
  OBVIOUS
<1>2. Max({m, n}) \in {m, n} /\ \A y \in {m, n} : Max({m, n}) >= y
  BY <1>1 DEF Max
<1> QED
  BY <1>2

LEMMA MinOfTwo ==
  ASSUME NEW m \in Int, NEW n \in Int
  PROVE  Min({m, n}) = IF m <= n THEN m ELSE n
<1>1. \E x \in {m, n} : \A y \in {m, n} : x =< y
  OBVIOUS
<1>2. Min({m, n}) \in {m, n} /\ \A y \in {m, n} : Min({m, n}) =< y
  BY <1>1 DEF Min
<1> QED
  BY <1>2

LEMMA ClampedFacts ==
  ASSUME NEW most \in Nat
  PROVE  /\ \A n \in Int : Clamped(n, most) \in 0..most
         /\ Clamped(0, most) = 0
         /\ \A m, n \in Int : m <= n => Clamped(m, most) <= Clamped(n, most)
<1>1. \A n \in Int : Clamped(n, most) =
        LET low == IF 0 >= n THEN 0 ELSE n IN IF most <= low THEN most ELSE low
  BY MaxOfTwo, MinOfTwo DEF Clamped
<1> QED
  BY <1>1

\* A finite union of finite sets is finite.
LEMMA FiniteUnion ==
  ASSUME NEW F, IsFiniteSet(F), \A S \in F : IsFiniteSet(S)
  PROVE  IsFiniteSet(UNION F)
<1> DEFINE T == {n \in Nat : \E G \in SUBSET F :
                   Cardinality(G) = n /\ ~IsFiniteSet(UNION G)}
<1> SUFFICES ASSUME T # {} PROVE FALSE
  BY FS_CardinalityType
<1>1. PICK n \in T : \A m \in T : n <= m
  BY LeastOf
<1>2. PICK G \in SUBSET F : Cardinality(G) = n /\ ~IsFiniteSet(UNION G)
  BY <1>1
<1>3. IsFiniteSet(G)
  BY FS_Subset
<1>4. G # {}
  BY <1>2, FS_EmptySet
<1>5. PICK S \in G : TRUE
  BY <1>4
<1>6. IsFiniteSet(G \ {S}) /\ Cardinality(G \ {S}) = n - 1
  BY <1>2, <1>3, <1>5, FS_RemoveElement
<1>7. n - 1 \in Nat /\ ~(n <= n - 1)
  BY <1>1, <1>6, FS_CardinalityType
<1>8. IsFiniteSet(UNION (G \ {S}))
  BY <1>1, <1>6, <1>7
<1>9. UNION G = S \cup UNION (G \ {S})
  BY <1>5
<1>10. IsFiniteSet(S)
  BY <1>5
<1>11. IsFiniteSet(S \cup UNION (G \ {S}))
  BY <1>8, <1>10, FS_Union
<1> QED
  BY <1>2, <1>9, <1>11

\* So is the image of a finite set under a function.
LEMMA FiniteImage ==
  ASSUME NEW S, IsFiniteSet(S), NEW f
  PROVE  IsFiniteSet({f[x] : x \in S})
<1> DEFINE T == {f[x] : x \in S}
           g == [x \in S |-> f[x]]
<1>1. g \in Surjection(S, T)
  BY DEF Surjection
<1> QED
  BY <1>1, FS_Surjection

-----------------------------------------------------------------------------
(* Sums over finite sets.  SumOf(v, S) is a recursive function: it has the *)
(* values its definition promises because such a function exists for all   *)
(* subsets of up to n elements, by induction on n.                         *)
IsSum(f, v, U) ==
  f = [T \in U |-> IF T = {} THEN 0 ELSE v[AnyOf(T)] + f[T \ {AnyOf(T)}]]

Upto(n, S) == {T \in SUBSET S : Cardinality(T) <= n}

LEMMA SumUpto ==
  ASSUME NEW S, IsFiniteSet(S), NEW v, NEW L \in Nat
  PROVE  \E f : IsSum(f, v, Upto(L, S))
<1> DEFINE Bad == {n \in Nat : ~ \E f : IsSum(f, v, Upto(n, S))}
<1> SUFFICES ASSUME Bad # {} PROVE FALSE
  OBVIOUS
<1>0. \A T \in SUBSET S : IsFiniteSet(T) /\ Cardinality(T) \in Nat
  BY FS_Subset, FS_CardinalityType
<1>1. PICK n \in Bad : \A m \in Bad : n <= m
  BY LeastOf
<1>2. n \in Nat /\ n # 0
  <2>1. \A T \in Upto(0, S) : T = {}
    BY <1>0, FS_EmptySet DEF Upto
  <2> DEFINE f == [T \in Upto(0, S) |-> 0]
  <2>2. IsSum(f, v, Upto(0, S))
    BY <2>1 DEF IsSum
  <2> QED
    BY <1>1, <2>2
<1>3. n - 1 \in Nat /\ n - 1 \notin Bad
  BY <1>1, <1>2
<1>4. PICK f : IsSum(f, v, Upto(n - 1, S))
  BY <1>3
<1> DEFINE U == Upto(n, S)
           g == [T \in U |-> IF T = {} THEN 0 ELSE v[AnyOf(T)] + f[T \ {AnyOf(T)}]]
<1>5. \A T \in Upto(n - 1, S) : f[T] = IF T = {} THEN 0 ELSE v[AnyOf(T)] + f[T \ {AnyOf(T)}]
  BY <1>4 DEF IsSum
<1>6. Upto(n - 1, S) \subseteq U
  BY <1>0, <1>3 DEF Upto
<1>7. \A T \in Upto(n - 1, S) : g[T] = f[T]
  BY <1>5, <1>6
<1>8. ASSUME NEW T \in U, T # {} PROVE T \ {AnyOf(T)} \in Upto(n - 1, S)
  <2>1. AnyOf(T) \in T
    BY <1>8 DEF AnyOf
  <2> QED
    BY <1>0, <1>2, <2>1, FS_RemoveElement DEF Upto
<1>9. \A T \in U : g[T] = IF T = {} THEN 0 ELSE v[AnyOf(T)] + g[T \ {AnyOf(T)}]
  BY <1>7, <1>8
<1>10. g = [T \in U |-> IF T = {} THEN 0 ELSE v[AnyOf(T)] + g[T \ {AnyOf(T)}]]
  <2> DEFINE h == [T \in U |-> IF T = {} THEN 0 ELSE v[AnyOf(T)] + g[T \ {AnyOf(T)}]]
  <2>1. \A T \in U : g[T] = h[T]
    BY <1>9
  <2>2. g = [T \in U |-> g[T]]
    OBVIOUS
  <2> HIDE DEF g
  <2> QED
    BY <2>1, <2>2
<1> HIDE DEF g
<1>11. IsSum(g, v, U)
  BY <1>10 DEF IsSum
<1> QED
  BY <1>1, <1>11

\* The sum of integers is an integer, and 0 for none.
LEMMA SumOfFacts ==
  ASSUME NEW S, IsFiniteSet(S), NEW v, \A x \in S : v[x] \in Int
  PROVE  SumOf(v, S) \in Int /\ (S = {} => SumOf(v, S) = 0)
<1> DEFINE n == Cardinality(S)
           sum == CHOOSE f : IsSum(f, v, SUBSET S)
<1>1. n \in Nat /\ \A T \in SUBSET S : IsFiniteSet(T) /\ Cardinality(T) \in 0..n
  BY FS_Subset, FS_CardinalityType
<1>2. Upto(n, S) = SUBSET S
  BY <1>1 DEF Upto
<1>3. \E f : IsSum(f, v, SUBSET S)
  <2>1. \E f : IsSum(f, v, Upto(n, S))
    BY <1>1, SumUpto
  <2> QED
    BY <1>2, <2>1
<1>4. IsSum(sum, v, SUBSET S)
  BY <1>3
<1>5. SumOf(v, S) = sum[S]
  BY DEF SumOf, IsSum
<1> HIDE DEF sum
<1>6. \A T \in SUBSET S : sum[T] = IF T = {} THEN 0 ELSE v[AnyOf(T)] + sum[T \ {AnyOf(T)}]
  BY <1>4 DEF IsSum
<1> DEFINE Bad == {m \in Nat : \E T \in SUBSET S : Cardinality(T) = m /\ sum[T] \notin Int}
<1>7. Bad = {}
  <2> SUFFICES ASSUME Bad # {} PROVE FALSE
    OBVIOUS
  <2>1. PICK m \in Bad : \A k \in Bad : m <= k
    BY LeastOf
  <2>2. PICK T \in SUBSET S : Cardinality(T) = m /\ sum[T] \notin Int
    BY <2>1
  <2>3. T # {} /\ sum[T] = v[AnyOf(T)] + sum[T \ {AnyOf(T)}]
    <3> HIDE DEF Bad
    <3>1. sum[T] = IF T = {} THEN 0 ELSE v[AnyOf(T)] + sum[T \ {AnyOf(T)}]
      BY <1>6
    <3> QED
      BY <2>2, <3>1
  <2>4. AnyOf(T) \in T
    BY <2>3 DEF AnyOf
  <2>5. T \ {AnyOf(T)} \in SUBSET S /\ Cardinality(T \ {AnyOf(T)}) = m - 1
    BY <1>1, <2>2, <2>4, FS_RemoveElement
  <2>6. m - 1 \in Nat /\ m - 1 \notin Bad
    BY <1>1, <2>1, <2>5
  <2>7. sum[T \ {AnyOf(T)}] \in Int
    BY <2>5, <2>6
  <2> QED
    BY <2>2, <2>3, <2>4, <2>7
<1>8. sum[S] \in Int
  BY <1>1, <1>7
<1> QED
  BY <1>5, <1>6, <1>8

-----------------------------------------------------------------------------
(* RiskScorer *)

\* Finitely many signals, their numbers integers.
Measured(found) ==
  /\ IsFiniteSet(found)
  /\ \A s \in found : s.value \in Int /\ s.confidence \in Int /\ s.weight \in Int

LEMMA CategoryScoreFacts ==
  ASSUME NEW found, Measured(found)
  PROVE  CategoryScore(found) \in Int /\ (found = {} => CategoryScore(found) = 0)
<1> DEFINE v == [s \in found |-> s.weight]
           w == [s \in found |-> s.value * s.confidence * s.weight]
           total == SumOf(v, found)
           score == SumOf(w, found)
<1>1. \A s \in found : v[s] \in Int /\ w[s] \in Int
  BY DEF Measured
<1>2. IsFiniteSet(found)
  BY DEF Measured
<1> HIDE DEF v, w
<1>3. total \in Int /\ score \in Int /\ (found = {} => total = 0)
  BY <1>1, <1>2, SumOfFacts
<1>4. CategoryScore(found) = IF total > 0 THEN score \div total ELSE 0
  BY DEF CategoryScore, v, w
<1> HIDE DEF total, score
<1>5. CASE total > 0
  BY <1>3, <1>4, <1>5
<1>6. CASE ~(total > 0)
  BY <1>4, <1>6
<1> QED
  BY <1>3, <1>5, <1>6

LEMMA InFacts ==
  ASSUME NEW found, Measured(found), NEW c
  PROVE  Measured(In(c, found))
<1>1. In(c, found) \in SUBSET found
  BY DEF In
<1>2. IsFiniteSet(In(c, found))
  BY <1>1, FS_Subset DEF Measured
<1> QED
  BY <1>1, <1>2 DEF Measured

LEMMA WholeFacts == Whole \in Nat /\ Whole > 0
BY SMT DEF Whole

LEMMA LeftFacts ==
  ASSUME NEW found, Measured(found), NEW i
  PROVE  /\ Left(found, i) \in 0..Whole
         /\ In(Categories[i], found) = {} => Left(found, i) = Whole
<1> DEFINE n == CategoryScore(In(Categories[i], found))
<1>1. n \in Int /\ (In(Categories[i], found) = {} => n = 0)
  BY InFacts, CategoryScoreFacts
<1>2. Left(found, i) = Whole - Clamped(n, Whole)
  BY DEF Left
<1> HIDE DEF n
<1>3. Clamped(n, Whole) \in 0..Whole /\ Clamped(0, Whole) = 0
  BY <1>1, ClampedFacts, WholeFacts
<1> QED
  BY <1>1, <1>2, <1>3, WholeFacts

\* What is left of "benign" after the first categories.
IsBenign(f, found) ==
  f = [i \in 0..6 |->
         IF i = 0 THEN Whole ELSE (f[i - 1] * Left(found, i)) \div Whole]

LEMMA BenignExists ==
  ASSUME NEW found
  PROVE  \E f : IsBenign(f, found)
<1> DEFINE b1 == (Whole * Left(found, 1)) \div Whole
           b2 == (b1 * Left(found, 2)) \div Whole
           b3 == (b2 * Left(found, 3)) \div Whole
           b4 == (b3 * Left(found, 4)) \div Whole
           b5 == (b4 * Left(found, 5)) \div Whole
           b6 == (b5 * Left(found, 6)) \div Whole
           f == [i \in 0..6 |-> CASE i = 0 -> Whole [] i = 1 -> b1 [] i = 2 -> b2
                   [] i = 3 -> b3 [] i = 4 -> b4 [] i = 5 -> b5 [] i = 6 -> b6]
           g == [i \in 0..6 |->
                   IF i = 0 THEN Whole ELSE (f[i - 1] * Left(found, i)) \div Whole]
<1>1. /\ f[0] = Whole /\ f[1] = b1 /\ f[2] = b2 /\ f[3] = b3 /\ f[4] = b4
      /\ f[5] = b5 /\ f[6] = b6
  <2> HIDE DEF b1, b2, b3, b4, b5, b6
  <2> QED
    OBVIOUS
<1>2. \A i \in 0..6 : i \in {0, 1, 2, 3, 4, 5, 6}
  OBVIOUS
<1>3. f = [i \in 0..6 |-> f[i]]
  OBVIOUS
<1> HIDE DEF f
<1>4. \A i \in 0..6 :
        g[i] = IF i = 0 THEN Whole ELSE (f[i - 1] * Left(found, i)) \div Whole
  OBVIOUS
<1>5. /\ g[0] = Whole /\ g[1] = b1 /\ g[2] = b2 /\ g[3] = b3 /\ g[4] = b4
      /\ g[5] = b5 /\ g[6] = b6
  BY <1>1, <1>4
<1> HIDE DEF b1, b2, b3, b4, b5, b6, g
<1>6. \A i \in 0..6 : f[i] = g[i]
  BY <1>1, <1>2, <1>5
<1>7. f = g
  BY <1>3, <1>6 DEF g
<1> QED
  BY <1>7 DEF IsBenign, g

\* A part of a part is a part, and grows with either.
LEMMA PartInRange ==
  ASSUME NEW m \in Nat, NEW n \in Nat, m <= n, n <= Whole * Whole
  PROVE  /\ n \div Whole \in 0..Whole /\ m \div Whole \in 0..Whole
         /\ m \div Whole <= n \div Whole
<1> USE DEF Whole
<1>1. n \div Whole \in 0..Whole
  BY SMTT(60)
<1>2. m \div Whole \in 0..Whole
  BY SMTT(60)
<1>3. m \div Whole <= n \div Whole
  BY SMTT(60)
<1> HIDE DEF Whole
<1> QED
  BY <1>1, <1>2, <1>3

LEMMA PartOfWhole ==
  ASSUME NEW a \in 0..Whole, NEW b \in 0..Whole, b <= a,
         NEW x \in 0..Whole, NEW y \in 0..Whole, y <= x
  PROVE  /\ (a * x) \div Whole \in 0..Whole /\ (b * y) \div Whole \in 0..Whole
         /\ (b * y) \div Whole <= (a * x) \div Whole
<1>0. Whole \in Nat /\ Whole > 0
  BY WholeFacts
<1>1. b * y <= a * y /\ a * y <= a * x /\ a * x <= Whole * Whole /\ 0 <= b * y
  <2>1. \A i, j, k \in Nat : i <= j => i * k <= j * k /\ k * i <= k * j
    OBVIOUS
  <2>2. a \in Nat /\ b \in Nat /\ x \in Nat /\ y \in Nat
    BY <1>0
  <2>3. b * y <= a * y /\ a * y <= a * x
    BY <2>1, <2>2
  <2>4. a * x <= Whole * x /\ Whole * x <= Whole * Whole
    BY <1>0, <2>1, <2>2
  <2>5. a * x \in Nat /\ b * y \in Nat /\ Whole * x \in Nat /\ Whole * Whole \in Nat
    BY <1>0, <2>2
  <2> QED
    BY <2>3, <2>4, <2>5
<1>2. b * y \in Nat /\ a * x \in Nat
  BY <1>0, <1>1
<1>3. b * y <= a * x /\ a * x <= Whole * Whole
  BY <1>0, <1>1
<1> QED
  BY <1>2, <1>3, PartInRange, Zenon

\* The noisy-or: a category that adds signals where there were none leaves less.
LEMMA FusedGrows ==
  ASSUME NEW old, NEW new, Measured(old), Measured(new),
         \A i \in 1..6 : Left(new, i) <= Left(old, i)
  PROVE  Fused(old) \in 0..Whole /\ Fused(new) \in 0..Whole
         /\ Fused(old) <= Fused(new)
<1> DEFINE f == CHOOSE f : IsBenign(f, old)
           g == CHOOSE g : IsBenign(g, new)
<1>1. Len(Categories) = 6
  BY DEF Categories
<1>0. Whole \in Nat /\ Whole > 0
  BY WholeFacts
<1>2. IsBenign(f, old) /\ IsBenign(g, new)
  BY BenignExists
<1>3. Fused(old) = Whole - f[6] /\ Fused(new) = Whole - g[6]
  BY <1>1 DEF Fused, IsBenign
<1> HIDE DEF f, g
<1>4. \A i \in 0..6 :
        /\ f[i] = IF i = 0 THEN Whole ELSE (f[i - 1] * Left(old, i)) \div Whole
        /\ g[i] = IF i = 0 THEN Whole ELSE (g[i - 1] * Left(new, i)) \div Whole
  BY <1>2 DEF IsBenign
<1>5. ASSUME NEW a \in 0..Whole, NEW b \in 0..Whole, b <= a,
             NEW x \in 0..Whole, NEW y \in 0..Whole, y <= x
      PROVE  /\ (a * x) \div Whole \in 0..Whole /\ (b * y) \div Whole \in 0..Whole
             /\ (b * y) \div Whole <= (a * x) \div Whole
  BY <1>5, PartOfWhole
<1>6. ASSUME NEW i \in 1..6, f[i - 1] \in 0..Whole, g[i - 1] \in 0..Whole,
             g[i - 1] <= f[i - 1]
      PROVE  f[i] \in 0..Whole /\ g[i] \in 0..Whole /\ g[i] <= f[i]
  <2>1. Left(old, i) \in 0..Whole /\ Left(new, i) \in 0..Whole
        /\ Left(new, i) <= Left(old, i)
    BY LeftFacts
  <2>2. /\ f[i] = (f[i - 1] * Left(old, i)) \div Whole
        /\ g[i] = (g[i - 1] * Left(new, i)) \div Whole
    BY <1>4
  <2> QED
    BY <1>5, <1>6, <2>1, <2>2
<1> DEFINE P(i) == f[i] \in 0..Whole /\ g[i] \in 0..Whole /\ g[i] <= f[i]
<1>7. P(0)
  BY <1>0, <1>4
<1>8. \A i \in 1..6 : P(i - 1) => P(i)
  BY <1>6
<1> HIDE DEF P
<1>9. P(1) /\ P(2) /\ P(3)
  BY <1>7, <1>8
<1>10. P(4) /\ P(5) /\ P(6)
  BY <1>8, <1>9
<1> QED
  BY <1>0, <1>3, <1>10 DEF P

\* More signals are boosted at least as much.
LEMMA BoostedGrows ==
  ASSUME NEW old, NEW new, IsFiniteSet(new), old \subseteq new,
         NEW m \in Nat, NEW n \in Nat, m <= n
  PROVE  Boosted(m, old) \in Nat /\ Boosted(n, new) \in Nat
         /\ Boosted(m, old) <= Boosted(n, new)
<1>1. Headless(old) => Headless(new)
  BY DEF Headless
<1>2. Critical(old) => Critical(new)
  BY DEF Critical
<1>3. ManyHigh(old) => ManyHigh(new)
  <2> DEFINE high(found) == {s \in found : s.value >= 70}
  <2>1. IsFiniteSet(high(new))
    BY FS_Subset
  <2>2. high(old) \in SUBSET high(new)
    OBVIOUS
  <2> HIDE DEF high
  <2>3. /\ Cardinality(high(old)) <= Cardinality(high(new))
        /\ Cardinality(high(old)) \in Nat /\ Cardinality(high(new)) \in Nat
    BY <2>1, <2>2, FS_Subset, FS_CardinalityType
  <2> QED
    BY <2>3 DEF ManyHigh, high
<1> DEFINE floor(k, found) == IF Headless(found) THEN Max({k, 8500}) ELSE k
           once(k, found) == IF Critical(found) THEN (floor(k, found) * 12) \div 10
                                                ELSE floor(k, found)
<1>4. floor(m, old) \in Nat /\ floor(n, new) \in Nat /\ floor(m, old) <= floor(n, new)
  BY <1>1, MaxOfTwo
<1> HIDE DEF floor
<1>5. once(m, old) \in Nat /\ once(n, new) \in Nat /\ once(m, old) <= once(n, new)
  BY <1>2, <1>4
<1>6. \A k, found :
        Boosted(k, found) = IF ManyHigh(found) THEN (once(k, found) * 11) \div 10
                                               ELSE once(k, found)
  BY DEF Boosted, once, floor
<1> HIDE DEF once
<1> QED
  BY <1>3, <1>5, <1>6

\* Signals of categories that had none do not lower the score.
LEMMA ScoreGrows ==
  ASSUME NEW old, NEW new, Measured(new), old \subseteq new,
         {s.category : s \in new \ old} \cap {s.category : s \in old} = {}
  PROVE  Score(old) \in 0..100 /\ Score(new) \in 0..100 /\ Score(old) <= Score(new)
<1>1. Measured(old)
  BY FS_Subset DEF Measured
<1>2. ASSUME NEW i \in 1..6 PROVE Left(new, i) <= Left(old, i)
  <2>1. CASE In(Categories[i], old) = {}
    BY <1>1, <2>1, LeftFacts, WholeFacts
  <2>2. CASE In(Categories[i], old) # {}
    <3>1. In(Categories[i], new) = In(Categories[i], old)
      BY <2>2 DEF In
    <3>2. Left(new, i) = Left(old, i)
      BY <3>1 DEF Left
    <3> QED
      BY <1>1, <3>2, LeftFacts, WholeFacts
  <2> QED
    BY <2>1, <2>2
<1>3. Fused(old) \in 0..Whole /\ Fused(new) \in 0..Whole /\ Fused(old) <= Fused(new)
  BY <1>1, <1>2, FusedGrows
<1> DEFINE m == Boosted(Fused(old), old)
           n == Boosted(Fused(new), new)
<1>4. m \in Nat /\ n \in Nat /\ m <= n
  BY <1>3, BoostedGrows, WholeFacts DEF Measured
<1>5. /\ Score(old) = Clamped((m + 50) \div 100, 100)
      /\ Score(new) = Clamped((n + 50) \div 100, 100)
  BY DEF Score
<1> HIDE DEF m, n
<1>6. (m + 50) \div 100 \in Int /\ (n + 50) \div 100 \in Int
      /\ (m + 50) \div 100 <= (n + 50) \div 100
  BY <1>4
<1> DEFINE j == (m + 50) \div 100
           k == (n + 50) \div 100
<1> HIDE DEF j, k
<1>7. j \in Int /\ k \in Int /\ j <= k
  BY <1>6 DEF j, k
<1>8. Clamped(j, 100) \in 0..100 /\ Clamped(k, 100) \in 0..100
      /\ Clamped(j, 100) <= Clamped(k, 100)
  BY <1>7, ClampedFacts
<1> QED
  BY <1>5, <1>8 DEF j, k

LEMMA VerdictGrows ==
  ASSUME NEW m \in 0..100, NEW n \in 0..100, m <= n,
         NEW mode \in {"monitor", "strict", "enforce"}
  PROVE  Severity(decide(n, mode)) >= Severity(decide(m, mode))
<1>1. Block \in Int /\ Challenge \in Int /\ Monitor \in Int
  BY RiskAssumption
<1> DEFINE bar == Max({Challenge, Block - 15})
<1>2. bar \in Int
  BY <1>1, MaxOfTwo
<1> HIDE DEF bar
<1>3. CASE mode = "monitor"
  BY <1>1, <1>3 DEF decide, Severity
<1>4. CASE mode = "enforce"
  BY <1>1, <1>4 DEF decide, Severity
<1>5. CASE mode = "strict"
  <2>1. \A k : decide(k, mode) = IF k >= bar THEN "block"
                                 ELSE IF k >= Monitor THEN "challenge" ELSE "allow"
    BY <1>5 DEF decide, bar
  <2> QED
    BY <1>1, <1>2, <2>1 DEF Severity
<1> QED
  BY <1>3, <1>4, <1>5

LEMMA ThreatsGrow ==
  ASSUME NEW old, NEW new, old \subseteq new, NEW auth
  PROVE  Threats(old, auth) \subseteq Threats(new, auth)
<1> DEFINE has(found, types) == \E s \in found : s.type \in types
<1>1. \A types : has(old, types) => has(new, types)
  OBVIOUS
<1> QED
  BY <1>1 DEF Threats

-----------------------------------------------------------------------------
(* The signals of one request are finitely many, with integers. *)

LEMMA JoinMeasured ==
  \A A, B : Measured(A) /\ Measured(B) => Measured(A \cup B)
<1> SUFFICES ASSUME NEW A, NEW B, Measured(A), Measured(B)
             PROVE  Measured(A \cup B)
  OBVIOUS
<1>1. IsFiniteSet(A) /\ IsFiniteSet(B)
  BY DEF Measured
<1>2. IsFiniteSet(A \cup B)
  BY <1>1, FS_Union
<1> QED
  BY <1>2 DEF Measured

LEMMA PartMeasured ==
  \A A, B : A \subseteq B /\ Measured(B) => Measured(A)
<1> SUFFICES ASSUME NEW A, NEW B, A \subseteq B, Measured(B)
             PROVE  Measured(A)
  OBVIOUS
<1>1. IsFiniteSet(B)
  BY DEF Measured
<1>2. IsFiniteSet(A)
  BY <1>1, FS_Subset
<1> QED
  BY <1>2 DEF Measured

LEMMA NothingMeasured == Measured({})
<1>1. IsFiniteSet({})
  BY FS_EmptySet
<1> QED
  BY <1>1 DEF Measured

LEMMA SignalMeasured ==
  \A category, type : \A value, confidence, weight \in Int :
    Measured({Signal(category, type, value, confidence, weight)})
<1> SUFFICES ASSUME NEW category, NEW type, NEW value \in Int,
                    NEW confidence \in Int, NEW weight \in Int
             PROVE  Measured({Signal(category, type, value, confidence, weight)})
  OBVIOUS
<1> DEFINE s == Signal(category, type, value, confidence, weight)
<1>1. s.value \in Int /\ s.confidence \in Int /\ s.weight \in Int
  BY DEF Signal
<1> HIDE DEF s
<1>2. IsFiniteSet({s})
  BY FS_Singleton
<1>3. Measured({s})
  BY <1>1, <1>2 DEF Measured
<1> QED
  BY <1>3 DEF s

LEMMA UnionMeasured ==
  ASSUME NEW F, IsFiniteSet(F), \A S \in F : Measured(S)
  PROVE  Measured(UNION F)
<1>1. \A S \in F : IsFiniteSet(S)
  BY DEF Measured
<1>2. IsFiniteSet(UNION F)
  BY <1>1, FiniteUnion
<1>3. \A s \in UNION F : s.value \in Int /\ s.confidence \in Int /\ s.weight \in Int
  BY DEF Measured
<1> QED
  BY <1>2, <1>3 DEF Measured

LEMMA EachMeasured ==
  ASSUME NEW S, IsFiniteSet(S), NEW f, \A x \in S : Measured(f[x])
  PROVE  Measured(UNION {f[x] : x \in S})
<1> DEFINE F == {f[x] : x \in S}
<1>1. IsFiniteSet(F)
  BY FiniteImage
<1>2. \A T \in F : Measured(T)
  OBVIOUS
<1> HIDE DEF F
<1>3. Measured(UNION F)
  BY <1>1, <1>2, UnionMeasured
<1> QED
  BY <1>3 DEF F

LEMMA IpMeasured == \A ip, known : Measured(IpSignals(ip, known))
<1> SUFFICES ASSUME NEW ip, NEW known
             PROVE  Measured(IpSignals(ip, known))
  OBVIOUS
<1> DEFINE s1 == {Signal("network", "ip.blocklisted", 100, 100, 10)}
           s2 == {Signal("network", "ip.bogon", 90, 95, 10)}
           s3 == {Signal("network", "ip.tor", 85, 98, 10)}
           s4 == {Signal("network", "ip.datacenter", 60, 90, 10)}
           s5 == {Signal("network", "ip.vpn", 50, 80, 10)}
<1>1. IpSignals(ip, known) \subseteq s1 \cup s2 \cup s3 \cup s4 \cup s5
  BY DEF IpSignals, If
<1>2. /\ Measured(s1)
      /\ Measured(s2)
      /\ Measured(s3)
      /\ Measured(s4)
      /\ Measured(s5)
  BY SignalMeasured
<1> HIDE DEF s1, s2, s3, s4, s5
<1>3. Measured(s1 \cup s2 \cup s3 \cup s4 \cup s5)
  BY <1>2, JoinMeasured
<1> QED
  BY <1>1, <1>3, PartMeasured

LEMMA HeadersMeasured == \A h : Measured(HeaderSignals(h))
<1> SUFFICES ASSUME NEW h
             PROVE  Measured(HeaderSignals(h))
  OBVIOUS
<1> DEFINE missing == {"host", "user-agent", "accept", "accept-language"} \ h.names
<1>0. 80 + 5 * Cardinality(missing) \in Int
  <2>1. /\ IsFiniteSet({"host"}) /\ IsFiniteSet({"user-agent"})
        /\ IsFiniteSet({"accept"}) /\ IsFiniteSet({"accept-language"})
    BY FS_Singleton
  <2>2. IsFiniteSet({"host"} \cup {"user-agent"} \cup {"accept"} \cup {"accept-language"})
    BY <2>1, FS_Union
  <2>3. missing \subseteq {"host"} \cup {"user-agent"} \cup {"accept"} \cup {"accept-language"}
    OBVIOUS
  <2>4. IsFiniteSet(missing)
    BY <2>2, <2>3, FS_Subset
  <2> HIDE DEF missing
  <2>5. Cardinality(missing) \in Nat
    BY <2>4, FS_CardinalityType
  <2> QED
    BY <2>5
<1> DEFINE s1 == {Protocol("headers.missing_essential", 80 + 5 * Cardinality(missing), 95, 15)}
           s2 == {Protocol("headers.ua_empty", 100, 100, 20)}
           s3 == {Protocol("headers.ua_known_bot", 100, 100, 20)}
           s4 == {Protocol("headers.ua_outdated", 70, 80, 12)}
           s5 == {Protocol("headers.accept_generic", 60, 70, 10)}
           s6 == {Protocol("headers.order_anomaly", 30, 40, 11)}
           s7 == {Protocol("headers.missing_client_hints", 85, 90, 15)}
           s8 == {Protocol("headers.connection_close", 40, 60, 8)}
           s9 == {Protocol("headers.missing_referer_on_api", 75, 85, 13)}
           s10 == {Protocol("headers.count_too_low", 80, 90, 12)}
           s11 == {Protocol("headers.count_too_high", 70, 85, 11)}
<1>1. HeaderSignals(h) \subseteq s1 \cup s2 \cup s3 \cup s4 \cup s5 \cup s6 \cup s7 \cup s8 \cup s9 \cup s10 \cup s11
  BY DEF HeaderSignals, If
<1>2. /\ Measured(s1)
      /\ Measured(s2)
      /\ Measured(s3)
      /\ Measured(s4)
      /\ Measured(s5)
      /\ Measured(s6)
      /\ Measured(s7)
      /\ Measured(s8)
      /\ Measured(s9)
      /\ Measured(s10)
      /\ Measured(s11)
  BY SignalMeasured, <1>0 DEF Protocol
<1> HIDE DEF s1, s2, s3, s4, s5, s6, s7, s8, s9, s10, s11
<1>3. Measured(s1 \cup s2 \cup s3 \cup s4 \cup s5 \cup s6 \cup s7 \cup s8 \cup s9 \cup s10 \cup s11)
  BY <1>2, JoinMeasured
<1> QED
  BY <1>1, <1>3, PartMeasured

LEMMA TlsMeasured == \A tls, modern : Measured(TlsSignals(tls, modern))
<1> SUFFICES ASSUME NEW tls, NEW modern
             PROVE  Measured(TlsSignals(tls, modern))
  OBVIOUS
<1> DEFINE s1 == {Protocol("tls.ja3_match", 85, 95, 15)}
           s2 == {Protocol("tls.ja3_match", 60, 95, 15)}
           s3 == {Protocol("tls.outdated_version", 70, 90, 12)}
           s4 == {Protocol("tls.weak_ciphers", 65, 80, 10)}
           s5 == {Protocol("tls.missing_alpn_h2", 75, 85, 12)}
           s6 == {Protocol("tls.ja4l_latency_proxy", 60, 70, 10)}
<1>1. TlsSignals(tls, modern) \subseteq s1 \cup s2 \cup s3 \cup s4 \cup s5 \cup s6
  BY DEF TlsSignals, If
<1>2. /\ Measured(s1)
      /\ Measured(s2)
      /\ Measured(s3)
      /\ Measured(s4)
      /\ Measured(s5)
      /\ Measured(s6)
  BY SignalMeasured DEF Protocol
<1> HIDE DEF s1, s2, s3, s4, s5, s6
<1>3. Measured(s1 \cup s2 \cup s3 \cup s4 \cup s5 \cup s6)
  BY <1>2, JoinMeasured
<1> QED
  BY <1>1, <1>3, PartMeasured

LEMMA Http2Measured == \A http2, chrome : Measured(Http2Signals(http2, chrome))
<1> SUFFICES ASSUME NEW http2, NEW chrome
             PROVE  Measured(Http2Signals(http2, chrome))
  OBVIOUS
<1> DEFINE s1 == {Protocol("http2.fingerprint_match", 0, 95, 14)}
           s2 == {Protocol("http2.fingerprint_match", 70, 95, 14)}
           s3 == {Protocol("http2.ua_inconsistency", 85, 90, 16)}
           s4 == {Protocol("http2.pseudo_header_anomaly", 50, 70, 10)}
<1>1. Http2Signals(http2, chrome) \subseteq s1 \cup s2 \cup s3 \cup s4
  BY DEF Http2Signals, If
<1>2. /\ Measured(s1)
      /\ Measured(s2)
      /\ Measured(s3)
      /\ Measured(s4)
  BY SignalMeasured DEF Protocol
<1> HIDE DEF s1, s2, s3, s4
<1>3. Measured(s1 \cup s2 \cup s3 \cup s4)
  BY <1>2, JoinMeasured
<1> QED
  BY <1>1, <1>3, PartMeasured

LEMMA HoneypotMeasured == \A trap, filled : Measured(HoneypotSignals(trap, filled))
<1> SUFFICES ASSUME NEW trap, NEW filled
             PROVE  Measured(HoneypotSignals(trap, filled))
  OBVIOUS
<1> DEFINE s1 == {Signal("behavioral", "honeypot.trap_endpoint", 90, 95, 20)}
           s2 == {Signal("behavioral", "honeypot.form_filled", 100, 98, 20)}
           s3 == {Signal("behavioral", "honeypot.form_filled_again", 100, 98, 20)}
<1>1. HoneypotSignals(trap, filled) \subseteq s1 \cup s2 \cup s3
  BY DEF HoneypotSignals, If
<1>2. /\ Measured(s1)
      /\ Measured(s2)
      /\ Measured(s3)
  BY SignalMeasured
<1> HIDE DEF s1, s2, s3
<1>3. Measured(s1 \cup s2 \cup s3)
  BY <1>2, JoinMeasured
<1> QED
  BY <1>1, <1>3, PartMeasured

LEMMA SessionMeasured == \A anomalies : Measured(SessionSignals(anomalies))
<1> SUFFICES ASSUME NEW anomalies
             PROVE  Measured(SessionSignals(anomalies))
  OBVIOUS
<1> DEFINE s1 == {Signal("reputation", "session.ip_changed", 70, 70, 12)}
           s2 == {Signal("device", "session.fingerprint_changed", 85, 85, 14)}
           s3 == {Signal("behavioral", "session.velocity_spike", 75, 80, 12)}
<1>1. SessionSignals(anomalies) \subseteq s1 \cup s2 \cup s3
  BY DEF SessionSignals, If
<1>2. /\ Measured(s1)
      /\ Measured(s2)
      /\ Measured(s3)
  BY SignalMeasured
<1> HIDE DEF s1, s2, s3
<1>3. Measured(s1 \cup s2 \cup s3)
  BY <1>2, JoinMeasured
<1> QED
  BY <1>1, <1>3, PartMeasured

LEMMA BehaviorMeasured == \A data : Measured(analyzeBehavior(data))
<1> SUFFICES ASSUME NEW data
             PROVE  Measured(analyzeBehavior(data))
  OBVIOUS
<1> DEFINE s1 == {Signal("device", "behavior.headless_browser", 95, 90, 15)}
           s2 == {Signal("device", "behavior.antidetect_browser", 80, 70, 12)}
           s3 == {Signal("behavioral", "behavior.mouse_linear", 70, 70, 10)}
           s4 == {Signal("behavioral", "behavior.mouse_no_tremor", 55, 60, 10)}
           s5 == {Signal("behavioral", "behavior.key_dwell_too_short", 75, 75, 10)}
           s6 == {Signal("behavioral", "behavior.typing_uniform", 65, 70, 10)}
           s7 == {Signal("behavioral", "behavior.programmatic_scroll", 50, 60, 10)}
           s8 == {Signal("behavioral", "behavior.no_interaction", 40, 50, 8)}
<1>1. analyzeBehavior(data) \subseteq s1 \cup s2 \cup s3 \cup s4 \cup s5 \cup s6 \cup s7 \cup s8
  BY DEF analyzeBehavior, If
<1>2. /\ Measured(s1)
      /\ Measured(s2)
      /\ Measured(s3)
      /\ Measured(s4)
      /\ Measured(s5)
      /\ Measured(s6)
      /\ Measured(s7)
      /\ Measured(s8)
  BY SignalMeasured
<1> HIDE DEF s1, s2, s3, s4, s5, s6, s7, s8
<1>3. Measured(s1 \cup s2 \cup s3 \cup s4 \cup s5 \cup s6 \cup s7 \cup s8)
  BY <1>2, JoinMeasured
<1> QED
  BY <1>1, <1>3, PartMeasured

LEMMA InputMeasured ==
  \A severity \in Int, findings \in Nat : Measured(InputSignals(severity, findings))
<1> SUFFICES ASSUME NEW severity \in Int, NEW findings \in Nat
             PROVE  Measured(InputSignals(severity, findings))
  OBVIOUS
<1> DEFINE confident == Min({95, 60 + 10 * findings})
<1>1. confident \in Int
  <2>1. 60 + 10 * findings \in Int
    OBVIOUS
  <2> QED
    BY <2>1, MinOfTwo
<1> HIDE DEF confident
<1>2. Measured({Signal("payload", "input.threat", severity, confident, 13)})
  BY <1>1, SignalMeasured
<1>3. InputSignals(severity, findings)
        \subseteq {Signal("payload", "input.threat", severity, confident, 13)}
  BY DEF InputSignals, If, confident
<1> QED
  BY <1>2, <1>3, PartMeasured

LEMMA PatternMeasured ==
  ASSUME NEW p \in {"timer_regular", "sequential_ids", "crawl_breadth",
                    "error_probing", "no_referer", "no_assets"}
  PROVE  Measured({PatternSignal(p)})
<1>1. CASE p = "timer_regular"
  BY <1>1, SignalMeasured DEF PatternSignal
<1>2. CASE p = "sequential_ids"
  BY <1>2, SignalMeasured DEF PatternSignal
<1>3. CASE p = "crawl_breadth"
  BY <1>3, SignalMeasured DEF PatternSignal
<1>4. CASE p = "error_probing"
  BY <1>4, SignalMeasured DEF PatternSignal
<1>5. CASE p = "no_referer"
  BY <1>5, SignalMeasured DEF PatternSignal
<1>6. CASE p = "no_assets"
  BY <1>6, SignalMeasured DEF PatternSignal
<1> QED
  BY <1>1, <1>2, <1>3, <1>4, <1>5, <1>6

LEMMA FindingsMeasured ==
  ASSUME NEW r \in Judged, NEW i \in 1..11
  PROVE  Measured(Findings(r)[i])
<1>0. /\ r.listed \subseteq 0..100 /\ r.severity \in Int /\ r.findings \in Nat
      /\ IsFiniteSet(r.tls) /\ IsFiniteSet(r.http2) /\ IsFiniteSet(r.behaviour)
      /\ r.patterns \subseteq {"timer_regular", "sequential_ids", "crawl_breadth",
                               "error_probing", "no_referer", "no_assets"}
  BY RiskAssumption
<1>1. Measured(If(r.tooFast, RateSignal))
  <2>1. Measured({RateSignal})
    BY SignalMeasured DEF RateSignal
  <2>2. If(r.tooFast, RateSignal) \subseteq {RateSignal}
    BY DEF If
  <2> QED
    BY <2>1, <2>2, PartMeasured
<1>2. Measured({ThreatSignal(severity, r.source) : severity \in r.listed})
  <2> DEFINE f == [severity \in r.listed |-> {ThreatSignal(severity, r.source)}]
  <2>1. IsFiniteSet(r.listed)
    <3>1. PICK most \in Int : most = 100
      OBVIOUS
    <3>2. IsFiniteSet(0..most)
      BY FS_Interval
    <3> QED
      BY <3>1, <3>2, <1>0, FS_Subset
  <2>2. \A severity \in r.listed : Measured(f[severity])
    <3> SUFFICES ASSUME NEW severity \in r.listed
                 PROVE  Measured({ThreatSignal(severity, r.source)})
      OBVIOUS
    <3>1. severity \in Int
      BY <1>0
    <3> QED
      BY <3>1, SignalMeasured DEF ThreatSignal
  <2>3. Measured(UNION {f[severity] : severity \in r.listed})
    <3> HIDE DEF f
    <3> QED
      BY <2>1, <2>2, EachMeasured
  <2>4. {ThreatSignal(severity, r.source) : severity \in r.listed}
          = UNION {f[severity] : severity \in r.listed}
    OBVIOUS
  <2> QED
    BY <2>3, <2>4
<1>3. Measured(UNION {TlsSignals(x, r.headers.chrome > 0) : x \in r.tls})
  <2> DEFINE f == [x \in r.tls |-> TlsSignals(x, r.headers.chrome > 0)]
  <2>1. \A x \in r.tls : Measured(f[x])
    BY TlsMeasured
  <2>2. {f[x] : x \in r.tls} = {TlsSignals(x, r.headers.chrome > 0) : x \in r.tls}
    OBVIOUS
  <2>3. Measured(UNION {f[x] : x \in r.tls})
    <3> HIDE DEF f
    <3> QED
      BY <1>0, <2>1, EachMeasured
  <2> QED
    BY <2>2, <2>3
<1>4. Measured(UNION {Http2Signals(x, r.headers.chrome > 0) : x \in r.http2})
  <2> DEFINE f == [x \in r.http2 |-> Http2Signals(x, r.headers.chrome > 0)]
  <2>1. \A x \in r.http2 : Measured(f[x])
    BY Http2Measured
  <2>2. {f[x] : x \in r.http2} = {Http2Signals(x, r.headers.chrome > 0) : x \in r.http2}
    OBVIOUS
  <2>3. Measured(UNION {f[x] : x \in r.http2})
    <3> HIDE DEF f
    <3> QED
      BY <1>0, <2>1, EachMeasured
  <2> QED
    BY <2>2, <2>3
<1>5. Measured(UNION {analyzeBehavior(x) : x \in r.behaviour})
  <2> DEFINE f == [x \in r.behaviour |-> analyzeBehavior(x)]
  <2>1. \A x \in r.behaviour : Measured(f[x])
    BY BehaviorMeasured
  <2>2. {f[x] : x \in r.behaviour} = {analyzeBehavior(x) : x \in r.behaviour}
    OBVIOUS
  <2>3. Measured(UNION {f[x] : x \in r.behaviour})
    <3> HIDE DEF f
    <3> QED
      BY <1>0, <2>1, EachMeasured
  <2> QED
    BY <2>2, <2>3
<1>6. Measured({PatternSignal(p) : p \in r.patterns})
  <2> DEFINE f == [p \in r.patterns |-> {PatternSignal(p)}]
  <2>1. IsFiniteSet(r.patterns)
    <3>1. /\ IsFiniteSet({"timer_regular"}) /\ IsFiniteSet({"sequential_ids"})
          /\ IsFiniteSet({"crawl_breadth"}) /\ IsFiniteSet({"error_probing"})
          /\ IsFiniteSet({"no_referer"}) /\ IsFiniteSet({"no_assets"})
      BY FS_Singleton
    <3>2. /\ IsFiniteSet({"timer_regular"} \cup {"sequential_ids"} \cup {"crawl_breadth"})
          /\ IsFiniteSet({"error_probing"} \cup {"no_referer"} \cup {"no_assets"})
      BY <3>1, FS_Union
    <3>3. IsFiniteSet(({"timer_regular"} \cup {"sequential_ids"} \cup {"crawl_breadth"})
                      \cup ({"error_probing"} \cup {"no_referer"} \cup {"no_assets"}))
      BY <3>2, FS_Union
    <3>4. r.patterns
            \subseteq ({"timer_regular"} \cup {"sequential_ids"} \cup {"crawl_breadth"})
                      \cup ({"error_probing"} \cup {"no_referer"} \cup {"no_assets"})
      BY <1>0
    <3> QED
      BY <3>3, <3>4, FS_Subset
  <2>2. \A p \in r.patterns : Measured(f[p])
    BY <1>0, PatternMeasured
  <2>3. Measured(UNION {f[p] : p \in r.patterns})
    <3> HIDE DEF f
    <3> QED
      BY <2>1, <2>2, EachMeasured
  <2>4. {PatternSignal(p) : p \in r.patterns} = UNION {f[p] : p \in r.patterns}
    OBVIOUS
  <2> QED
    BY <2>3, <2>4
<1>7. /\ Measured(InputSignals(r.severity, r.findings))
      /\ Measured(IpSignals(r.ip, r.known)) /\ Measured(HeaderSignals(r.headers))
      /\ Measured(HoneypotSignals(r.trap, r.filled))
      /\ Measured(SessionSignals(r.anomalies))
  BY <1>0, InputMeasured, IpMeasured, HeadersMeasured, HoneypotMeasured, SessionMeasured
<1>8. /\ Findings(r)[1] = If(r.tooFast, RateSignal)
      /\ Findings(r)[2] = IpSignals(r.ip, r.known)
      /\ Findings(r)[3] = {ThreatSignal(severity, r.source) : severity \in r.listed}
      /\ Findings(r)[4] = HeaderSignals(r.headers)
      /\ Findings(r)[5] = UNION {TlsSignals(tls, r.headers.chrome > 0) : tls \in r.tls}
      /\ Findings(r)[6] = UNION {Http2Signals(h, r.headers.chrome > 0) : h \in r.http2}
      /\ Findings(r)[7] = HoneypotSignals(r.trap, r.filled)
      /\ Findings(r)[8] = InputSignals(r.severity, r.findings)
      /\ Findings(r)[9] = SessionSignals(r.anomalies)
      /\ Findings(r)[10] = {PatternSignal(p) : p \in r.patterns}
      /\ Findings(r)[11] = UNION {analyzeBehavior(data) : data \in r.behaviour}
  BY DEF Findings
<1>9. i \in {1, 2, 3, 4, 5, 6, 7, 8, 9, 10, 11}
  OBVIOUS
<1> QED
  BY <1>1, <1>2, <1>3, <1>4, <1>5, <1>6, <1>7, <1>8, <1>9

-----------------------------------------------------------------------------
-----------------------------------------------------------------------------
RiskInv == request \in Judged /\ next \in Nat \ {0} /\ Measured(signals)

LEMMA RiskInvHolds == RiskSpec => []RiskInv
<1>1. RiskInit => RiskInv
  BY NothingMeasured DEF RiskInit, RiskInv
<1>2. RiskInv /\ [Analyze]_riskVars => RiskInv'
  <2> SUFFICES ASSUME RiskInv, [Analyze]_riskVars PROVE RiskInv'
    OBVIOUS
  <2>1. CASE Analyze
    <3>1. next \in 1..11
      BY <2>1 DEF Analyze, RiskInv, Findings
    <3>2. Measured(Findings(request)[next])
      BY <3>1, FindingsMeasured DEF RiskInv
    <3>3. Measured(signals')
      BY <2>1, <3>2, JoinMeasured DEF Analyze, RiskInv
    <3> QED
      BY <2>1, <3>3 DEF Analyze, RiskInv
  <2>2. CASE UNCHANGED riskVars
    BY <2>2 DEF riskVars, RiskInv
  <2> QED
    BY <2>1, <2>2
<1> QED
  BY <1>1, <1>2, PTL DEF RiskSpec

\* "Evidence from another layer can only raise the score" (RiskScorer.ts:11):
\* whatever a module finds, if nothing was found before in its categories, the
\* score does not fall, no mode's verdict becomes milder and no threat is
\* taken back - for all requests and thresholds, and whatever the boosts do.
THEOREM EvidenceRaisesAlways == RiskSpec => EvidenceRaises
<1>1. ASSUME RiskInv, RiskInv', [Analyze]_riskVars, signals' # signals,
             {s.category : s \in signals' \ signals}
               \cap {s.category : s \in signals} = {}
      PROVE  /\ Score(signals') >= Score(signals)
             /\ \A mode \in {"monitor", "strict", "enforce"} :
                  Severity(decide(Score(signals'), mode))
                    >= Severity(decide(Score(signals), mode))
             /\ Threats(signals, request.auth) \subseteq Threats(signals', request.auth)
  <2>1. signals \subseteq signals'
    BY <1>1 DEF Analyze, riskVars
  <2>2. Measured(signals')
    BY <1>1 DEF RiskInv
  <2>3. Score(signals) \in 0..100 /\ Score(signals') \in 0..100
        /\ Score(signals) <= Score(signals')
    BY <1>1, <2>1, <2>2, ScoreGrows
  <2> QED
    BY <2>1, <2>3, VerdictGrows, ThreatsGrow
<1> QED
  BY <1>1, RiskInvHolds, PTL DEF EvidenceRaises, RiskSpec
-----------------------------------------------------------------------------
(* Recursive functions over 0..n: a function that begins with first and goes *)
(* on with g, from S into S, exists.                                         *)

IsStepwise(f, n, S, first, g) ==
  /\ f \in [0..n -> S] /\ f[0] = first
  /\ \A i \in 1..n : f[i] = g[<<f[i - 1], i>>]

LEMMA StepwiseExists ==
  ASSUME NEW n \in Nat, NEW S, NEW first \in S, NEW g \in [S \X (1..n) -> S]
  PROVE  \E f : IsStepwise(f, n, S, first, g)
<1> DEFINE Good(m) == \E f : IsStepwise(f, m, S, first, g)
           Bad == {m \in 0..n : ~Good(m)}
<1>0. Good(0)
  <2> DEFINE f == [i \in 0..0 |-> first]
  <2>1. IsStepwise(f, 0, S, first, g)
    <3>1. f \in [0..0 -> S] /\ f[0] = first
      OBVIOUS
    <3>2. \A i \in 1..0 : FALSE
      OBVIOUS
    <3> HIDE DEF f
    <3> QED
      BY <3>1, <3>2 DEF IsStepwise
  <2> HIDE DEF f
  <2> QED
    BY <2>1
<1> HIDE DEF Good
<1> SUFFICES ASSUME Bad # {} PROVE FALSE
  <2>1. n \in 0..n
    OBVIOUS
  <2> QED
    BY <2>1 DEF Good
<1>1. PICK m \in Bad : \A k \in Bad : m <= k
  <2>1. Bad \in SUBSET Nat
    OBVIOUS
  <2> HIDE DEF Bad
  <2> QED
    BY <2>1, LeastOf
<1>2. m \in 1..n /\ Good(m - 1)
  BY <1>0, <1>1
<1>3. PICK f : IsStepwise(f, m - 1, S, first, g)
  BY <1>2 DEF Good
<1> DEFINE new == g[<<f[m - 1], m>>]
           h == [i \in 0..m |-> IF i = m THEN new ELSE f[i]]
<1>4. f \in [0..(m - 1) -> S] /\ f[0] = first
      /\ \A i \in 1..(m - 1) : f[i] = g[<<f[i - 1], i>>]
  BY <1>3 DEF IsStepwise
<1>5. f[m - 1] \in S
  BY <1>2, <1>4
<1>6. new \in S
  BY <1>2, <1>5
<1>7. h[m] = g[<<f[m - 1], m>>] /\ \A i \in 0..(m - 1) : h[i] = f[i]
  BY <1>2
<1>8. h \in [0..m -> S]
  <2> HIDE DEF new
  <2>1. \A i \in 0..m : i # m => f[i] \in S
    BY <1>2, <1>4
  <2> QED
    BY <1>6, <2>1
<1> HIDE DEF h, new
<1>9. h[0] = first
  BY <1>2, <1>4, <1>7
<1>10. \A i \in 1..m : h[i] = g[<<h[i - 1], i>>]
  <2> SUFFICES ASSUME NEW i \in 1..m PROVE h[i] = g[<<h[i - 1], i>>]
    OBVIOUS
  <2>1. h[i - 1] = f[i - 1]
    <3>1. i - 1 \in 0..(m - 1)
      BY <1>2
    <3> QED
      BY <3>1, <1>7
  <2>2. CASE i = m
    BY <1>7, <2>1, <2>2
  <2>3. CASE i # m
    <3>1. i \in 1..(m - 1) /\ i \in 0..(m - 1)
      BY <1>2, <2>3
    <3> QED
      BY <3>1, <1>4, <1>7, <2>1
  <2> QED
    BY <2>2, <2>3
<1>11. Good(m)
  BY <1>8, <1>9, <1>10 DEF IsStepwise, Good
<1> QED
  BY <1>1, <1>11

-----------------------------------------------------------------------------
(* longestSequentialRun(): the scan knows the longest run that ends where it *)
(* is, and the longest of all those it has passed.                           *)

Path == [template : Templates, id : Nat \cup {NoId}]

\* The paths from the a-th to the b-th are a sequence.
Run(paths, a, b) ==
  /\ \A k \in (a + 1)..b : Sequel(paths[k - 1], paths[k])
  /\ \A k \in (a + 2)..b :
       paths[k].id - paths[k - 1].id = paths[a + 1].id - paths[a].id

\* What the scan knows when it has passed i paths.
Current(s, paths, i) ==
  /\ s.prev = paths[i] /\ s.run \in 1..i
  /\ s.step = IF s.run = 1 THEN 0 ELSE paths[i].id - paths[i - 1].id
  /\ Run(paths, i - s.run + 1, i)
  /\ \A n \in 1..i : Run(paths, i - n + 1, i) => n <= s.run
Longest(best, paths, i) ==
  /\ \E j \in 1..i : best \in 1..j /\ Run(paths, j - best + 1, j)
  /\ \A j \in 1..i : \A n \in 1..j : Run(paths, j - n + 1, j) => n <= best

LEMMA SequelFacts ==
  ASSUME NEW p \in Path, NEW q \in Path, Sequel(p, q)
  PROVE  p.id \in Nat /\ q.id \in Nat /\ q.id - p.id # 0
BY DEF Sequel, Path

\* The run that ends at the next path.
LEMMA CurrentStep ==
  ASSUME NEW paths \in Seq(Path), NEW i \in 2..Len(paths), NEW s,
         Current(s, paths, i - 1)
  PROVE  Current(NextRun(s, paths[i]), paths, i)
<1> DEFINE new == NextRun(s, paths[i])
           p == paths[i - 1]
           q == paths[i]
           d == q.id - p.id
<1>1. p \in Path /\ q \in Path /\ s.prev = p /\ i \in 2..Len(paths)
      /\ s.run \in 1..(i - 1)
  BY DEF Current
<1>2. /\ new.prev = q
      /\ new.run = IF ~Sequel(p, q) THEN 1
                   ELSE IF s.step = d THEN s.run + 1 ELSE 2
      /\ new.step = IF new.run = 1 THEN 0 ELSE d
  BY <1>1 DEF NextRun
<1> HIDE DEF new
<1>3. CASE ~Sequel(p, q)
  <2>1. new.run = 1
    BY <1>2, <1>3
  <2>2. Run(paths, i, i)
    BY <1>1 DEF Run
  <2>3. ASSUME NEW n \in 1..i, Run(paths, i - n + 1, i), n > 1
        PROVE  FALSE
    <3>1. i \in (i - n + 1 + 1)..i
      BY <1>1, <2>3
    <3> QED
      BY <1>3, <2>3, <3>1 DEF Run
  <2>4. \A n \in 1..i : Run(paths, i - n + 1, i) => n <= 1
    BY <2>3
  <2> QED
    BY <1>1, <1>2, <2>1, <2>2, <2>4 DEF Current, new
<1>4. CASE Sequel(p, q)
  <2>1. p.id \in Nat /\ q.id \in Nat /\ d # 0 /\ d \in Int
    BY <1>1, <1>4, SequelFacts
  <2>2. ASSUME NEW n \in 3..i, Run(paths, i - n + 1, i)
        PROVE  n - 1 <= s.run /\ s.step = d
    <3>1. Run(paths, i - n + 1, i - 1)
      BY <1>1, <2>2 DEF Run
    <3>2. i - n + 1 = (i - 1) - (n - 1) + 1 /\ n - 1 \in 1..(i - 1)
      BY <1>1, <2>2
    <3>3. n - 1 <= s.run
      BY <3>1, <3>2 DEF Current
    <3>4. s.run # 1 /\ s.step = paths[i - 1].id - paths[i - 2].id
      <4>1. s.run # 1
        BY <1>1, <2>2, <3>3
      <4>2. (i - 1) - 1 = i - 2
        BY <1>1
      <4> QED
        BY <4>1, <4>2 DEF Current
    <3>5. i \in (i - n + 1 + 2)..i
      BY <1>1, <2>2
    <3>6. d = paths[i - n + 1 + 1].id - paths[i - n + 1].id
      BY <2>2, <3>5 DEF Run
    <3>7. paths[i - 1].id - paths[i - 2].id
            = paths[i - n + 1 + 1].id - paths[i - n + 1].id
      <4>1. CASE n = 3
        <5>1. i - n + 1 = i - 2 /\ i - n + 1 + 1 = i - 1
          BY <1>1, <4>1
        <5> QED
          BY <5>1
      <4>2. CASE n # 3
        <5>1. i - 1 \in (i - n + 1 + 2)..i /\ (i - 1) - 1 = i - 2
          BY <1>1, <2>2, <4>2
        <5> QED
          BY <2>2, <5>1 DEF Run
      <4> QED
        BY <4>1, <4>2
    <3> QED
      BY <3>3, <3>4, <3>6, <3>7
  <2>3. CASE s.step = d
    <3>1. new.run = s.run + 1 /\ new.run # 1 /\ new.step = d /\ new.run \in 1..i
      BY <1>1, <1>2, <1>4, <2>3
    <3>2. s.run # 1
      BY <2>1, <2>3 DEF Current
    <3>3. Run(paths, i - s.run, i)
      <4>1. Run(paths, i - s.run, i - 1)
        <5>1. (i - 1) - s.run + 1 = i - s.run
          BY <1>1
        <5> QED
          BY <5>1 DEF Current
      <4>2. d = paths[i - 1].id - paths[i - 2].id
        <5>1. (i - 1) - 1 = i - 2
          BY <1>1
        <5> QED
          BY <2>3, <3>2, <5>1 DEF Current
      <4>3. paths[i - 1].id - paths[i - 2].id
              = paths[i - s.run + 1].id - paths[i - s.run].id
        <5>1. CASE s.run = 2
          <6>1. i - s.run + 1 = i - 1 /\ i - s.run = i - 2
            BY <1>1, <5>1
          <6> QED
            BY <6>1
        <5>2. CASE s.run # 2
          <6>1. i - 1 \in (i - s.run + 2)..(i - 1) /\ (i - 1) - 1 = i - 2
            BY <1>1, <3>2, <5>2
          <6> QED
            BY <4>1, <6>1 DEF Run
        <5> QED
          BY <5>1, <5>2
      <4>4. \A k \in (i - s.run + 1)..i : Sequel(paths[k - 1], paths[k])
        <5> SUFFICES ASSUME NEW k \in (i - s.run + 1)..i
                     PROVE  Sequel(paths[k - 1], paths[k])
          OBVIOUS
        <5>1. k = i \/ k \in (i - s.run + 1)..(i - 1)
          BY <1>1
        <5> QED
          BY <1>4, <4>1, <5>1 DEF Run
      <4>5. \A k \in (i - s.run + 2)..i :
              paths[k].id - paths[k - 1].id
                = paths[i - s.run + 1].id - paths[i - s.run].id
        <5> SUFFICES ASSUME NEW k \in (i - s.run + 2)..i
                     PROVE  paths[k].id - paths[k - 1].id
                              = paths[i - s.run + 1].id - paths[i - s.run].id
          OBVIOUS
        <5>1. k = i \/ k \in (i - s.run + 2)..(i - 1)
          BY <1>1
        <5> QED
          BY <4>1, <4>2, <4>3, <5>1 DEF Run
      <4> QED
        BY <4>4, <4>5 DEF Run
    <3>4. i - new.run + 1 = i - s.run
      BY <1>1, <3>1
    <3>5. \A n \in 1..i : Run(paths, i - n + 1, i) => n <= new.run
      <4> SUFFICES ASSUME NEW n \in 1..i, Run(paths, i - n + 1, i)
                   PROVE  n <= new.run
        OBVIOUS
      <4>1. CASE n \in 3..i
        BY <1>1, <2>2, <3>1, <4>1
      <4>2. CASE n \notin 3..i
        BY <1>1, <3>1, <3>2, <4>2
      <4> QED
        BY <4>1, <4>2
    <3> QED
      BY <1>2, <3>1, <3>3, <3>4, <3>5 DEF Current, new
  <2>4. CASE s.step # d
    <3>1. new.run = 2 /\ new.step = d
      BY <1>2, <1>4, <2>4
    <3>2. Run(paths, i - 2 + 1, i)
      <4>1. \A k \in (i - 2 + 1 + 1)..i : k = i
        BY <1>1
      <4>2. \A k \in (i - 2 + 1 + 2)..i : FALSE
        BY <1>1
      <4> QED
        BY <1>4, <4>1, <4>2 DEF Run
    <3>3. \A n \in 1..i : Run(paths, i - n + 1, i) => n <= 2
      <4> SUFFICES ASSUME NEW n \in 1..i, Run(paths, i - n + 1, i)
                   PROVE  n <= 2
        OBVIOUS
      <4>1. n \notin 3..i
        BY <2>2, <2>4
      <4> QED
        BY <1>1, <4>1
    <3> QED
      BY SMTT(30), <1>1, <1>2, <3>1, <3>2, <3>3 DEF Current, new
  <2> QED
    BY <2>3, <2>4
<1> QED
  BY <1>3, <1>4
\* The longest run so far.
LEMMA LongestStep ==
  ASSUME NEW paths \in Seq(Path), NEW i \in 1..Len(paths), NEW s, NEW best \in Nat,
         Current(s, paths, i), best >= 1,
         i = 1 => best = 1, i # 1 => Longest(best, paths, i - 1)
  PROVE  Longest(Max({best, s.run}), paths, i) /\ Max({best, s.run}) \in Nat \ {0}
<1> DEFINE new == Max({best, s.run})
<1>1. s.run \in 1..i
  BY DEF Current
<1>2. new = IF best >= s.run THEN best ELSE s.run
  BY <1>1, MaxOfTwo
<1> HIDE DEF new
<1>3. \E j \in 1..i : new \in 1..j /\ Run(paths, j - new + 1, j)
  <2>1. CASE new = s.run
    BY <1>1, <2>1 DEF Current
  <2>2. CASE new # s.run
    <3>1. new = best /\ i # 1
      BY <1>1, <1>2, <2>2
    <3>2. PICK j \in 1..(i - 1) : best \in 1..j /\ Run(paths, j - best + 1, j)
      BY <3>1 DEF Longest
    <3>3. j \in 1..i
      OBVIOUS
    <3> QED
      BY <3>1, <3>2, <3>3
  <2> QED
    BY <2>1, <2>2
<1>4. ASSUME NEW j \in 1..i, NEW n \in 1..j, Run(paths, j - n + 1, j)
      PROVE  n <= new
  <2>1. CASE j = i
    <3>1. n <= s.run
      BY <1>4, <2>1 DEF Current
    <3> QED
      BY <1>1, <1>2, <3>1
  <2>2. CASE j # i
    <3>1. i # 1 /\ j \in 1..(i - 1)
      BY <2>2
    <3>2. n <= best
      BY <1>4, <3>1 DEF Longest
    <3> QED
      BY <1>1, <1>2, <3>2
  <2> QED
    BY <2>1, <2>2
<1>5. new \in Nat \ {0}
  BY <1>1, <1>2
<1> QED
  BY <1>3, <1>4, <1>5 DEF Longest, new

ScanStart == [prev |-> NoPath, run |-> 1, step |-> 0, best |-> 1]
ScanStates ==
  [prev : Path \cup {NoPath}, run : Int, step : Int, best : Int]
IsScan(f, paths) ==
  f = [i \in 0..Len(paths) |->
         IF i = 0 THEN ScanStart ELSE NextRun(f[i - 1], paths[i])]

LEMMA NextRunType ==
  ASSUME NEW s \in ScanStates, NEW q \in Path
  PROVE  NextRun(s, q) \in ScanStates
<1> DEFINE d == q.id - s.prev.id
           run == IF ~Sequel(s.prev, q) THEN 1
                  ELSE IF s.step = d THEN s.run + 1 ELSE 2
<1>1. s.run \in Int /\ s.best \in Int
  BY DEF ScanStates
<1>2. run \in Int
  BY <1>1
<1>3. run # 1 => d \in Int
  <2>1. CASE Sequel(s.prev, q)
    <3>1. s.prev.id # NoId
      BY <2>1 DEF Sequel
    <3>2. s.prev \in Path
      BY <3>1 DEF ScanStates, NoPath
    <3> QED
      BY <2>1, <3>2, SequelFacts
  <2>2. CASE ~Sequel(s.prev, q)
    BY <2>2
  <2> QED
    BY <2>1, <2>2
<1> HIDE DEF run, d
<1>4. Max({s.best, run}) \in Int
  <2>1. Max({s.best, run}) = IF s.best >= run THEN s.best ELSE run
    BY <1>1, <1>2, MaxOfTwo
  <2> QED
    BY <1>1, <1>2, <2>1
<1>5. NextRun(s, q) = [prev |-> q, run |-> run, step |-> IF run = 1 THEN 0 ELSE d,
                       best |-> Max({s.best, run})]
  BY DEF NextRun, run, d
<1> QED
  BY <1>2, <1>3, <1>4, <1>5 DEF ScanStates

LEMMA ScanExists ==
  ASSUME NEW paths \in Seq(Path)
  PROVE  \E f : IsScan(f, paths)
<1> DEFINE n == Len(paths)
           g == [x \in ScanStates \X (1..n) |-> NextRun(x[1], paths[x[2]])]
<1>1. n \in Nat /\ \A i \in 1..n : paths[i] \in Path
  OBVIOUS
<1>2. ScanStart \in ScanStates
  BY DEF ScanStart, ScanStates
<1>3. \A s \in ScanStates, i \in 1..n :
        g[<<s, i>>] = NextRun(s, paths[i]) /\ g[<<s, i>>] \in ScanStates
  BY <1>1, NextRunType
<1>4. g \in [ScanStates \X (1..n) -> ScanStates]
  BY <1>1, NextRunType
<1> HIDE DEF n, g
<1>5. PICK f : IsStepwise(f, n, ScanStates, ScanStart, g)
  BY <1>1, <1>2, <1>4, StepwiseExists
<1>6. /\ f = [i \in 0..n |-> f[i]] /\ f[0] = ScanStart
      /\ \A i \in 0..n : f[i] \in ScanStates
      /\ \A i \in 1..n : f[i] = g[<<f[i - 1], i>>]
  BY <1>5 DEF IsStepwise
<1>7. \A i \in 1..n : f[i] = NextRun(f[i - 1], paths[i])
  <2> SUFFICES ASSUME NEW i \in 1..n PROVE f[i] = NextRun(f[i - 1], paths[i])
    OBVIOUS
  <2>1. i - 1 \in 0..n
    BY <1>1
  <2> QED
    BY <1>3, <1>6, <2>1
<1> DEFINE h == [i \in 0..n |-> IF i = 0 THEN ScanStart ELSE NextRun(f[i - 1], paths[i])]
<1>8. \A i \in 0..n : f[i] = h[i]
  <2> SUFFICES ASSUME NEW i \in 0..n PROVE f[i] = h[i]
    OBVIOUS
  <2>1. CASE i = 0
    BY <1>6, <2>1
  <2>2. CASE i # 0
    <3>1. i \in 1..n
      BY <1>1, <2>2
    <3>2. f[i] = NextRun(f[i - 1], paths[i])
      BY <1>7, <3>1
    <3> QED
      BY <2>2, <3>2
  <2> QED
    BY <2>1, <2>2
<1>9. f = h
  <2> HIDE DEF h
  <2>1. h = [i \in 0..n |-> h[i]]
    BY DEF h
  <2> QED
    BY <1>6, <1>8, <2>1
<1>10. IsScan(f, paths)
  BY <1>9 DEF IsScan, n
<1> QED
  BY <1>10

\* longestSequentialRun() returns the length of the longest run.
LEMMA LongestRunFacts ==
  ASSUME NEW paths \in Seq(Path)
  PROVE  /\ paths = <<>> => LongestRun(paths) = 1
         /\ paths # <<>> => Longest(LongestRun(paths), paths, Len(paths))
<1> DEFINE scan == CHOOSE f : IsScan(f, paths)
           n == Len(paths)
<1>1. IsScan(scan, paths)
  BY ScanExists
<1>2. LongestRun(paths) = scan[n].best
  BY DEF LongestRun, IsScan, ScanStart
<1> HIDE DEF scan
<1>3. n \in Nat /\ \A i \in 1..n : paths[i] \in Path
  OBVIOUS
<1>4. scan[0] = ScanStart /\ \A i \in 1..n : scan[i] = NextRun(scan[i - 1], paths[i])
  BY <1>1, <1>3 DEF IsScan
<1> DEFINE Known(i) == /\ Current(scan[i], paths, i) /\ Longest(scan[i].best, paths, i)
                       /\ scan[i].best \in Nat \ {0}
           Bad == {i \in 1..n : ~Known(i)}
<1>5. \A i \in 1..n : scan[i].best = Max({scan[i - 1].best, scan[i].run})
  <2>1. \A s, q : NextRun(s, q).best = Max({s.best, NextRun(s, q).run})
    BY DEF NextRun
  <2> SUFFICES ASSUME NEW i \in 1..n
               PROVE  scan[i].best = Max({scan[i - 1].best, scan[i].run})
    OBVIOUS
  <2>2. scan[i] = NextRun(scan[i - 1], paths[i])
    BY <1>4
  <2> QED
    BY <2>1, <2>2
<1>6. n >= 1 => Known(1)
  <2> SUFFICES ASSUME n >= 1 PROVE Known(1)
    OBVIOUS
  <2>1. scan[1] = NextRun(ScanStart, paths[1])
    BY <1>3, <1>4
  <2>2. scan[1].prev = paths[1] /\ scan[1].run = 1 /\ scan[1].step = 0
    BY <2>1 DEF NextRun, ScanStart, NoPath, Sequel
  <2>3. Run(paths, 1, 1)
    BY DEF Run
  <2>4. Current(scan[1], paths, 1)
    BY <2>2, <2>3 DEF Current
  <2>5. scan[1].best = Max({1, scan[1].run})
    BY <1>4, <1>5 DEF ScanStart
  <2>6. 1 \in 1..Len(paths)
    BY <1>3
  <2>7. Longest(Max({1, scan[1].run}), paths, 1) /\ Max({1, scan[1].run}) \in Nat \ {0}
    BY <2>4, <2>6, LongestStep, SMTT(60)
  <2> QED
    BY <2>4, <2>5, <2>7
<1>7. ASSUME NEW i \in 2..n, Known(i - 1)
      PROVE  Known(i)
  <2>1. Current(NextRun(scan[i - 1], paths[i]), paths, i)
    BY <1>7, CurrentStep
  <2>2. Current(scan[i], paths, i)
    BY <1>4, <2>1
  <2>3. i \in 1..Len(paths) /\ i # 1
    BY <1>3
  <2>4. Longest(Max({scan[i - 1].best, scan[i].run}), paths, i)
        /\ Max({scan[i - 1].best, scan[i].run}) \in Nat \ {0}
    <3> DEFINE best == scan[i - 1].best
    <3>1. best \in Nat /\ best >= 1 /\ Longest(best, paths, i - 1)
      BY <1>7
    <3> HIDE DEF best, Known
    <3>2. Longest(Max({best, scan[i].run}), paths, i) /\ Max({best, scan[i].run}) \in Nat \ {0}
      BY <2>2, <2>3, <3>1, LongestStep
    <3> QED
      BY <3>2 DEF best
  <2> QED
    BY <1>5, <2>2, <2>3, <2>4
<1> HIDE DEF Known
<1>8. Bad = {}
  <2> SUFFICES ASSUME Bad # {} PROVE FALSE
    OBVIOUS
  <2>1. Bad \in SUBSET Nat
    OBVIOUS
  <2>2. PICK i \in Bad : \A k \in Bad : i <= k
    <3> HIDE DEF Bad
    <3> QED
      BY <2>1, LeastOf
  <2>3. i # 1
    BY <1>3, <1>6, <2>2
  <2>4. i \in 2..n /\ i - 1 \in 1..n /\ i - 1 \notin Bad
    BY <1>3, <2>2, <2>3
  <2>5. Known(i - 1)
    BY <2>4
  <2> QED
    BY <1>7, <2>2, <2>4, <2>5
<1>9. paths # <<>> => n \in 1..n
  OBVIOUS
<1>10. paths # <<>> => Longest(scan[n].best, paths, n)
  BY <1>8, <1>9 DEF Known
<1>11. paths = <<>> => scan[n].best = 1
  BY <1>4 DEF ScanStart
<1> QED
  BY <1>2, <1>10, <1>11
-----------------------------------------------------------------------------
(* The pages of a history are records of it; their paths depend on nothing   *)
(* but the kinds and the paths of the records.                               *)

Record ==
  [t : Int, path : Path, kind : {"page", "asset"}, referer : BOOLEAN,
   status : {"4xx", NoStatus}]

IsFilter(f, records) ==
  f = [i \in 0..Len(records) |->
         IF i = 0 THEN <<>>
         ELSE IF records[i].kind = "page" THEN Append(f[i - 1], records[i])
         ELSE f[i - 1]]

LEMMA FilterExists ==
  ASSUME NEW records \in Seq(Record)
  PROVE  \E f : IsFilter(f, records)
<1> DEFINE n == Len(records)
           step(s, i) == IF records[i].kind = "page" THEN Append(s, records[i]) ELSE s
           g == [x \in Seq(Record) \X (1..n) |-> step(x[1], x[2])]
<1>1. n \in Nat /\ \A i \in 1..n : records[i] \in Record
  OBVIOUS
<1>2. \A s \in Seq(Record), i \in 1..n : step(s, i) \in Seq(Record)
  BY <1>1
<1> HIDE DEF step, n
<1>3. /\ g \in [Seq(Record) \X (1..n) -> Seq(Record)]
      /\ \A s \in Seq(Record), i \in 1..n : g[<<s, i>>] = step(s, i)
  BY <1>2
<1>4. <<>> \in Seq(Record)
  OBVIOUS
<1> HIDE DEF g
<1>5. PICK f : IsStepwise(f, n, Seq(Record), <<>>, g)
  BY <1>1, <1>3, <1>4, StepwiseExists
<1>6. /\ f = [i \in 0..n |-> f[i]] /\ f[0] = <<>>
      /\ \A i \in 0..n : f[i] \in Seq(Record)
      /\ \A i \in 1..n : f[i] = g[<<f[i - 1], i>>]
  BY <1>5 DEF IsStepwise
<1>7. \A i \in 1..n : f[i] = step(f[i - 1], i)
  <2> SUFFICES ASSUME NEW i \in 1..n PROVE f[i] = step(f[i - 1], i)
    OBVIOUS
  <2>1. i - 1 \in 0..n
    BY <1>1
  <2> QED
    BY <1>3, <1>6, <2>1
<1> DEFINE h == [i \in 0..n |-> IF i = 0 THEN <<>> ELSE step(f[i - 1], i)]
<1>8. \A i \in 0..n : f[i] = h[i]
  <2> SUFFICES ASSUME NEW i \in 0..n PROVE f[i] = h[i]
    OBVIOUS
  <2>1. CASE i = 0
    BY <1>6, <2>1
  <2>2. CASE i # 0
    <3>1. i \in 1..n
      BY <1>1, <2>2
    <3>2. f[i] = step(f[i - 1], i)
      BY <1>7, <3>1
    <3> QED
      BY <2>2, <3>2
  <2> QED
    BY <2>1, <2>2
<1>9. f = h
  <2> HIDE DEF h
  <2>1. h = [i \in 0..n |-> h[i]]
    BY DEF h
  <2> QED
    BY <1>6, <1>8, <2>1
<1>10. IsFilter(f, records)
  BY <1>9 DEF IsFilter, n, step
<1> QED
  BY <1>10

LEMMA FilterSteps ==
  ASSUME NEW h \in Seq(Record), NEW f, IsFilter(f, h)
  PROVE  /\ f[0] = <<>>
         /\ \A i \in 1..Len(h) :
              /\ h[i].kind = "page" => f[i] = Append(f[i - 1], h[i])
              /\ h[i].kind # "page" => f[i] = f[i - 1]
<1> DEFINE n == Len(h)
           g == [i \in 0..n |-> IF i = 0 THEN <<>>
                                ELSE IF h[i].kind = "page" THEN Append(f[i - 1], h[i])
                                ELSE f[i - 1]]
<1>1. n \in Nat /\ f = g
  <2>1. n \in Nat
    OBVIOUS
  <2>2. f = g
    BY Zenon DEF IsFilter
  <2> QED
    BY <2>1, <2>2
<1> HIDE DEF n
<1>2. g[0] = <<>>
  BY <1>1
<1>3. ASSUME NEW i \in 1..n
      PROVE  g[i] = IF h[i].kind = "page" THEN Append(f[i - 1], h[i]) ELSE f[i - 1]
  BY <1>1
<1> HIDE DEF g
<1> QED
  BY <1>1, <1>2, <1>3 DEF n

LEMMA PagesFacts ==
  ASSUME NEW h \in Seq(Record), NEW k \in Seq(Record), Len(h) = Len(k),
         \A i \in 1..Len(h) : h[i].kind = k[i].kind /\ h[i].path = k[i].path
  PROVE  /\ Pages(h) \in Seq(Record)
         /\ Paths(Pages(h)) = Paths(Pages(k)) /\ Paths(Pages(h)) \in Seq(Path)
<1> DEFINE f == CHOOSE x : IsFilter(x, h)
           e == CHOOSE x : IsFilter(x, k)
           n == Len(h)
<1>1. IsFilter(f, h) /\ IsFilter(e, k)
  BY FilterExists
<1>2. Pages(h) = f[Len(h)] /\ Pages(k) = e[Len(k)]
  BY DEF Pages, IsFilter
<1> HIDE DEF f, e
<1>3. n \in Nat /\ \A i \in 1..n : h[i] \in Record /\ k[i] \in Record
  OBVIOUS
<1>4. /\ f[0] = <<>> /\ e[0] = <<>>
      /\ \A i \in 1..n : /\ h[i].kind = "page" => f[i] = Append(f[i - 1], h[i])
                         /\ h[i].kind # "page" => f[i] = f[i - 1]
      /\ \A i \in 1..n : /\ k[i].kind = "page" => e[i] = Append(e[i - 1], k[i])
                         /\ k[i].kind # "page" => e[i] = e[i - 1]
  BY <1>1, FilterSteps
<1> DEFINE Alike(i) == /\ f[i] \in Seq(Record) /\ e[i] \in Seq(Record)
                       /\ Len(f[i]) = Len(e[i])
                       /\ \A j \in 1..Len(f[i]) : f[i][j].path = e[i][j].path
           Bad == {i \in 0..n : ~Alike(i)}
<1>5. Alike(0)
  BY <1>4
<1>6. ASSUME NEW i \in 1..n, Alike(i - 1) PROVE Alike(i)
  <2>1. h[i] \in Record /\ k[i] \in Record /\ h[i].path = k[i].path
        /\ h[i].kind = k[i].kind
    BY <1>3
  <2>2. CASE h[i].kind = "page"
    <3>1. f[i] = Append(f[i - 1], h[i]) /\ e[i] = Append(e[i - 1], k[i])
      BY <1>4, <2>1, <2>2
    <3> QED
      BY <1>6, <2>1, <3>1, SMTT(60)
  <2>3. CASE h[i].kind # "page"
    <3>1. f[i] = f[i - 1] /\ e[i] = e[i - 1]
      BY <1>4, <2>1, <2>3
    <3> QED
      BY <1>6, <3>1
  <2> QED
    BY <2>2, <2>3
<1> HIDE DEF Alike
<1>7. Bad = {}
  <2> SUFFICES ASSUME Bad # {} PROVE FALSE
    OBVIOUS
  <2>1. Bad \in SUBSET Nat
    OBVIOUS
  <2>2. PICK i \in Bad : \A j \in Bad : i <= j
    <3> HIDE DEF Bad
    <3> QED
      BY <2>1, LeastOf
  <2>3. i # 0
    BY <1>5, <2>2
  <2>4. i \in 1..n /\ i - 1 \in 0..n /\ i - 1 \notin Bad
    BY <1>3, <2>2, <2>3
  <2>5. Alike(i - 1)
    BY <2>4
  <2> QED
    BY <1>6, <2>2, <2>4, <2>5
<1>8. Alike(n)
  BY <1>3, <1>7
<1>9. /\ Pages(h) \in Seq(Record) /\ Pages(k) \in Seq(Record)
      /\ Len(Pages(h)) = Len(Pages(k))
      /\ \A j \in 1..Len(Pages(h)) : Pages(h)[j].path = Pages(k)[j].path
  BY <1>2, <1>8 DEF Alike
<1>10. \A j \in 1..Len(Pages(h)) : Pages(h)[j].path \in Path
  <2>1. \A j \in 1..Len(Pages(h)) : Pages(h)[j] \in Record
    BY <1>9
  <2> QED
    BY <2>1 DEF Record
<1>11. Paths(Pages(h)) = [j \in 1..Len(Pages(h)) |-> Pages(h)[j].path]
       /\ Paths(Pages(k)) = [j \in 1..Len(Pages(h)) |-> Pages(k)[j].path]
  BY <1>9 DEF Paths
<1> QED
  BY <1>9, <1>10, <1>11
-----------------------------------------------------------------------------
(* The sequences among the pages of a session *)

LEMMA SequenceIsRun ==
  ASSUME NEW paths \in Seq(Path), NEW n \in 1..Len(paths),
         NEW i \in 1..(Len(paths) - n + 1)
  PROVE  Sequence(SubSeq(paths, i, i + n - 1)) <=> Run(paths, i, i + n - 1)
<1> DEFINE w == SubSeq(paths, i, i + n - 1)
<1>1. Len(paths) \in Nat /\ i \in Int /\ i + n - 1 \in Int
      /\ \A j \in i..(i + n - 1) : paths[j] \in Path
  OBVIOUS
<1>2. /\ Len(w) = IF i <= i + n - 1 THEN i + n - 1 - i + 1 ELSE 0
      /\ \A j \in 1..(i + n - 1 - i + 1) : w[j] = paths[i + j - 1]
  BY <1>1, SubSeqProperties
<1> HIDE DEF w
<1>3. Len(w) = n /\ \A j \in 1..n : w[j] = paths[i + j - 1]
  BY <1>1, <1>2
<1>4. ASSUME Sequence(w) PROVE Run(paths, i, i + n - 1)
  <2>1. ASSUME NEW k \in (i + 1)..(i + n - 1)
        PROVE  Sequel(paths[k - 1], paths[k])
    <3> DEFINE j == k - i + 1
    <3>1. j \in 2..n /\ j - 1 \in 1..n /\ j \in 1..n /\ i + j - 1 = k
          /\ i + (j - 1) - 1 = k - 1
      OBVIOUS
    <3> HIDE DEF j
    <3>2. w[j - 1] = paths[k - 1] /\ w[j] = paths[k]
      BY <1>3, <3>1
    <3> QED
      BY <1>3, <1>4, <3>1, <3>2 DEF Sequence
  <2>2. ASSUME NEW k \in (i + 2)..(i + n - 1)
        PROVE  paths[k].id - paths[k - 1].id = paths[i + 1].id - paths[i].id
    <3> DEFINE j == k - i + 1
    <3>1. j \in 3..n /\ j - 1 \in 1..n /\ j \in 1..n /\ i + j - 1 = k
          /\ i + (j - 1) - 1 = k - 1 /\ 1 \in 1..n /\ 2 \in 1..n
          /\ i + 2 - 1 = i + 1 /\ i + 1 - 1 = i
      OBVIOUS
    <3> HIDE DEF j
    <3>2. w[j - 1] = paths[k - 1] /\ w[j] = paths[k]
          /\ w[1] = paths[i] /\ w[2] = paths[i + 1]
      BY <1>3, <3>1
    <3> QED
      BY <1>3, <1>4, <3>1, <3>2 DEF Sequence
  <2> QED
    BY <2>1, <2>2 DEF Run
<1>5. ASSUME Run(paths, i, i + n - 1) PROVE Sequence(w)
  <2>1. ASSUME NEW j \in 2..n PROVE Sequel(w[j - 1], w[j])
    <3> DEFINE k == i + j - 1
    <3>1. k \in (i + 1)..(i + n - 1) /\ j - 1 \in 1..n /\ j \in 1..n
          /\ i + (j - 1) - 1 = k - 1
      OBVIOUS
    <3>2. w[j - 1] = paths[k - 1] /\ w[j] = paths[k]
      BY <1>3, <3>1
    <3> HIDE DEF k
    <3> QED
      BY <1>5, <3>1, <3>2 DEF Run
  <2>2. ASSUME NEW j \in 3..n
        PROVE  w[j].id - w[j - 1].id = w[2].id - w[1].id
    <3> DEFINE k == i + j - 1
    <3>1. k \in (i + 2)..(i + n - 1) /\ j - 1 \in 1..n /\ j \in 1..n
          /\ i + (j - 1) - 1 = k - 1 /\ 1 \in 1..n /\ 2 \in 1..n
          /\ i + 2 - 1 = i + 1 /\ i + 1 - 1 = i
      OBVIOUS
    <3>2. w[j - 1] = paths[k - 1] /\ w[j] = paths[k]
          /\ w[1] = paths[i] /\ w[2] = paths[i + 1]
      BY <1>3, <3>1
    <3> HIDE DEF k
    <3> QED
      BY <1>5, <3>1, <3>2 DEF Run
  <2> QED
    BY <1>3, <2>1, <2>2 DEF Sequence
<1> QED
  BY <1>4, <1>5 DEF w

LEMMA RunsFacts ==
  ASSUME NEW paths \in Seq(Path)
  PROVE  LET runs == {n \in DOMAIN paths :
                        \E i \in 1..(Len(paths) - n + 1) :
                          Sequence(SubSeq(paths, i, i + n - 1))}
         IN  /\ paths # <<>> => LongestRun(paths) = Max(runs)
             /\ (LongestRun(paths) >= LongRun) <=> (\E n \in runs : n >= LongRun)
<1> DEFINE runs == {n \in DOMAIN paths :
                      \E i \in 1..(Len(paths) - n + 1) :
                        Sequence(SubSeq(paths, i, i + n - 1))}
           best == LongestRun(paths)
<1>1. Len(paths) \in Nat /\ DOMAIN paths = 1..Len(paths)
  OBVIOUS
<1>2. runs = {n \in 1..Len(paths) :
                \E i \in 1..(Len(paths) - n + 1) : Run(paths, i, i + n - 1)}
  BY <1>1, SequenceIsRun
<1> HIDE DEF runs
<1>3. LongRun \in Nat /\ LongRun > 1
  BY VisitAssumption DEF BehaviorAssumption
<1>4. CASE paths = <<>>
  <2>1. runs = {} /\ best = 1
    <3>1. runs = {}
      BY <1>1, <1>2, <1>4
    <3> QED
      BY <3>1, <1>4, LongestRunFacts
  <2> QED
    BY <1>3, <1>4, <2>1 DEF runs
<1>5. CASE paths # <<>>
  <2>1. Longest(best, paths, Len(paths))
    BY <1>5, LongestRunFacts
  <2> HIDE DEF best
  <2>2. best \in runs
    <3>1. PICK j \in 1..Len(paths) : best \in 1..j /\ Run(paths, j - best + 1, j)
      BY <2>1 DEF Longest
    <3> DEFINE i == j - best + 1
    <3>2. i \in 1..(Len(paths) - best + 1) /\ i + best - 1 = j /\ best \in 1..Len(paths)
      BY <1>1, <3>1
    <3>3. Run(paths, i, i + best - 1)
      BY <3>1, <3>2
    <3> HIDE DEF i
    <3> QED
      BY <1>2, <3>2, <3>3
  <2>3. ASSUME NEW n \in runs PROVE n <= best /\ n \in Nat
    <3>1. PICK i \in 1..(Len(paths) - n + 1) : Run(paths, i, i + n - 1)
      BY <1>2
    <3>2. n \in 1..Len(paths)
      BY <1>2
    <3> DEFINE j == i + n - 1
    <3>3. j \in 1..Len(paths) /\ n \in 1..j /\ j - n + 1 = i
      BY <1>1, <3>1, <3>2
    <3>4. Run(paths, j - n + 1, j)
      BY <3>1, <3>3
    <3> HIDE DEF j
    <3> QED
      BY <2>1, <3>3, <3>4 DEF Longest
  <2>4. best = Max(runs)
    <3>1. \A x \in runs : (\A y \in runs : x >= y) => x = best
      BY <2>2, <2>3
    <3>2. \A y \in runs : best >= y
      BY <2>2, <2>3
    <3> QED
      BY <2>2, <3>1, <3>2 DEF Max
  <2>5. (best >= LongRun) <=> (\E n \in runs : n >= LongRun)
    BY <1>3, <2>2, <2>3
  <2> QED
    BY <2>4, <2>5 DEF runs, best
<1> QED
  BY <1>4, <1>5

\* The history is one of records, and its paths are those that the latest
\* request was judged by.
VisitInv ==
  /\ clock \in Int /\ history \in Seq(Record)
  /\ ("sequential_ids" \in reported)
       <=> LongestRun(Paths(Pages(history))) >= LongRun

LEMMA VisitInvHolds == VisitSpec => []VisitInv
<1> USE VisitAssumption DEF BehaviorAssumption
<1>1. VisitInit => VisitInv
  <2> SUFFICES ASSUME VisitInit PROVE VisitInv
    OBVIOUS
  <2>1. history = <<>> /\ reported = {} /\ clock \in Int
    BY DEF VisitInit
  <2>2. <<>> \in Seq(Record)
    OBVIOUS
  <2>3. Pages(<<>>) = <<>>
    <3> DEFINE f == CHOOSE x : IsFilter(x, <<>>)
    <3>1. IsFilter(f, <<>>)
      BY <2>2, FilterExists
    <3>2. Pages(<<>>) = f[0]
      BY DEF Pages, IsFilter
    <3> HIDE DEF f
    <3> QED
      BY <3>1, <3>2 DEF IsFilter
  <2>4. Paths(<<>>) = <<>> /\ <<>> \in Seq(Path)
    BY DEF Paths
  <2>5. LongestRun(<<>>) = 1
    BY <2>4, LongestRunFacts
  <2>6. ~(LongestRun(Paths(Pages(history))) >= LongRun)
    <3>1. LongRun \in Nat /\ LongRun > 1
      OBVIOUS
    <3> QED
      BY <2>1, <2>3, <2>4, <2>5, <3>1
  <2> QED
    BY <2>1, <2>2, <2>6 DEF VisitInv
<1>2. VisitInv /\ [Visit]_visitVars => VisitInv'
  <2> SUFFICES ASSUME VisitInv, [Visit]_visitVars PROVE VisitInv'
    OBVIOUS
  <2>1. CASE Visit
    <3>1. PICK gap \in Gaps, kind \in {"page", "asset"} :
          \E template \in Templates,
             id \in IF kind = "page" THEN PageIds \cup {NoId} ELSE {NoId},
             status \in IF kind = "page" THEN {"4xx", NoStatus} ELSE {NoStatus} :
            LET observed ==
                  Observed(history,
                    [t |-> clock + gap, path |-> [template |-> template, id |-> id],
                     kind |-> kind, referer |-> FALSE, status |-> NoStatus])
            IN  /\ clock' = clock + gap
                /\ reported' = Signals(observed)
                /\ history' = Answered(observed, status)
      BY <2>1 DEF Visit
    <3>2. PICK template \in Templates,
               id \in IF kind = "page" THEN PageIds \cup {NoId} ELSE {NoId},
               status \in IF kind = "page" THEN {"4xx", NoStatus} ELSE {NoStatus} :
            LET observed ==
                  Observed(history,
                    [t |-> clock + gap, path |-> [template |-> template, id |-> id],
                     kind |-> kind, referer |-> FALSE, status |-> NoStatus])
            IN  /\ clock' = clock + gap
                /\ reported' = Signals(observed)
                /\ history' = Answered(observed, status)
      BY <3>1
    <3> DEFINE r == [t |-> clock + gap, path |-> [template |-> template, id |-> id],
                     kind |-> kind, referer |-> FALSE, status |-> NoStatus]
               observed == Observed(history, r)
               all == Append(history, r)
    <3>3. clock + gap \in Int
      <4>1. clock \in Int
        BY DEF VisitInv
      <4>2. gap \in Nat
        BY VisitAssumption
      <4> QED
        BY <4>1, <4>2
    <3>4. r \in Record
      <4>1. id \in Nat \cup {NoId}
        OBVIOUS
      <4>2. [template |-> template, id |-> id] \in Path
        BY <4>1 DEF Path
      <4>3. kind \in {"page", "asset"}
        OBVIOUS
      <4> QED
        BY <3>3, <4>2, <4>3, SMTT(30) DEF Record
    <3>5. clock' = clock + gap /\ reported' = Signals(observed)
          /\ history' = Answered(observed, status)
      BY <3>2
    <3> HIDE DEF r
    <3>6. observed \in Seq(Record)
      <4>1. all \in Seq(Record) /\ all # <<>>
        <5>1. history \in Seq(Record)
          BY DEF VisitInv
        <5>2. \A h \in Seq(Record), x \in Record :
                 Append(h, x) \in Seq(Record) /\ Append(h, x) # <<>>
          <6> SUFFICES ASSUME NEW h \in Seq(Record), NEW x \in Record
                       PROVE  Append(h, x) \in Seq(Record) /\ Append(h, x) # <<>>
            OBVIOUS
          <6>1. Append(h, x) \in Seq(Record)
            OBVIOUS
          <6>2. Len(Append(h, x)) = Len(h) + 1 /\ Len(h) \in Nat
            OBVIOUS
          <6>3. Append(h, x) # <<>>
            BY SMTT(30), <6>2
          <6> QED
            BY <6>1, <6>3
        <5> HIDE DEF observed
        <5> QED
          BY <3>4, <5>1, <5>2 DEF all
      <4>2. Tail(all) \in Seq(Record)
        BY <4>1
      <4> QED
        BY <4>1, <4>2 DEF Observed
    <3> HIDE DEF observed, all
    <3>7. /\ history' \in Seq(Record) /\ Len(history') = Len(observed)
          /\ \A i \in 1..Len(observed) : /\ history'[i].kind = observed[i].kind
                                         /\ history'[i].path = observed[i].path
      <4>1. status \in {"4xx", NoStatus}
        OBVIOUS
      <4>2. CASE history' = observed
        BY <3>6, <4>2
      <4>3. CASE /\ observed # <<>>
                 /\ history' = [observed EXCEPT ![Len(observed)].status = status]
        <5> DEFINE n == Len(observed)
        <5>1. n \in 1..n /\ DOMAIN observed = 1..n
              /\ \A i \in 1..n : observed[i] \in Record
          BY <3>6, <4>3
        <5> DEFINE new == [observed[n] EXCEPT !.status = status]
        <5>2. new \in Record /\ new.kind = observed[n].kind
              /\ new.path = observed[n].path
          <6>1. observed[n] \in Record
            BY <5>1
          <6> HIDE DEF n
          <6> QED
            BY <4>1, <6>1 DEF Record
        <5>3. history' = [i \in 1..n |-> IF i = n THEN new ELSE observed[i]]
          BY <4>3, <5>1
        <5>4. n \in Nat
          BY <3>6
        <5> HIDE DEF n, new
        <5>5. history' \in Seq(Record) /\ Len(history') = n
              /\ \A i \in 1..n : history'[i] = IF i = n THEN new ELSE observed[i]
          BY <5>1, <5>2, <5>3, <5>4
        <5> QED
          BY <5>2, <5>5 DEF n
      <4> QED
        BY <3>5, <4>2, <4>3 DEF Answered
    <3>8. Paths(Pages(history')) = Paths(Pages(observed))
      BY <3>6, <3>7, PagesFacts
    <3>9. ("sequential_ids" \in reported')
            <=> LongestRun(Paths(Pages(observed))) >= LongRun
      BY <3>5 DEF Signals
    <3> QED
      BY <3>3, <3>5, <3>7, <3>8, <3>9 DEF VisitInv
  <2>2. CASE UNCHANGED visitVars
    BY <2>2 DEF visitVars, VisitInv
  <2> QED
    BY <2>1, <2>2
<1> QED
  BY <1>1, <1>2, PTL DEF VisitSpec

\* ">= 5 consecutive pages whose trailing number changes by a constant step"
\* (THESIS_NOTES.md:226): whatever pages a session visits and however many of
\* them are kept, the single pass finds the longest run there is, rising or
\* falling, and a sequence is reported exactly when one is long enough.
THEOREM RunIsLongestAlways == VisitSpec => []RunIsLongest
<1>1. VisitInv => RunIsLongest
  <2> SUFFICES ASSUME VisitInv PROVE RunIsLongest
    OBVIOUS
  <2> DEFINE paths == Paths(Pages(history))
  <2>1. paths \in Seq(Path)
    BY PagesFacts DEF VisitInv
  <2>2. ("sequential_ids" \in reported) <=> LongestRun(paths) >= LongRun
    BY DEF VisitInv
  <2> HIDE DEF paths
  <2>3. LET runs == {n \in DOMAIN paths :
                       \E i \in 1..(Len(paths) - n + 1) :
                         Sequence(SubSeq(paths, i, i + n - 1))}
        IN  /\ paths # <<>> => LongestRun(paths) = Max(runs)
            /\ (LongestRun(paths) >= LongRun) <=> (\E n \in runs : n >= LongRun)
    BY <2>1, RunsFacts
  <2> QED
    BY <2>2, <2>3 DEF RunIsLongest, paths
<1> QED
  BY <1>1, VisitInvHolds, PTL
-----------------------------------------------------------------------------
(* Arrays: what filter() and sort() return, and the frames of a datagram.    *)

Follows(e, n, S, first, g) ==
  /\ e[0] = first
  /\ \A i \in 1..n : e[i - 1] \in S => e[i] = g[<<e[i - 1], i>>]

LEMMA StepwiseUnique ==
  ASSUME NEW n \in Nat, NEW S, NEW first, NEW g,
         NEW f, IsStepwise(f, n, S, first, g), NEW e, Follows(e, n, S, first, g)
  PROVE  \A i \in 0..n : e[i] = f[i]
<1> DEFINE Bad == {i \in 0..n : e[i] # f[i]}
<1> SUFFICES ASSUME Bad # {} PROVE FALSE
  OBVIOUS
<1>1. Bad \in SUBSET Nat
  OBVIOUS
<1>2. PICK i \in Bad : \A k \in Bad : i <= k
  <2> HIDE DEF Bad
  <2> QED
    BY <1>1, LeastOf
<1>3. /\ f \in [0..n -> S] /\ f[0] = first
      /\ \A j \in 1..n : f[j] = g[<<f[j - 1], j>>]
  BY DEF IsStepwise
<1>4. i # 0 /\ e[0] = first
  BY <1>2, <1>3 DEF Follows
<1>5. i \in 1..n /\ i - 1 \in 0..n /\ i - 1 \notin Bad
  BY <1>2, <1>4
<1>6. e[i - 1] = f[i - 1] /\ f[i - 1] \in S
  BY <1>3, <1>5
<1>7. e[i] = f[i]
  BY <1>3, <1>5, <1>6 DEF Follows
<1> QED
  BY <1>2, <1>7

IsKept(f, list, dropped) ==
  f = [i \in 0..Len(list) |->
         IF i = 0 THEN <<>>
         ELSE IF list[i] \in dropped THEN f[i - 1] ELSE Append(f[i - 1], list[i])]

IsFilteredSteps(f, T, list, dropped) ==
  /\ f \in [0..Len(list) -> Seq(T)] /\ f[0] = <<>>
  /\ \A i \in 1..Len(list) : f[i] = IF list[i] \in dropped THEN f[i - 1] ELSE Append(f[i - 1], list[i])
  /\ Filtered(list, dropped) = f[Len(list)]

LEMMA FilteredSteps ==
  ASSUME NEW T, NEW list \in Seq(T), NEW dropped
  PROVE  \E f : IsFilteredSteps(f, T, list, dropped)
<1> DEFINE n == Len(list)
           S == Seq(T)
           step(s, i) == IF list[i] \in dropped THEN s ELSE Append(s, list[i])
           g == [x \in S \X (1..n) |-> step(x[1], x[2])]
           e == CHOOSE x : IsKept(x, list, dropped)
<1>1. n \in Nat
  OBVIOUS
<1>2. \A s \in S, i \in 1..n : step(s, i) \in S
  <2> SUFFICES ASSUME NEW s \in S, NEW i \in 1..n PROVE step(s, i) \in S
    OBVIOUS
  <2>1. list[i] \in T
    OBVIOUS
  <2> QED
    BY <2>1
<1>3. <<>> \in S
  OBVIOUS
<1>4. Filtered(list, dropped) = (CHOOSE x : IsKept(x, list, dropped))[n]
  BY DEF Filtered, IsKept
<1> HIDE DEF n, step, S
<1>5. /\ g \in [S \X (1..n) -> S]
      /\ \A s \in S, i \in 1..n : g[<<s, i>>] = step(s, i)
  BY <1>2
<1> HIDE DEF g
<1>6. PICK f : IsStepwise(f, n, S, <<>>, g)
  BY <1>1, <1>3, <1>5, StepwiseExists
<1>7. /\ f = [i \in 0..n |-> f[i]] /\ f[0] = <<>>
      /\ \A i \in 0..n : f[i] \in S
      /\ \A i \in 1..n : f[i] = g[<<f[i - 1], i>>]
  BY <1>6 DEF IsStepwise
<1>8. \A i \in 1..n : f[i] = step(f[i - 1], i)
  <2> SUFFICES ASSUME NEW i \in 1..n PROVE f[i] = step(f[i - 1], i)
    OBVIOUS
  <2>1. i - 1 \in 0..n
    BY <1>1
  <2> QED
    BY <1>5, <1>7, <2>1
<1> DEFINE h == [i \in 0..n |-> IF i = 0 THEN <<>> ELSE step(f[i - 1], i)]
<1>9. \A i \in 0..n : f[i] = h[i]
  <2> SUFFICES ASSUME NEW i \in 0..n PROVE f[i] = h[i]
    OBVIOUS
  <2>1. CASE i = 0
    BY <1>7, <2>1
  <2>2. CASE i # 0
    <3>1. i \in 1..n
      BY <1>1, <2>2
    <3>2. f[i] = step(f[i - 1], i)
      BY <1>8, <3>1
    <3> QED
      BY <2>2, <3>2
  <2> QED
    BY <2>1, <2>2
<1>10. f = h
  <2> HIDE DEF h
  <2>1. h = [i \in 0..n |-> h[i]]
    BY DEF h
  <2> QED
    BY <1>7, <1>9, <2>1
<1>11. IsKept(f, list, dropped)
  BY <1>10 DEF IsKept, n, step
<1>12. IsKept(e, list, dropped)
  BY <1>11
<1> HIDE DEF e, h
<1>13. e = [i \in 0..n |-> IF i = 0 THEN <<>> ELSE step(e[i - 1], i)]
  BY <1>12, Zenon DEF IsKept, n, step
<1>14. e[0] = <<>> /\ \A i \in 1..n : e[i] = step(e[i - 1], i)
  <2> DEFINE k == [i \in 0..n |-> IF i = 0 THEN <<>> ELSE step(e[i - 1], i)]
  <2>1. k[0] = <<>> /\ \A i \in 1..n : k[i] = step(e[i - 1], i)
    BY <1>1
  <2>2. e = k
    BY <1>13
  <2> HIDE DEF k
  <2> QED
    BY <2>1, <2>2
<1>15. \A i \in 0..n : e[i] = f[i]
  <2>1. Follows(e, n, S, <<>>, g)
    BY <1>5, <1>14 DEF Follows
  <2> QED
    BY <1>1, <1>6, <2>1, StepwiseUnique
<1>16. e = f
  <2>1. e = [i \in 0..n |-> e[i]]
    BY <1>13
  <2> QED
    BY <1>7, <1>15, <2>1
<1>17. f \in [0..n -> S]
  BY <1>6 DEF IsStepwise
<1>18. \A i \in 1..n : f[i] = step(f[i - 1], i)
  BY <1>8
<1>19. Filtered(list, dropped) = f[n]
  BY <1>4, <1>16 DEF e
<1>20. IsFilteredSteps(f, T, list, dropped)
  BY <1>7, <1>17, <1>18, <1>19 DEF IsFilteredSteps, n, step, S
<1> QED
  BY <1>20

Distinct(list) == \A i, j \in 1..Len(list) : list[i] = list[j] => i = j
Entries(list) == {list[i] : i \in 1..Len(list)}

LEMMA AppendFacts ==
  ASSUME NEW T, NEW s \in Seq(T), NEW x \in T
  PROVE  /\ Append(s, x) \in Seq(T) /\ Len(Append(s, x)) = Len(s) + 1
         /\ Entries(Append(s, x)) = Entries(s) \cup {x}
         /\ Distinct(s) /\ x \notin Entries(s) => Distinct(Append(s, x))
<1> DEFINE n == Len(s)
           a == Append(s, x)
<1>1. n \in Nat /\ a \in Seq(T) /\ Len(a) = n + 1 /\ a[n + 1] = x
      /\ \A i \in 1..n : a[i] = s[i]
  OBVIOUS
<1> HIDE DEF n, a
<1>2. Entries(a) = Entries(s) \cup {x}
  <2>1. Entries(a) = {a[i] : i \in 1..(n + 1)} /\ Entries(s) = {s[i] : i \in 1..n}
    BY <1>1 DEF Entries, n
  <2>2. \A i \in 1..(n + 1) : i = n + 1 \/ i \in 1..n
    BY <1>1
  <2>3. \A i \in 1..n : i \in 1..(n + 1)
    BY <1>1
  <2>4. n + 1 \in 1..(n + 1)
    BY <1>1
  <2> QED
    BY <1>1, <2>1, <2>2, <2>3, <2>4
<1>3. ASSUME Distinct(s), x \notin Entries(s) PROVE Distinct(a)
  <2> SUFFICES ASSUME NEW i \in 1..(n + 1), NEW j \in 1..(n + 1), a[i] = a[j]
               PROVE  i = j
    BY <1>1 DEF Distinct
  <2>1. \A k \in 1..n : s[k] # x
    BY <1>3 DEF Entries, n
  <2>2. (i = n + 1 \/ i \in 1..n) /\ (j = n + 1 \/ j \in 1..n)
    BY <1>1
  <2>3. CASE i = n + 1 \/ j = n + 1
    BY <1>1, <2>1, <2>2, <2>3
  <2>4. CASE i \in 1..n /\ j \in 1..n
    BY <1>1, <1>3, <2>4 DEF Distinct, n
  <2> QED
    BY <2>2, <2>3, <2>4
<1> QED
  BY <1>1, <1>2, <1>3 DEF n, a

LEMMA FilteredFacts ==
  ASSUME NEW T, NEW list \in Seq(T), NEW dropped
  PROVE  /\ Filtered(list, dropped) \in Seq(T)
         /\ Entries(Filtered(list, dropped)) = Entries(list) \ dropped
         /\ Distinct(list) => Distinct(Filtered(list, dropped))
<1> DEFINE n == Len(list)
<1>0. n \in Nat /\ \A i \in 1..n : list[i] \in T
  OBVIOUS
<1>1. PICK f : IsFilteredSteps(f, T, list, dropped)
  BY FilteredSteps
<1>a. /\ f \in [0..n -> Seq(T)] /\ f[0] = <<>>
      /\ \A i \in 1..n : f[i] = IF list[i] \in dropped THEN f[i - 1]
                                ELSE Append(f[i - 1], list[i])
      /\ Filtered(list, dropped) = f[n]
  BY <1>1 DEF IsFilteredSteps
<1> DEFINE Before(i) == {list[j] : j \in 1..i}
           Good(i) == /\ Entries(f[i]) = Before(i) \ dropped
                      /\ Distinct(list) => Distinct(f[i])
           Bad == {i \in 0..n : ~Good(i)}
<1>2. Good(0)
  <2>1. Entries(<<>>) = {} /\ Before(0) = {} /\ Distinct(<<>>)
    BY DEF Entries, Distinct
  <2> QED
    BY <1>a, <2>1
<1>3. ASSUME NEW i \in 1..n, Good(i - 1) PROVE Good(i)
  <2>1. Before(i) = Before(i - 1) \cup {list[i]}
    <3>1. \A j \in 1..i : j = i \/ j \in 1..(i - 1)
      BY <1>0
    <3>2. \A j \in 1..(i - 1) : j \in 1..i
      BY <1>0
    <3>3. i \in 1..i
      BY <1>0
    <3> QED
      BY <3>1, <3>2, <3>3
  <2>2. Distinct(list) => list[i] \notin Before(i - 1)
    <3> SUFFICES ASSUME Distinct(list), NEW j \in 1..(i - 1), list[i] = list[j]
                 PROVE  FALSE
      OBVIOUS
    <3>1. i \in 1..n /\ j \in 1..n /\ j # i
      BY <1>0
    <3> QED
      BY <3>1 DEF Distinct
  <2>3. f[i - 1] \in Seq(T) /\ list[i] \in T
    <3>1. i - 1 \in 0..n
      BY <1>0
    <3> QED
      BY <1>0, <1>a, <3>1
  <2> HIDE DEF Before
  <2>4. CASE list[i] \in dropped
    BY <1>a, <1>3, <2>1, <2>4
  <2>5. CASE list[i] \notin dropped
    <3> DEFINE a == Append(f[i - 1], list[i])
    <3>1. /\ Entries(a) = Entries(f[i - 1]) \cup {list[i]}
          /\ Distinct(f[i - 1]) /\ list[i] \notin Entries(f[i - 1]) => Distinct(a)
      BY <2>3, AppendFacts
    <3>2. f[i] = a
      BY <1>a, <2>5
    <3> HIDE DEF a
    <3> QED
      BY <1>3, <2>1, <2>2, <2>5, <3>1, <3>2
  <2> QED
    BY <2>4, <2>5
<1> HIDE DEF Good
<1>4. Bad = {}
  <2> SUFFICES ASSUME Bad # {} PROVE FALSE
    OBVIOUS
  <2>1. Bad \in SUBSET Nat
    OBVIOUS
  <2>2. PICK i \in Bad : \A j \in Bad : i <= j
    <3> HIDE DEF Bad
    <3> QED
      BY <2>1, LeastOf
  <2>3. i # 0
    BY <1>2, <2>2
  <2>4. i \in 1..n /\ i - 1 \in 0..n /\ i - 1 \notin Bad
    BY <1>0, <2>2, <2>3
  <2> QED
    BY <1>3, <2>2, <2>4
<1>5. Good(n)
  BY <1>0, <1>4
<1>6. f[n] \in Seq(T)
  BY <1>0, <1>a
<1> QED
  BY <1>a, <1>5, <1>6 DEF Good, Entries
\* A set of numbers that is bounded and not empty has a greatest element.
LEMMA GreatestOf ==
  ASSUME NEW n \in Nat, NEW T \in SUBSET (0..n), T # {}
  PROVE  Max(T) \in T /\ \A y \in T : Max(T) >= y
<1> DEFINE U == {n - x : x \in T}
<1>1. U \in SUBSET Nat /\ U # {}
  <2>1. \A x \in T : n - x \in Nat
    OBVIOUS
  <2>2. PICK x \in T : TRUE
    OBVIOUS
  <2>3. n - x \in U
    OBVIOUS
  <2> QED
    BY <2>1, <2>3
<1>2. PICK u \in U : \A y \in U : u <= y
  <2> HIDE DEF U
  <2> QED
    BY <1>1, LeastOf
<1>3. PICK x \in T : u = n - x
  BY <1>2
<1>4. \A y \in T : x >= y
  <2> SUFFICES ASSUME NEW y \in T PROVE x >= y
    OBVIOUS
  <2>1. n - y \in U
    OBVIOUS
  <2>2. u <= n - y
    BY <1>2, <2>1
  <2> QED
    BY <1>3, <2>2
<1>5. \E z \in T : \A y \in T : z >= y
  BY <1>4
<1> HIDE DEF U
<1> QED
  BY <1>5 DEF Max

Ordered(key, s) ==
  \A i, j \in 1..Len(s) : i < j => key[s[i]] <= key[s[j]]

\* Where an entry is put.
IsPlace(after, s, x, key) ==
  /\ Len(Inserted(s, x, key)) = Len(s) + 1
  /\ Inserted(s, x, key)
       = [i \in 1..(Len(s) + 1) |->
            IF i <= after THEN s[i] ELSE IF i = after + 1 THEN x ELSE s[i - 1]]
  /\ after # 0 => key[s[after]] <= key[x]
  /\ \A i \in 1..Len(s) : key[s[i]] <= key[x] => i <= after

LEMMA PlaceFacts ==
  ASSUME NEW T, NEW s \in Seq(T), NEW x, NEW key
  PROVE  \E after \in 0..Len(s) : IsPlace(after, s, x, key)
<1> DEFINE n == Len(s)
           U == {0} \cup {i \in DOMAIN s : key[s[i]] <= key[x]}
           after == Max(U)
           r == [i \in 1..(n + 1) |->
                   IF i <= after THEN s[i] ELSE IF i = after + 1 THEN x ELSE s[i - 1]]
<1>1. n \in Nat /\ DOMAIN s = 1..n
  OBVIOUS
<1>2. U \in SUBSET (0..n) /\ U # {}
  BY <1>1
<1>3. after \in U /\ \A y \in U : after >= y
  <2> HIDE DEF U, n
  <2> QED
    BY <1>1, <1>2, GreatestOf
<1>4. after \in 0..n /\ (after # 0 => key[s[after]] <= key[x])
      /\ \A i \in 1..n : key[s[i]] <= key[x] => i <= after
  <2> HIDE DEF after
  <2>1. \A i \in 1..n : key[s[i]] <= key[x] => i \in U
    BY <1>1
  <2>2. \A i \in 1..n : key[s[i]] <= key[x] => i <= after
    BY <1>2, <1>3, <2>1
  <2> QED
    BY <1>1, <1>2, <1>3, <2>2
<1>5. Inserted(s, x, key) = r
  BY DEF Inserted
<1> HIDE DEF after, n
<1>6. Len(r) = n + 1
  BY <1>1
<1> HIDE DEF r
<1>7. Len(Inserted(s, x, key)) = n + 1
  BY <1>5, <1>6
<1>8. IsPlace(after, s, x, key)
  BY <1>4, <1>5, <1>7 DEF IsPlace, n, r
<1> QED
  BY <1>4, <1>8 DEF n

LEMMA InsertedType ==
  ASSUME NEW T, NEW s \in Seq(T), NEW x \in T, NEW key
  PROVE  Inserted(s, x, key) \in Seq(T)
<1>0. PICK after \in 0..Len(s) : IsPlace(after, s, x, key)
  BY PlaceFacts
<1>1. Inserted(s, x, key)
          = [i \in 1..(Len(s) + 1) |->
               IF i <= after THEN s[i] ELSE IF i = after + 1 THEN x ELSE s[i - 1]]
  BY <1>0 DEF IsPlace
<1> DEFINE n == Len(s)
           r == [i \in 1..(n + 1) |->
                   IF i <= after THEN s[i] ELSE IF i = after + 1 THEN x ELSE s[i - 1]]
<1>2. n \in Nat /\ \A i \in 1..n : s[i] \in T
  OBVIOUS
<1>3. ASSUME NEW i \in 1..(n + 1) PROVE r[i] \in T
  <2>1. CASE i <= after
    <3>1. i \in 1..n
      BY <1>1, <1>2, <2>1
    <3> QED
      BY <1>2, <2>1, <3>1
  <2>2. CASE i = after + 1
    <3>1. ~(i <= after)
      BY <1>1, <1>2, <2>2
    <3> QED
      BY <2>2, <3>1
  <2>3. CASE ~(i <= after) /\ i # after + 1
    <3>1. i - 1 \in 1..n
      BY <1>1, <1>2, <2>3
    <3> QED
      BY <1>2, <2>3, <3>1
  <2> QED
    BY <2>1, <2>2, <2>3
<1>4. r \in [1..(n + 1) -> T] /\ n + 1 \in Nat
  BY <1>2, <1>3
<1> HIDE DEF r
<1>5. r \in Seq(T)
  BY <1>4
<1> QED
  BY <1>1, <1>5 DEF r

LEMMA InsertedFacts ==
  ASSUME NEW T, NEW s \in Seq(T), NEW x \in T, NEW key, \A y \in T : key[y] \in Int,
         Ordered(key, s)
  PROVE  /\ Len(Inserted(s, x, key)) = Len(s) + 1
         /\ Entries(Inserted(s, x, key)) = Entries(s) \cup {x}
         /\ Ordered(key, Inserted(s, x, key))
         /\ Distinct(s) /\ x \notin Entries(s) => Distinct(Inserted(s, x, key))
<1> DEFINE n == Len(s)
           r == Inserted(s, x, key)
<1>0. PICK after \in 0..n : IsPlace(after, s, x, key)
  BY PlaceFacts
<1>1.   /\ Len(r) = n + 1
        /\ r = [i \in 1..(n + 1) |->
                  IF i <= after THEN s[i] ELSE IF i = after + 1 THEN x ELSE s[i - 1]]
        /\ after # 0 => key[s[after]] <= key[x]
        /\ \A i \in 1..n : key[s[i]] <= key[x] => i <= after
  BY <1>0 DEF IsPlace
<1>2. n \in Nat /\ \A i \in 1..n : s[i] \in T
  OBVIOUS
<1> HIDE DEF n, r
<1>3. /\ \A i \in 1..after : i \in 1..n /\ i \in 1..(n + 1) /\ r[i] = s[i]
      /\ after + 1 \in 1..(n + 1) /\ r[after + 1] = x
      /\ \A i \in (after + 2)..(n + 1) :
           i - 1 \in 1..n /\ i \in 1..(n + 1) /\ r[i] = s[i - 1]
  <2> DEFINE m == [i \in 1..(n + 1) |->
                     IF i <= after THEN s[i] ELSE IF i = after + 1 THEN x ELSE s[i - 1]]
  <2>1. \A i \in 1..after : i \in 1..n /\ i \in 1..(n + 1) /\ m[i] = s[i]
    BY <1>2
  <2>2. after + 1 \in 1..(n + 1) /\ m[after + 1] = x
    BY <1>2
  <2>3. \A i \in (after + 2)..(n + 1) :
          i - 1 \in 1..n /\ i \in 1..(n + 1) /\ m[i] = s[i - 1]
    BY <1>2
  <2>4. r = m
    BY <1>1
  <2> HIDE DEF m
  <2> QED
    BY <2>1, <2>2, <2>3, <2>4
<1>4. \A i \in 1..(n + 1) : i \in 1..after \/ i = after + 1 \/ i \in (after + 2)..(n + 1)
  BY <1>2
<1>5. Entries(r) = Entries(s) \cup {x}
  <2>1. Entries(r) = {r[i] : i \in 1..(n + 1)} /\ Entries(s) = {s[i] : i \in 1..n}
    BY <1>1 DEF Entries, n
  <2>2. \A i \in 1..(n + 1) : r[i] \in Entries(s) \cup {x}
    BY <1>3, <1>4, <2>1
  <2>3. ASSUME NEW i \in 1..n PROVE s[i] \in Entries(r)
    <3>1. CASE i <= after
      <4>1. i \in 1..after
        BY <1>2, <3>1
      <4> QED
        BY <1>3, <2>1, <4>1
    <3>2. CASE ~(i <= after)
      <4>1. i + 1 \in (after + 2)..(n + 1) /\ (i + 1) - 1 = i
        BY <1>2, <3>2
      <4>2. r[i + 1] = s[i] /\ i + 1 \in 1..(n + 1)
        BY <1>3, <4>1
      <4> QED
        BY <2>1, <4>2
    <3> QED
      BY <3>1, <3>2
  <2>4. x \in Entries(r)
    BY <1>3, <2>1
  <2> QED
    BY <2>1, <2>2, <2>3, <2>4
<1>6. Ordered(key, r)
  <2> SUFFICES ASSUME NEW i \in 1..(n + 1), NEW j \in 1..(n + 1), i < j
               PROVE  key[r[i]] <= key[r[j]]
    BY <1>1 DEF Ordered
  <2>1. /\ \A k, l \in 1..n : k < l => key[s[k]] <= key[s[l]]
        /\ \A k \in 1..n : key[s[k]] \in Int
        /\ key[x] \in Int
    BY <1>2 DEF Ordered, n
  <2>2. ASSUME NEW k \in 1..after PROVE k \in 1..n /\ key[s[k]] <= key[x]
    <3>1. after \in 1..n /\ key[s[after]] <= key[x] /\ k \in 1..n
      BY <1>1, <1>2
    <3>2. k = after \/ k < after
      BY <1>1
    <3>3. key[s[k]] <= key[s[after]] /\ key[s[k]] \in Int /\ key[s[after]] \in Int
      BY <2>1, <3>1, <3>2
    <3> QED
      BY <2>1, <3>1, <3>3
  <2>3. ASSUME NEW k \in (after + 1)..n PROVE key[x] <= key[s[k]]
    <3>1. k \in 1..n /\ ~(k <= after)
      BY <1>2
    <3> QED
      BY <1>1, <2>1, <3>1
  <2>4. CASE j \in 1..after
    <3>1. i \in 1..after
      BY <2>4
    <3> QED
      BY <1>3, <2>1, <2>4, <3>1
  <2>5. CASE j = after + 1
    <3>1. i \in 1..after
      BY <2>5
    <3> QED
      BY <1>3, <2>2, <2>5, <3>1
  <2>6. CASE j \in (after + 2)..(n + 1)
    <3>1. j - 1 \in 1..n /\ r[j] = s[j - 1] /\ j - 1 \in (after + 1)..n
      BY <1>2, <1>3, <2>6
    <3>2. key[x] <= key[s[j - 1]]
      BY <2>3, <3>1
    <3>3. CASE i \in 1..after
      <4>1. r[i] = s[i] /\ i \in 1..n /\ i < j - 1
        BY <1>3, <2>6, <3>3
      <4> QED
        BY <2>1, <3>1, <4>1
    <3>4. CASE i = after + 1
      BY <1>3, <3>1, <3>2, <3>4
    <3>5. CASE i \in (after + 2)..(n + 1)
      <4>1. r[i] = s[i - 1] /\ i - 1 \in 1..n /\ i - 1 < j - 1
        BY <1>3, <3>5
      <4> QED
        BY <2>1, <3>1, <4>1
    <3> QED
      BY <1>4, <3>3, <3>4, <3>5
  <2> QED
    BY <1>4, <2>4, <2>5, <2>6
<1>7. ASSUME Distinct(s), x \notin Entries(s) PROVE Distinct(r)
  <2> SUFFICES ASSUME NEW i \in 1..(n + 1), NEW j \in 1..(n + 1), r[i] = r[j]
               PROVE  i = j
    BY <1>1 DEF Distinct
  <2>1. /\ \A k, l \in 1..n : s[k] = s[l] => k = l
        /\ \A k \in 1..n : s[k] # x
    BY <1>7 DEF Distinct, Entries, n
  <2>2. CASE i \in 1..after
    <3>1. r[i] = s[i] /\ i \in 1..n
      BY <1>3, <2>2
    <3>2. CASE j \in 1..after
      BY <1>3, <2>1, <3>1, <3>2
    <3>3. CASE j = after + 1
      BY <1>3, <2>1, <3>1, <3>3
    <3>4. CASE j \in (after + 2)..(n + 1)
      <4>1. r[j] = s[j - 1] /\ j - 1 \in 1..n /\ j - 1 # i
        BY <1>3, <2>2, <3>4
      <4> QED
        BY <2>1, <3>1, <4>1
    <3> QED
      BY <1>4, <3>2, <3>3, <3>4
  <2>3. CASE i = after + 1
    <3>1. CASE j \in 1..after
      BY <1>3, <2>1, <2>3, <3>1
    <3>2. CASE j = after + 1
      BY <2>3, <3>2
    <3>3. CASE j \in (after + 2)..(n + 1)
      BY <1>3, <2>1, <2>3, <3>3
    <3> QED
      BY <1>4, <3>1, <3>2, <3>3
  <2>4. CASE i \in (after + 2)..(n + 1)
    <3>1. r[i] = s[i - 1] /\ i - 1 \in 1..n
      BY <1>3, <2>4
    <3>2. CASE j \in 1..after
      <4>1. r[j] = s[j] /\ j \in 1..n /\ i - 1 # j
        BY <1>3, <2>4, <3>2
      <4> QED
        BY <2>1, <3>1, <4>1
    <3>3. CASE j = after + 1
      BY <1>3, <2>1, <3>1, <3>3
    <3>4. CASE j \in (after + 2)..(n + 1)
      <4>1. r[j] = s[j - 1] /\ j - 1 \in 1..n
        BY <1>3, <3>4
      <4>2. i - 1 = j - 1
        BY <2>1, <3>1, <4>1
      <4> QED
        BY <4>2
    <3> QED
      BY <1>4, <3>2, <3>3, <3>4
  <2> QED
    BY <1>4, <2>2, <2>3, <2>4
<1> QED
  BY <1>1, <1>5, <1>6, <1>7 DEF n, r

IsSorted(f, key, list) ==
  f = [i \in 0..Len(list) |->
         IF i = 0 THEN <<>>
         ELSE Inserted(f[i - 1], list[i], key)]

IsSortedSteps(f, T, key, list) ==
  /\ f \in [0..Len(list) -> Seq(T)] /\ f[0] = <<>>
  /\ \A i \in 1..Len(list) : f[i] = Inserted(f[i - 1], list[i], key)
  /\ SortedBy(key, list) = f[Len(list)]

LEMMA SortedSteps ==
  ASSUME NEW T, NEW key, NEW list \in Seq(T)
  PROVE  \E f : IsSortedSteps(f, T, key, list)
<1> DEFINE n == Len(list)
           S == Seq(T)
           step(s, i) == Inserted(s, list[i], key)
           g == [x \in S \X (1..n) |-> step(x[1], x[2])]
           e == CHOOSE x : IsSorted(x, key, list)
<1>1. n \in Nat
  OBVIOUS
<1>2. \A s \in S, i \in 1..n : step(s, i) \in S
  <2> SUFFICES ASSUME NEW s \in S, NEW i \in 1..n PROVE step(s, i) \in S
    OBVIOUS
  <2>1. list[i] \in T
    OBVIOUS
  <2> QED
    BY <2>1, InsertedType
<1>3. <<>> \in S
  OBVIOUS
<1>4. SortedBy(key, list) = (CHOOSE x : IsSorted(x, key, list))[n]
  BY DEF SortedBy, IsSorted
<1> HIDE DEF n, step, S
<1>5. /\ g \in [S \X (1..n) -> S]
      /\ \A s \in S, i \in 1..n : g[<<s, i>>] = step(s, i)
  BY <1>2
<1> HIDE DEF g
<1>6. PICK f : IsStepwise(f, n, S, <<>>, g)
  BY <1>1, <1>3, <1>5, StepwiseExists
<1>7. /\ f = [i \in 0..n |-> f[i]] /\ f[0] = <<>>
      /\ \A i \in 0..n : f[i] \in S
      /\ \A i \in 1..n : f[i] = g[<<f[i - 1], i>>]
  BY <1>6 DEF IsStepwise
<1>8. \A i \in 1..n : f[i] = step(f[i - 1], i)
  <2> SUFFICES ASSUME NEW i \in 1..n PROVE f[i] = step(f[i - 1], i)
    OBVIOUS
  <2>1. i - 1 \in 0..n
    BY <1>1
  <2> QED
    BY <1>5, <1>7, <2>1
<1> DEFINE h == [i \in 0..n |-> IF i = 0 THEN <<>> ELSE step(f[i - 1], i)]
<1>9. \A i \in 0..n : f[i] = h[i]
  <2> SUFFICES ASSUME NEW i \in 0..n PROVE f[i] = h[i]
    OBVIOUS
  <2>1. CASE i = 0
    BY <1>7, <2>1
  <2>2. CASE i # 0
    <3>1. i \in 1..n
      BY <1>1, <2>2
    <3>2. f[i] = step(f[i - 1], i)
      BY <1>8, <3>1
    <3> QED
      BY <2>2, <3>2
  <2> QED
    BY <2>1, <2>2
<1>10. f = h
  <2> HIDE DEF h
  <2>1. h = [i \in 0..n |-> h[i]]
    BY DEF h
  <2> QED
    BY <1>7, <1>9, <2>1
<1>11. IsSorted(f, key, list)
  BY <1>10 DEF IsSorted, n, step
<1>12. IsSorted(e, key, list)
  BY <1>11
<1> HIDE DEF e, h
<1>13. e = [i \in 0..n |-> IF i = 0 THEN <<>> ELSE step(e[i - 1], i)]
  BY <1>12, Zenon DEF IsSorted, n, step
<1>14. e[0] = <<>> /\ \A i \in 1..n : e[i] = step(e[i - 1], i)
  <2> DEFINE k == [i \in 0..n |-> IF i = 0 THEN <<>> ELSE step(e[i - 1], i)]
  <2>1. k[0] = <<>> /\ \A i \in 1..n : k[i] = step(e[i - 1], i)
    BY <1>1
  <2>2. e = k
    BY <1>13
  <2> HIDE DEF k
  <2> QED
    BY <2>1, <2>2
<1>15. \A i \in 0..n : e[i] = f[i]
  <2>1. Follows(e, n, S, <<>>, g)
    BY <1>5, <1>14 DEF Follows
  <2> QED
    BY <1>1, <1>6, <2>1, StepwiseUnique
<1>16. e = f
  <2>1. e = [i \in 0..n |-> e[i]]
    BY <1>13
  <2> QED
    BY <1>7, <1>15, <2>1
<1>17. f \in [0..n -> S]
  BY <1>6 DEF IsStepwise
<1>18. \A i \in 1..n : f[i] = step(f[i - 1], i)
  BY <1>8
<1>19. SortedBy(key, list) = f[n]
  BY <1>4, <1>16 DEF e
<1>20. IsSortedSteps(f, T, key, list)
  BY <1>7, <1>17, <1>18, <1>19 DEF IsSortedSteps, n, step, S
<1> QED
  BY <1>20

LEMMA SortedFacts ==
  ASSUME NEW T, NEW list \in Seq(T), NEW key, \A y \in T : key[y] \in Int
  PROVE  /\ SortedBy(key, list) \in Seq(T)
         /\ Len(SortedBy(key, list)) = Len(list)
         /\ Entries(SortedBy(key, list)) = Entries(list)
         /\ Ordered(key, SortedBy(key, list))
         /\ Distinct(list) => Distinct(SortedBy(key, list))
<1> DEFINE n == Len(list)
<1>0. n \in Nat /\ \A i \in 1..n : list[i] \in T
  OBVIOUS
<1>1. PICK f : IsSortedSteps(f, T, key, list)
  BY SortedSteps
<1>2. /\ f \in [0..n -> Seq(T)] /\ f[0] = <<>>
      /\ \A i \in 1..n : f[i] = Inserted(f[i - 1], list[i], key)
      /\ SortedBy(key, list) = f[n]
  BY <1>1 DEF IsSortedSteps
<1> DEFINE Before(i) == {list[j] : j \in 1..i}
           Good(i) == /\ Len(f[i]) = i /\ Entries(f[i]) = Before(i) /\ Ordered(key, f[i])
                      /\ Distinct(list) => Distinct(f[i])
           Bad == {i \in 0..n : ~Good(i)}
<1>3. Good(0)
  <2>1. Entries(<<>>) = {} /\ Before(0) = {} /\ Distinct(<<>>) /\ Ordered(key, <<>>)
    BY DEF Entries, Distinct, Ordered
  <2> QED
    BY <1>2, <2>1
<1>4. ASSUME NEW i \in 1..n, Good(i - 1) PROVE Good(i)
  <2>1. Before(i) = Before(i - 1) \cup {list[i]}
    <3>1. \A j \in 1..i : j = i \/ j \in 1..(i - 1)
      BY <1>0
    <3>2. \A j \in 1..(i - 1) : j \in 1..i
      BY <1>0
    <3>3. i \in 1..i
      BY <1>0
    <3> QED
      BY <3>1, <3>2, <3>3
  <2>2. Distinct(list) => list[i] \notin Before(i - 1)
    <3> SUFFICES ASSUME Distinct(list), NEW j \in 1..(i - 1), list[i] = list[j]
                 PROVE  FALSE
      OBVIOUS
    <3>1. i \in 1..n /\ j \in 1..n /\ j # i
      BY <1>0
    <3> QED
      BY <3>1 DEF Distinct
  <2>3. f[i - 1] \in Seq(T) /\ list[i] \in T
    <3>1. i - 1 \in 0..n
      BY <1>0
    <3> QED
      BY <1>0, <1>2, <3>1
  <2> HIDE DEF Before
  <2> DEFINE s == f[i - 1]
             r == Inserted(s, list[i], key)
  <2>4. Ordered(key, s) /\ s \in Seq(T)
    BY <1>4, <2>3
  <2> HIDE DEF s
  <2>5. /\ Len(r) = Len(s) + 1
        /\ Entries(r) = Entries(s) \cup {list[i]}
        /\ Ordered(key, r)
        /\ Distinct(s) /\ list[i] \notin Entries(s) => Distinct(r)
    BY <2>3, <2>4, InsertedFacts
  <2>6. f[i] = r
    BY <1>2 DEF s
  <2> HIDE DEF r
  <2> QED
    BY <1>0, <1>4, <2>1, <2>2, <2>5, <2>6 DEF s
<1> HIDE DEF Good
<1>5. Bad = {}
  <2> SUFFICES ASSUME Bad # {} PROVE FALSE
    OBVIOUS
  <2>1. Bad \in SUBSET Nat
    OBVIOUS
  <2>2. PICK i \in Bad : \A j \in Bad : i <= j
    <3> HIDE DEF Bad
    <3> QED
      BY <2>1, LeastOf
  <2>3. i # 0
    BY <1>3, <2>2
  <2>4. i \in 1..n /\ i - 1 \in 0..n /\ i - 1 \notin Bad
    BY <1>0, <2>2, <2>3
  <2> QED
    BY <1>4, <2>2, <2>4
<1>6. Good(n)
  BY <1>0, <1>5
<1>7. f[n] \in Seq(T)
  BY <1>0, <1>2
<1> QED
  BY <1>2, <1>6, <1>7 DEF Good, Entries

\* A set of numbers has only one increasing sequence.
LEMMA IncreasingUnique ==
  ASSUME NEW s \in Seq(Nat), NEW t \in Seq(Nat), Entries(s) = Entries(t),
         \A i, j \in 1..Len(s) : i < j => s[i] < s[j],
         \A i, j \in 1..Len(t) : i < j => t[i] < t[j]
  PROVE  s = t
<1> DEFINE m == Len(s)
           n == Len(t)
<1>1. /\ m \in Nat /\ n \in Nat /\ s = [i \in 1..m |-> s[i]] /\ t = [i \in 1..n |-> t[i]]
      /\ \A i \in 1..m : s[i] \in Nat
      /\ \A i \in 1..n : t[i] \in Nat
  OBVIOUS
<1>2. /\ \A i \in 1..m : \E j \in 1..n : s[i] = t[j]
      /\ \A j \in 1..n : \E i \in 1..m : s[i] = t[j]
  BY DEF Entries
<1>3. /\ \A i, j \in 1..m : i < j => s[i] < s[j]
      /\ \A i, j \in 1..n : i < j => t[i] < t[j]
  OBVIOUS
<1> HIDE DEF m, n
<1> DEFINE Bad == {i \in Nat \ {0} : i <= m /\ i <= n /\ s[i] # t[i]}
<1>4. Bad = {}
  <2> SUFFICES ASSUME Bad # {} PROVE FALSE
    OBVIOUS
  <2>1. Bad \in SUBSET Nat
    OBVIOUS
  <2>2. PICK i \in Bad : \A k \in Bad : i <= k
    <3> HIDE DEF Bad
    <3> QED
      BY <2>1, LeastOf
  <2>3. i \in 1..m /\ i \in 1..n /\ s[i] # t[i] /\ s[i] \in Nat /\ t[i] \in Nat
    BY <1>1, <2>2
  <2>4. \A k \in 1..(i - 1) : k \in 1..m /\ k \in 1..n /\ k < i /\ s[k] = t[k]
    <3> SUFFICES ASSUME NEW k \in 1..(i - 1)
                 PROVE  k \in 1..m /\ k \in 1..n /\ k < i /\ s[k] = t[k]
      OBVIOUS
    <3>1. k \in Nat \ {0} /\ k <= m /\ k <= n /\ ~(i <= k) /\ k < i
      <4>1. m \in Nat /\ n \in Nat /\ i \in Nat /\ i <= m /\ i <= n
        BY <1>1, <2>3
      <4> QED
        BY <4>1
    <3>2. k \notin Bad
      BY <2>2, <3>1
    <3> QED
      BY <1>1, <3>1, <3>2
  <2>5. CASE s[i] < t[i]
    <3>1. PICK j \in 1..n : s[i] = t[j]
      BY <1>2, <2>3
    <3>2. j < i
      <4>1. ~(i < j) /\ i # j
        BY <1>1, <1>3, <2>3, <2>5, <3>1
      <4> QED
        BY <2>3, <4>1
    <3>3. j \in 1..(i - 1)
      BY <2>3, <3>2
    <3>4. s[j] = t[j] /\ s[j] < s[i]
      BY <1>3, <2>3, <2>4, <3>3
    <3> QED
      BY <2>3, <3>1, <3>4
  <2>6. CASE t[i] < s[i]
    <3>1. PICK j \in 1..m : s[j] = t[i]
      BY <1>2, <2>3
    <3>2. j < i
      <4>1. ~(i < j) /\ i # j
        BY <1>1, <1>3, <2>3, <2>6, <3>1
      <4> QED
        BY <2>3, <4>1
    <3>3. j \in 1..(i - 1)
      BY <2>3, <3>2
    <3>4. s[j] = t[j] /\ t[j] < t[i]
      BY <1>3, <2>3, <2>4, <3>3
    <3> QED
      BY <2>3, <3>1, <3>4
  <2> QED
    BY <2>3, <2>5, <2>6
<1>5. \A i \in Nat \ {0} : i <= m /\ i <= n => s[i] = t[i]
  BY <1>4
<1>6. m = n
  <2>1. CASE m < n
    <3>1. m + 1 \in 1..n
      BY <1>1, <2>1
    <3>2. PICK i \in 1..m : s[i] = t[m + 1]
      BY <1>2, <3>1
    <3>a. i \in Nat \ {0} /\ i <= m /\ i <= n /\ i < m + 1 /\ i \in 1..n
      BY <1>1, <2>1
    <3>3. i \in 1..n /\ i < m + 1 /\ s[i] = t[i]
      BY <1>5, <3>a
    <3>4. t[i] < t[m + 1]
      BY <1>3, <3>1, <3>3
    <3> QED
      BY <1>1, <3>1, <3>2, <3>3, <3>4
  <2>2. CASE n < m
    <3>1. n + 1 \in 1..m
      BY <1>1, <2>2
    <3>2. PICK i \in 1..n : s[n + 1] = t[i]
      BY <1>2, <3>1
    <3>a. i \in Nat \ {0} /\ i <= m /\ i <= n /\ i < n + 1 /\ i \in 1..m
      BY <1>1, <2>2
    <3>3. i \in 1..m /\ i < n + 1 /\ s[i] = t[i]
      BY <1>5, <3>a
    <3>4. s[i] < s[n + 1]
      BY <1>3, <3>1, <3>3
    <3> QED
      BY <1>1, <3>1, <3>2, <3>3, <3>4
  <2> QED
    BY <1>1, <2>1, <2>2
<1>7. ASSUME NEW i \in 1..m PROVE s[i] = t[i]
  <2>1. i \in Nat \ {0} /\ i <= m /\ i <= n
    BY <1>1, <1>6
  <2> QED
    BY <1>5, <2>1
<1> QED
  BY <1>1, <1>6, <1>7

\* Sorting forgets the order.
LEMMA SameSorted ==
  ASSUME NEW s \in Seq(Nat), NEW t \in Seq(Nat), Distinct(s), Distinct(t),
         Entries(s) = Entries(t)
  PROVE  SortedBy(Number, s) = SortedBy(Number, t) /\ Len(s) = Len(t)
<1> DEFINE u == SortedBy(Number, s)
           v == SortedBy(Number, t)
<1>1. \A x \in Nat : Number[x] \in Int /\ Number[x] = x
  BY DEF Number
<1>2. /\ u \in Seq(Nat) /\ Len(u) = Len(s) /\ Entries(u) = Entries(s)
      /\ Ordered(Number, u) /\ Distinct(u)
  BY <1>1, SortedFacts
<1>3. /\ v \in Seq(Nat) /\ Len(v) = Len(t) /\ Entries(v) = Entries(t)
      /\ Ordered(Number, v) /\ Distinct(v)
  BY <1>1, SortedFacts
<1> HIDE DEF u, v
<1>4. ASSUME NEW w \in Seq(Nat), Ordered(Number, w), Distinct(w),
             NEW i \in 1..Len(w), NEW j \in 1..Len(w), i < j
      PROVE  w[i] < w[j]
  <2>1. Number[w[i]] <= Number[w[j]] /\ w[i] # w[j] /\ w[i] \in Nat /\ w[j] \in Nat
    BY <1>4 DEF Ordered, Distinct
  <2> QED
    BY <1>1, <2>1
<1>5. \A i, j \in 1..Len(u) : i < j => u[i] < u[j]
  BY <1>2, <1>4
<1>6. \A i, j \in 1..Len(v) : i < j => v[i] < v[j]
  BY <1>3, <1>4
<1>7. u = v
  BY <1>2, <1>3, <1>5, <1>6, IncreasingUnique
<1> QED
  BY <1>2, <1>3, <1>7 DEF u, v
LEMMA EntriesAreRange ==
  ASSUME NEW T, NEW s \in Seq(T)
  PROVE  Range(s) = Entries(s) /\ Entries(s) \subseteq T
  BY DEF Range, Entries

LEMMA ConcatFacts ==
  ASSUME NEW T, NEW s \in Seq(T), NEW t \in Seq(T)
  PROVE  /\ s \o t \in Seq(T)
         /\ Entries(s \o t) = Entries(s) \cup Entries(t)
<1> DEFINE m == Len(s)
           n == Len(t)
           c == s \o t
<1>1. /\ m \in Nat /\ n \in Nat /\ c \in Seq(T) /\ Len(c) = m + n
      /\ \A i \in 1..m : c[i] = s[i]
      /\ \A i \in 1..n : c[m + i] = t[i]
  OBVIOUS
<1>2. /\ Entries(s) = {s[i] : i \in 1..m} /\ Entries(t) = {t[i] : i \in 1..n}
      /\ Entries(c) = {c[i] : i \in 1..(m + n)}
  BY <1>1 DEF Entries
<1> HIDE DEF m, n, c
<1>3. ASSUME NEW i \in 1..(m + n) PROVE c[i] \in Entries(s) \cup Entries(t)
  <2>1. CASE i \in 1..m
    BY <1>1, <1>2, <2>1
  <2>2. CASE i \notin 1..m
    <3>1. i - m \in 1..n /\ m + (i - m) = i
      BY <1>1, <2>2
    <3>2. c[i] = t[i - m]
      BY <1>1, <3>1
    <3> QED
      BY <1>2, <3>1, <3>2
  <2> QED
    BY <2>1, <2>2
<1>4. ASSUME NEW i \in 1..m PROVE s[i] \in Entries(c)
  <2>1. i \in 1..(m + n)
    BY <1>1
  <2> QED
    BY <1>1, <1>2, <2>1
<1>5. ASSUME NEW i \in 1..n PROVE t[i] \in Entries(c)
  <2>1. m + i \in 1..(m + n)
    BY <1>1
  <2> QED
    BY <1>1, <1>2, <2>1
<1>6. Entries(c) = Entries(s) \cup Entries(t)
  BY <1>2, <1>3, <1>4, <1>5
<1> QED
  BY <1>1, <1>6 DEF c

IsGathered(f, datagram) ==
  f = [i \in 0..Len(datagram) |->
         IF i = 0 THEN <<>>
         ELSE IF i \in ParsedInitials(datagram) THEN f[i - 1] \o datagram[i].frames
         ELSE f[i - 1]]

IsFramesSteps(f, datagram) ==
  /\ f \in [0..Len(datagram) -> Seq(Frames)] /\ f[0] = <<>>
  /\ \A i \in 1..Len(datagram) :
       f[i] = IF i \in ParsedInitials(datagram) THEN f[i - 1] \o datagram[i].frames
              ELSE f[i - 1]
  /\ CryptoFrames(datagram) = f[Len(datagram)]

LEMMA FramesSteps ==
  ASSUME NEW m \in Nat, NEW datagram \in [1..m -> Packets]
  PROVE  \E f : IsFramesSteps(f, datagram)
<1> DEFINE n == Len(datagram)
           S == Seq(Frames)
           step(s, i) == IF i \in ParsedInitials(datagram) THEN s \o datagram[i].frames ELSE s
           g == [x \in S \X (1..n) |-> step(x[1], x[2])]
           e == CHOOSE x : IsGathered(x, datagram)
<1>1. n \in Nat
  OBVIOUS
<1>2. \A s \in S, i \in 1..n : step(s, i) \in S
  <2> SUFFICES ASSUME NEW s \in S, NEW i \in 1..n PROVE step(s, i) \in S
    OBVIOUS
  <2>1. datagram[i] \in Packets
    OBVIOUS
  <2>2. datagram[i].frames \in Seq(Frames)
    BY <2>1, QuicAssumption
  <2>3. s \o datagram[i].frames \in Seq(Frames)
    BY <2>2
  <2> QED
    BY <2>3
<1>3. <<>> \in S
  OBVIOUS
<1>4. CryptoFrames(datagram) = (CHOOSE x : IsGathered(x, datagram))[n]
  BY DEF CryptoFrames, IsGathered
<1> HIDE DEF n, step, S
<1>5. /\ g \in [S \X (1..n) -> S]
      /\ \A s \in S, i \in 1..n : g[<<s, i>>] = step(s, i)
  BY <1>2
<1> HIDE DEF g
<1>6. PICK f : IsStepwise(f, n, S, <<>>, g)
  BY <1>1, <1>3, <1>5, StepwiseExists
<1>7. /\ f = [i \in 0..n |-> f[i]] /\ f[0] = <<>>
      /\ \A i \in 0..n : f[i] \in S
      /\ \A i \in 1..n : f[i] = g[<<f[i - 1], i>>]
  BY <1>6 DEF IsStepwise
<1>8. \A i \in 1..n : f[i] = step(f[i - 1], i)
  <2> SUFFICES ASSUME NEW i \in 1..n PROVE f[i] = step(f[i - 1], i)
    OBVIOUS
  <2>1. i - 1 \in 0..n
    BY <1>1
  <2> QED
    BY <1>5, <1>7, <2>1
<1> DEFINE h == [i \in 0..n |-> IF i = 0 THEN <<>> ELSE step(f[i - 1], i)]
<1>9. \A i \in 0..n : f[i] = h[i]
  <2> SUFFICES ASSUME NEW i \in 0..n PROVE f[i] = h[i]
    OBVIOUS
  <2>1. CASE i = 0
    BY <1>7, <2>1
  <2>2. CASE i # 0
    <3>1. i \in 1..n
      BY <1>1, <2>2
    <3>2. f[i] = step(f[i - 1], i)
      BY <1>8, <3>1
    <3> QED
      BY <2>2, <3>2
  <2> QED
    BY <2>1, <2>2
<1>10. f = h
  <2> HIDE DEF h
  <2>1. h = [i \in 0..n |-> h[i]]
    BY DEF h
  <2> QED
    BY <1>7, <1>9, <2>1
<1>11. IsGathered(f, datagram)
  BY <1>10 DEF IsGathered, n, step
<1>12. IsGathered(e, datagram)
  BY <1>11
<1> HIDE DEF e, h
<1>13. e = [i \in 0..n |-> IF i = 0 THEN <<>> ELSE step(e[i - 1], i)]
  BY <1>12, Zenon DEF IsGathered, n, step
<1>14. e[0] = <<>> /\ \A i \in 1..n : e[i] = step(e[i - 1], i)
  <2> DEFINE k == [i \in 0..n |-> IF i = 0 THEN <<>> ELSE step(e[i - 1], i)]
  <2>1. k[0] = <<>> /\ \A i \in 1..n : k[i] = step(e[i - 1], i)
    BY <1>1
  <2>2. e = k
    BY <1>13
  <2> HIDE DEF k
  <2> QED
    BY <2>1, <2>2
<1>15. \A i \in 0..n : e[i] = f[i]
  <2>1. Follows(e, n, S, <<>>, g)
    BY <1>5, <1>14 DEF Follows
  <2> QED
    BY <1>1, <1>6, <2>1, StepwiseUnique
<1>16. e = f
  <2>1. e = [i \in 0..n |-> e[i]]
    BY <1>13
  <2> QED
    BY <1>7, <1>15, <2>1
<1>17. f \in [0..n -> S]
  BY <1>6 DEF IsStepwise
<1>18. \A i \in 1..n : f[i] = step(f[i - 1], i)
  BY <1>8
<1>19. CryptoFrames(datagram) = f[n]
  BY <1>4, <1>16 DEF e
<1>20. IsFramesSteps(f, datagram)
  BY <1>7, <1>17, <1>18, <1>19 DEF IsFramesSteps, n, step, S
<1> QED
  BY <1>20

LEMMA CryptoFramesType ==
  ASSUME NEW m \in Nat, NEW datagram \in [1..m -> Packets]
  PROVE  CryptoFrames(datagram) \in Seq(Frames)
<1>1. PICK f : IsFramesSteps(f, datagram)
  BY FramesSteps
<1>2. f \in [0..Len(datagram) -> Seq(Frames)] /\ CryptoFrames(datagram) = f[Len(datagram)]
  BY <1>1 DEF IsFramesSteps
<1>3. Len(datagram) \in 0..Len(datagram)
  OBVIOUS
<1> QED
  BY <1>2, <1>3

LEMMA FrameFacts ==
  ASSUME NEW g \in Frames
  PROVE  /\ g[1] \in Nat /\ g[2] \in Nat \ {0}
         /\ g[1] + g[2] <= HelloLength /\ HelloLength \in Nat
         /\ Bytes(g) = g[1]..(g[1] + g[2] - 1)
  BY QuicAssumption DEF Frames, Bytes

LEMMA TakenFacts ==
  ASSUME NEW last \in Nat, NEW g \in Frames
  PROVE  /\ Taken(last, g) \in Nat
         /\ Taken(last, g) = IF g[1] > last \/ g[1] + g[2] <= last THEN last
                             ELSE g[1] + g[2]
<1>1. g[1] \in Nat /\ g[2] \in Nat /\ g[1] + g[2] \in Nat
  BY FrameFacts
<1>2. Max({last, g[1] + g[2]}) = IF last >= g[1] + g[2] THEN last ELSE g[1] + g[2]
  BY <1>1, MaxOfTwo
<1> QED
  BY <1>1, <1>2 DEF Taken

IsStream(f, sorted) ==
  f = [i \in 0..Len(sorted) |->
         IF i = 0 THEN 0
         ELSE Taken(f[i - 1], sorted[i])]

IsStreamSteps(f, sorted) ==
  /\ f \in [0..Len(sorted) -> Nat] /\ f[0] = 0
  /\ \A i \in 1..Len(sorted) : f[i] = Taken(f[i - 1], sorted[i])
  /\ Stream(sorted) = f[Len(sorted)]

LEMMA StreamSteps ==
  ASSUME NEW sorted \in Seq(Frames)
  PROVE  \E f : IsStreamSteps(f, sorted)
<1> DEFINE n == Len(sorted)
           S == Nat
           step(s, i) == Taken(s, sorted[i])
           g == [x \in S \X (1..n) |-> step(x[1], x[2])]
           e == CHOOSE x : IsStream(x, sorted)
<1>1. n \in Nat
  OBVIOUS
<1>2. \A s \in S, i \in 1..n : step(s, i) \in S
  <2> SUFFICES ASSUME NEW s \in S, NEW i \in 1..n PROVE step(s, i) \in S
    OBVIOUS
  <2>1. sorted[i] \in Frames
    OBVIOUS
  <2> QED
    BY <2>1, TakenFacts
<1>3. 0 \in S
  OBVIOUS
<1>4. Stream(sorted) = (CHOOSE x : IsStream(x, sorted))[n]
  BY DEF Stream, IsStream
<1> HIDE DEF n, step, S
<1>5. /\ g \in [S \X (1..n) -> S]
      /\ \A s \in S, i \in 1..n : g[<<s, i>>] = step(s, i)
  BY <1>2
<1> HIDE DEF g
<1>6. PICK f : IsStepwise(f, n, S, 0, g)
  BY <1>1, <1>3, <1>5, StepwiseExists
<1>7. /\ f = [i \in 0..n |-> f[i]] /\ f[0] = 0
      /\ \A i \in 0..n : f[i] \in S
      /\ \A i \in 1..n : f[i] = g[<<f[i - 1], i>>]
  BY <1>6 DEF IsStepwise
<1>8. \A i \in 1..n : f[i] = step(f[i - 1], i)
  <2> SUFFICES ASSUME NEW i \in 1..n PROVE f[i] = step(f[i - 1], i)
    OBVIOUS
  <2>1. i - 1 \in 0..n
    BY <1>1
  <2> QED
    BY <1>5, <1>7, <2>1
<1> DEFINE h == [i \in 0..n |-> IF i = 0 THEN 0 ELSE step(f[i - 1], i)]
<1>9. \A i \in 0..n : f[i] = h[i]
  <2> SUFFICES ASSUME NEW i \in 0..n PROVE f[i] = h[i]
    OBVIOUS
  <2>1. CASE i = 0
    BY <1>7, <2>1
  <2>2. CASE i # 0
    <3>1. i \in 1..n
      BY <1>1, <2>2
    <3>2. f[i] = step(f[i - 1], i)
      BY <1>8, <3>1
    <3> QED
      BY <2>2, <3>2
  <2> QED
    BY <2>1, <2>2
<1>10. f = h
  <2> HIDE DEF h
  <2>1. h = [i \in 0..n |-> h[i]]
    BY DEF h
  <2> QED
    BY <1>7, <1>9, <2>1
<1>11. IsStream(f, sorted)
  BY <1>10 DEF IsStream, n, step
<1>12. IsStream(e, sorted)
  BY <1>11
<1> HIDE DEF e, h
<1>13. e = [i \in 0..n |-> IF i = 0 THEN 0 ELSE step(e[i - 1], i)]
  BY <1>12, Zenon DEF IsStream, n, step
<1>14. e[0] = 0 /\ \A i \in 1..n : e[i] = step(e[i - 1], i)
  <2> DEFINE k == [i \in 0..n |-> IF i = 0 THEN 0 ELSE step(e[i - 1], i)]
  <2>1. k[0] = 0 /\ \A i \in 1..n : k[i] = step(e[i - 1], i)
    BY <1>1
  <2>2. e = k
    BY <1>13
  <2> HIDE DEF k
  <2> QED
    BY <2>1, <2>2
<1>15. \A i \in 0..n : e[i] = f[i]
  <2>1. Follows(e, n, S, 0, g)
    BY <1>5, <1>14 DEF Follows
  <2> QED
    BY <1>1, <1>6, <2>1, StepwiseUnique
<1>16. e = f
  <2>1. e = [i \in 0..n |-> e[i]]
    BY <1>13
  <2> QED
    BY <1>7, <1>15, <2>1
<1>17. f \in [0..n -> S]
  BY <1>6 DEF IsStepwise
<1>18. \A i \in 1..n : f[i] = step(f[i - 1], i)
  BY <1>8
<1>19. Stream(sorted) = f[n]
  BY <1>4, <1>16 DEF e
<1>20. IsStreamSteps(f, sorted)
  BY <1>7, <1>17, <1>18, <1>19 DEF IsStreamSteps, n, step, S
<1> QED
  BY <1>20

\* Where the stream ends after the first frames of a sorted list: all before it
\* has come, and each frame lies before it or beyond a gap.
IsEnd(last, sorted, i) ==
  /\ \A x \in 0..(last - 1) : \E j \in 1..i : x \in Bytes(sorted[j])
  /\ \A j \in 1..i : sorted[j][1] + sorted[j][2] <= last \/ sorted[j][1] > last

LEMMA EndStep ==
  ASSUME NEW sorted \in Seq(Frames), NEW last \in Nat, NEW i \in 1..Len(sorted),
         Ordered(Offset, sorted), IsEnd(last, sorted, i - 1)
  PROVE  IsEnd(Taken(last, sorted[i]), sorted, i)
<1> DEFINE n == Len(sorted)
           g == sorted[i]
           end == Taken(last, g)
<1>1. /\ n \in Nat /\ i \in Nat
      /\ \A j \in 1..n : sorted[j] \in Frames
      /\ \A j \in 1..i : j \in 1..n /\ (j = i \/ j \in 1..(i - 1))
      /\ \A j \in 1..(i - 1) : j \in 1..n /\ j \in 1..i /\ j < i
      /\ i \in 1..i /\ i \in 1..n
  OBVIOUS
<1>2. /\ g \in Frames /\ g[1] \in Nat /\ g[2] \in Nat \ {0}
      /\ Bytes(g) = g[1]..(g[1] + g[2] - 1)
  BY <1>1, FrameFacts
<1>3. /\ end \in Nat
      /\ end = IF g[1] > last \/ g[1] + g[2] <= last THEN last ELSE g[1] + g[2]
  BY <1>2, TakenFacts
<1>4. \A j \in 1..(i - 1) : sorted[j][1] <= g[1]
  <2>1. \A j \in 1..n : Offset[sorted[j]] = sorted[j][1]
    BY <1>1 DEF Offset
  <2> QED
    BY <1>1, <2>1 DEF Ordered
<1>5. /\ \A x \in 0..(last - 1) : \E j \in 1..(i - 1) : x \in Bytes(sorted[j])
      /\ \A j \in 1..(i - 1) : \/ sorted[j][1] + sorted[j][2] <= last
                               \/ sorted[j][1] > last
  BY DEF IsEnd
<1>6. \A j \in 1..(i - 1) : sorted[j][1] \in Nat /\ sorted[j][2] \in Nat
  <2> SUFFICES ASSUME NEW j \in 1..(i - 1)
               PROVE  sorted[j][1] \in Nat /\ sorted[j][2] \in Nat
    OBVIOUS
  <2>1. sorted[j] \in Frames
    BY <1>1
  <2> QED
    BY <2>1, FrameFacts
<1>7. sorted[i] = g
  OBVIOUS
<1> HIDE DEF n, g, end
<1>8. ASSUME NEW x \in 0..(end - 1) PROVE \E j \in 1..i : x \in Bytes(sorted[j])
  <2>1. CASE x < last
    <3>1. x \in 0..(last - 1)
      BY <2>1
    <3> QED
      BY <1>1, <1>5, <3>1
  <2>2. CASE ~(x < last)
    <3>1. x \in g[1]..(g[1] + g[2] - 1)
      <4>1. last <= x /\ x \in Nat
        BY <1>3, <2>2
      <4>2. end = g[1] + g[2] /\ g[1] <= last
        BY <1>2, <1>3, <4>1, SMTT(60)
      <4> QED
        BY <1>2, <4>1, <4>2, SMTT(60)
    <3> QED
      BY <1>1, <1>2, <1>7, <3>1
  <2> QED
    BY <2>1, <2>2
<1>9. ASSUME NEW j \in 1..i
      PROVE  sorted[j][1] + sorted[j][2] <= end \/ sorted[j][1] > end
  <2>1. CASE j = i
    BY <1>2, <1>3, <1>7, <2>1
  <2>2. CASE j \in 1..(i - 1)
    <3>1. /\ sorted[j][1] + sorted[j][2] <= last \/ sorted[j][1] > last
          /\ sorted[j][1] <= g[1] /\ sorted[j][1] \in Nat /\ sorted[j][2] \in Nat
      BY <1>4, <1>5, <1>6, <2>2
    <3> QED
      <4>1. g[1] > last => end = last
        BY <1>3
      <4>2. g[1] <= last => end = last \/ end = g[1] + g[2]
        BY <1>2, <1>3
      <4> QED
        BY <1>2, <1>3, <3>1, <4>1, <4>2, SMTT(60)
  <2> QED
    BY <1>1, <2>1, <2>2
<1> QED
  BY <1>8, <1>9 DEF IsEnd, end, g

LEMMA StreamFacts ==
  ASSUME NEW sorted \in Seq(Frames), Ordered(Offset, sorted)
  PROVE  Stream(sorted) \in Nat /\ IsEnd(Stream(sorted), sorted, Len(sorted))
<1> DEFINE n == Len(sorted)
<1>1. PICK f : IsStreamSteps(f, sorted)
  BY StreamSteps
<1>2. /\ f \in [0..n -> Nat] /\ f[0] = 0
      /\ \A i \in 1..n : f[i] = Taken(f[i - 1], sorted[i])
      /\ Stream(sorted) = f[n]
  BY <1>1 DEF IsStreamSteps
<1>0. n \in Nat
  OBVIOUS
<1> DEFINE Bad == {i \in 0..n : ~IsEnd(f[i], sorted, i)}
<1>3. IsEnd(f[0], sorted, 0)
  BY <1>2 DEF IsEnd
<1>4. ASSUME NEW i \in 1..n, IsEnd(f[i - 1], sorted, i - 1) PROVE IsEnd(f[i], sorted, i)
  <2>1. i - 1 \in 0..n
    BY <1>0
  <2>2. f[i - 1] \in Nat
    BY <1>2, <2>1
  <2>3. IsEnd(Taken(f[i - 1], sorted[i]), sorted, i)
    BY <1>4, <2>2, EndStep
  <2> QED
    BY <1>2, <2>3
<1>5. Bad = {}
  <2> SUFFICES ASSUME Bad # {} PROVE FALSE
    OBVIOUS
  <2>1. Bad \in SUBSET Nat
    OBVIOUS
  <2>2. PICK i \in Bad : \A j \in Bad : i <= j
    <3> HIDE DEF Bad
    <3> QED
      BY <2>1, LeastOf
  <2>3. i # 0
    BY <1>3, <2>2
  <2>4. i \in 1..n /\ i - 1 \in 0..n /\ i - 1 \notin Bad
    BY <1>0, <2>2, <2>3
  <2> QED
    BY <1>4, <2>2, <2>4
<1>6. n \in 0..n
  BY <1>0
<1> QED
  BY <1>2, <1>5, <1>6

Covered(all) == 0..(HelloLength - 1) \subseteq UNION {Bytes(g) : g \in all}

\* The hello is whole exactly when the frames cover it.
LEMMA WholeWhenCovered ==
  ASSUME NEW all \in Seq(Frames)
  PROVE  /\ reassembleClientHello(all) \in {0, HelloLength}
         /\ (reassembleClientHello(all) # 0) <=> Covered(Entries(all))
<1> DEFINE sorted == SortedBy(Offset, all)
           last == Stream(sorted)
<1>1. \A g \in Frames : Offset[g] \in Int
  <2> SUFFICES ASSUME NEW g \in Frames PROVE Offset[g] \in Int
    OBVIOUS
  <2>1. Offset[g] = g[1]
    BY DEF Offset
  <2> QED
    BY <2>1, FrameFacts
<1>2. /\ sorted \in Seq(Frames) /\ Entries(sorted) = Entries(all)
      /\ Ordered(Offset, sorted)
  BY <1>1, SortedFacts
<1> HIDE DEF sorted
<1>3. last \in Nat /\ IsEnd(last, sorted, Len(sorted))
  BY <1>2, StreamFacts
<1>4. HelloLength \in Nat /\ Header \in 1..HelloLength
  BY QuicAssumption
<1>5. reassembleClientHello(all) = IF last >= Header /\ last >= HelloLength
                                     THEN HelloLength ELSE 0
  BY DEF reassembleClientHello, sorted
<1> HIDE DEF last
<1>6. Entries(all) = {sorted[j] : j \in 1..Len(sorted)}
  BY <1>2 DEF Entries
<1>7. CASE last >= HelloLength
  <2>1. reassembleClientHello(all) = HelloLength /\ HelloLength # 0
    BY <1>3, <1>4, <1>5, <1>7
  <2>2. ASSUME NEW x \in 0..(HelloLength - 1)
        PROVE  x \in UNION {Bytes(g) : g \in Entries(all)}
    <3>1. x \in 0..(last - 1)
      BY <1>3, <1>4, <1>7
    <3>2. PICK j \in 1..Len(sorted) : x \in Bytes(sorted[j])
      BY <1>3, <3>1 DEF IsEnd
    <3> QED
      BY <1>6, <3>2
  <2> QED
    BY <2>1, <2>2 DEF Covered
<1>8. CASE ~(last >= HelloLength)
  <2>1. reassembleClientHello(all) = 0 /\ last \in 0..(HelloLength - 1)
    BY <1>3, <1>4, <1>5, <1>8
  <2>2. ASSUME NEW g \in Entries(all) PROVE last \notin Bytes(g)
    <3>1. PICK j \in 1..Len(sorted) : g = sorted[j]
      BY <1>6
    <3>2. g[1] + g[2] <= last \/ g[1] > last
      BY <1>3, <3>1 DEF IsEnd
    <3>3. g \in Frames
      BY <1>2, <3>1
    <3>4. g[1] \in Nat /\ g[2] \in Nat /\ Bytes(g) = g[1]..(g[1] + g[2] - 1)
      BY <3>3, FrameFacts
    <3> QED
      BY <1>3, <3>2, <3>4
  <2> QED
    BY <2>1, <2>2 DEF Covered
<1> QED
  BY <1>7, <1>8

\* The orders of a set of numbers.
Listed(s, numbers) == s \in Seq(Nat) /\ Distinct(s) /\ Entries(s) = numbers

LEMMA OrdersFacts ==
  ASSUME NEW numbers \in SUBSET Nat, IsFiniteSet(numbers)
  PROVE  /\ Orders(numbers) # {}
         /\ \A s \in Orders(numbers) : Listed(s, numbers)
<1> DEFINE n == Cardinality(numbers)
<1>1. n \in Nat /\ Bijection(1..n, numbers) # {}
  BY FS_CardinalityType DEF ExistsBijection
<1>2. ASSUME NEW s \in Bijection(1..n, numbers) PROVE Listed(s, numbers)
  <2>1. /\ s \in [1..n -> numbers]
        /\ \A i, j \in 1..n : s[i] = s[j] => i = j
        /\ \A x \in numbers : \E i \in 1..n : s[i] = x
    BY DEF Bijection, Injection, Surjection, IsInjective
  <2> HIDE DEF n
  <2>2. s \in [1..n -> Nat]
    BY <2>1
  <2>3. s \in Seq(Nat) /\ Len(s) = n
    BY <1>1, <2>2
  <2>4. Entries(s) = numbers
    <3>1. \A i \in 1..n : s[i] \in numbers
      BY <2>1
    <3>2. Entries(s) = {s[i] : i \in 1..n}
      BY <2>3 DEF Entries
    <3>3. \A x \in numbers : x \in {s[i] : i \in 1..n}
      BY <2>1
    <3>4. \A x \in {s[i] : i \in 1..n} : x \in numbers
      BY <3>1
    <3> QED
      BY <3>2, <3>3, <3>4
  <2>5. Distinct(s)
    BY <2>1, <2>3 DEF Distinct
  <2> QED
    BY <2>3, <2>4, <2>5 DEF Listed
<1> QED
  BY <1>1, <1>2 DEF Orders

-----------------------------------------------------------------------------
(* Fingerprints: two hellos of a client differ in GREASE values and order.   *)

Grease == {v \in Nat : isGrease(v)}
Tuned == {id \in Nat : isGreaseTransportParameter(id)}

\* Two lists with the same numbers but for those of a kind, which both or none have.
Alike(s, t, kind) ==
  /\ s \in Seq(Nat) /\ t \in Seq(Nat) /\ Distinct(s) /\ Distinct(t)
  /\ Entries(s) \ kind = Entries(t) \ kind
  /\ (Entries(s) \cap kind = {}) <=> (Entries(t) \cap kind = {})

AlikeHellos(h, g) ==
  /\ h.sigs = g.sigs
  /\ Alike(h.extensions, g.extensions, Grease)
  /\ Alike(h.suites, g.suites, Grease)
  /\ Alike(h.params, g.params, Tuned)

LEMMA DropFacts ==
  ASSUME NEW s, NEW t, NEW kind, NEW D, NEW E, Alike(s, t, kind),
         Entries(s) \cap kind \subseteq D, Entries(t) \cap kind \subseteq E,
         \A v \in Nat : v \notin kind => (v \in D <=> v \in E)
  PROVE  /\ Filtered(s, D) \in Seq(Nat) /\ Filtered(t, E) \in Seq(Nat)
         /\ Distinct(Filtered(s, D)) /\ Distinct(Filtered(t, E))
         /\ Entries(Filtered(s, D)) = Entries(Filtered(t, E))
         /\ Entries(Filtered(s, D)) \cap kind = {}
<1>1. s \in Seq(Nat) /\ t \in Seq(Nat) /\ Distinct(s) /\ Distinct(t)
      /\ Entries(s) \ kind = Entries(t) \ kind
  BY DEF Alike
<1>2. /\ Filtered(s, D) \in Seq(Nat) /\ Distinct(Filtered(s, D))
      /\ Entries(Filtered(s, D)) = Entries(s) \ D
  BY <1>1, FilteredFacts
<1>3. /\ Filtered(t, E) \in Seq(Nat) /\ Distinct(Filtered(t, E))
      /\ Entries(Filtered(t, E)) = Entries(t) \ E
  BY <1>1, FilteredFacts
<1>4. Entries(s) \subseteq Nat /\ Entries(t) \subseteq Nat
  BY <1>1, EntriesAreRange
<1>5. Entries(s) \ D = Entries(t) \ E
  BY <1>1, <1>4
<1> QED
  BY <1>2, <1>3, <1>5

LEMMA GreaselessAlike ==
  ASSUME NEW s, NEW t, Alike(s, t, Grease)
  PROVE  Alike(Greaseless(s), Greaseless(t), Grease)
         /\ Entries(Greaseless(s)) = Entries(Greaseless(t))
<1> DEFINE D == {v \in Range(s) : isGrease(v)}
           E == {v \in Range(t) : isGrease(v)}
<1>1. s \in Seq(Nat) /\ t \in Seq(Nat)
  BY DEF Alike
<1>2. Range(s) = Entries(s) /\ Range(t) = Entries(t)
      /\ Entries(s) \subseteq Nat /\ Entries(t) \subseteq Nat
  BY <1>1, EntriesAreRange
<1>3. /\ Entries(s) \cap Grease \subseteq D /\ Entries(t) \cap Grease \subseteq E
      /\ \A v \in Nat : v \notin Grease => v \notin D /\ v \notin E
  BY <1>2 DEF Grease
<1>4. Greaseless(s) = Filtered(s, D) /\ Greaseless(t) = Filtered(t, E)
  BY DEF Greaseless
<1> HIDE DEF D, E
<1>5. /\ Filtered(s, D) \in Seq(Nat) /\ Filtered(t, E) \in Seq(Nat)
      /\ Distinct(Filtered(s, D)) /\ Distinct(Filtered(t, E))
      /\ Entries(Filtered(s, D)) = Entries(Filtered(t, E))
      /\ Entries(Filtered(s, D)) \cap Grease = {}
  BY <1>3, DropFacts
<1> QED
  BY <1>4, <1>5 DEF Alike

LEMMA SortedAlike ==
  ASSUME NEW s, NEW t, NEW kind, Alike(s, t, kind), Entries(s) = Entries(t)
  PROVE  SortedBy(Number, s) = SortedBy(Number, t) /\ Len(s) = Len(t)
  BY SameSorted DEF Alike

LEMMA MemberAlike ==
  ASSUME NEW s, NEW t, NEW kind, Alike(s, t, kind), NEW v, v \notin kind
  PROVE  v \in Range(s) <=> v \in Range(t)
<1>1. s \in Seq(Nat) /\ t \in Seq(Nat) /\ Entries(s) \ kind = Entries(t) \ kind
  BY DEF Alike
<1> QED
  BY <1>1, EntriesAreRange

LEMMA SomeAlike ==
  ASSUME NEW s, NEW t, NEW kind, Alike(s, t, kind)
  PROVE  (\E v \in Range(s) : v \in kind) <=> (\E v \in Range(t) : v \in kind)
<1>1. s \in Seq(Nat) /\ t \in Seq(Nat)
      /\ ((Entries(s) \cap kind = {}) <=> (Entries(t) \cap kind = {}))
  BY DEF Alike
<1> QED
  BY <1>1, EntriesAreRange

LEMMA Ja4Alike ==
  ASSUME NEW h, NEW g, AlikeHellos(h, g)
  PROVE  ja4(h) = ja4(g)
<1>1. h.sigs = g.sigs /\ Alike(h.extensions, g.extensions, Grease)
      /\ Alike(h.suites, g.suites, Grease)
  BY DEF AlikeHellos
<1>2. Sni \notin Grease /\ Alpn \notin Grease
  BY QuicAssumption DEF Grease
<1>3. Sni \in Range(h.extensions) <=> Sni \in Range(g.extensions)
  BY <1>1, <1>2, MemberAlike
<1>4. /\ Alike(Greaseless(h.suites), Greaseless(g.suites), Grease)
      /\ Entries(Greaseless(h.suites)) = Entries(Greaseless(g.suites))
      /\ Alike(Greaseless(h.extensions), Greaseless(g.extensions), Grease)
      /\ Entries(Greaseless(h.extensions)) = Entries(Greaseless(g.extensions))
  BY <1>1, GreaselessAlike
<1>5. /\ SortedBy(Number, Greaseless(h.suites)) = SortedBy(Number, Greaseless(g.suites))
      /\ Len(Greaseless(h.suites)) = Len(Greaseless(g.suites))
      /\ Len(Greaseless(h.extensions)) = Len(Greaseless(g.extensions))
  BY <1>4, SortedAlike
<1> DEFINE s == Greaseless(h.extensions)
           t == Greaseless(g.extensions)
           D == {Sni, Alpn}
<1>6. SortedBy(Number, Filtered(s, D)) = SortedBy(Number, Filtered(t, D))
  <2>1. s \in Seq(Nat) /\ t \in Seq(Nat) /\ Distinct(s) /\ Distinct(t)
        /\ Entries(s) = Entries(t)
    BY <1>4 DEF Alike
  <2> HIDE DEF s, t, D
  <2>2. /\ Filtered(s, D) \in Seq(Nat) /\ Distinct(Filtered(s, D))
        /\ Entries(Filtered(s, D)) = Entries(s) \ D
    BY <2>1, FilteredFacts
  <2>3. /\ Filtered(t, D) \in Seq(Nat) /\ Distinct(Filtered(t, D))
        /\ Entries(Filtered(t, D)) = Entries(t) \ D
    BY <2>1, FilteredFacts
  <2> QED
    BY <2>1, <2>2, <2>3, SameSorted
<1>7. (Sni \in Range(h.extensions)) = (Sni \in Range(g.extensions))
  BY <1>3
<1> QED
  BY <1>1, <1>5, <1>6, <1>7 DEF ja4

LEMMA ParametersAlike ==
  ASSUME NEW s, NEW t, Alike(s, t, Tuned)
  PROVE  transportParameterFingerprint(s) = transportParameterFingerprint(t)
<1> DEFINE D == {v \in Range(s) : isGreaseTransportParameter(v)}
           E == {v \in Range(t) : isGreaseTransportParameter(v)}
<1>1. s \in Seq(Nat) /\ t \in Seq(Nat)
  BY DEF Alike
<1>2. Range(s) = Entries(s) /\ Range(t) = Entries(t)
      /\ Entries(s) \subseteq Nat /\ Entries(t) \subseteq Nat
  BY <1>1, EntriesAreRange
<1>3. /\ Entries(s) \cap Tuned \subseteq D /\ Entries(t) \cap Tuned \subseteq E
      /\ \A v \in Nat : v \notin Tuned => v \notin D /\ v \notin E
  BY <1>2 DEF Tuned
<1>4. /\ transportParameterFingerprint(s) = SortedBy(Number, Filtered(s, D))
      /\ transportParameterFingerprint(t) = SortedBy(Number, Filtered(t, E))
  BY DEF transportParameterFingerprint
<1> HIDE DEF D, E
<1>5. /\ Filtered(s, D) \in Seq(Nat) /\ Filtered(t, E) \in Seq(Nat)
      /\ Distinct(Filtered(s, D)) /\ Distinct(Filtered(t, E))
      /\ Entries(Filtered(s, D)) = Entries(Filtered(t, E))
  BY <1>3, DropFacts
<1> QED
  BY <1>4, <1>5, SameSorted

LEMMA TraitsAlike ==
  ASSUME NEW h, NEW g, AlikeHellos(h, g)
  PROVE  chromiumTraits(h) = chromiumTraits(g)
<1>1. /\ Alike(h.extensions, g.extensions, Grease)
      /\ Alike(h.suites, g.suites, Grease) /\ Alike(h.params, g.params, Tuned)
  BY DEF AlikeHellos
<1>2. Alps \notin Grease /\ GoogleVersion \notin Tuned
  BY QuicAssumption DEF Grease, Tuned
<1>3. Alps \in Range(h.extensions) <=> Alps \in Range(g.extensions)
  BY <1>1, <1>2, MemberAlike
<1>4. GoogleVersion \in Range(h.params) <=> GoogleVersion \in Range(g.params)
  BY <1>1, <1>2, MemberAlike
<1>5. /\ (\E v \in Range(h.extensions) : v \in Grease)
           <=> (\E v \in Range(g.extensions) : v \in Grease)
      /\ (\E v \in Range(h.suites) : v \in Grease)
           <=> (\E v \in Range(g.suites) : v \in Grease)
      /\ (\E v \in Range(h.params) : v \in Tuned)
           <=> (\E v \in Range(g.params) : v \in Tuned)
  BY <1>1, SomeAlike
<1>6. ASSUME NEW f \in {h, g}
      PROVE  /\ \A v \in Range(f.extensions) \cup Range(f.suites) :
                  isGrease(v) <=> v \in Grease
             /\ \A p \in Range(f.params) : isGreaseTransportParameter(p) <=> p \in Tuned
  <2>1. f.extensions \in Seq(Nat) /\ f.suites \in Seq(Nat) /\ f.params \in Seq(Nat)
    BY <1>1 DEF Alike
  <2>2. /\ Range(f.extensions) \subseteq Nat /\ Range(f.suites) \subseteq Nat
        /\ Range(f.params) \subseteq Nat
    BY <2>1, EntriesAreRange
  <2> QED
    BY <2>2 DEF Grease, Tuned
<1>7. (\E p \in Range(h.params) : isGreaseTransportParameter(p))
        <=> (\E p \in Range(g.params) : isGreaseTransportParameter(p))
  BY <1>5, <1>6
<1>8. (\E v \in Range(h.extensions) \cup Range(h.suites) : isGrease(v))
        <=> (\E v \in Range(g.extensions) \cup Range(g.suites) : isGrease(v))
  BY <1>5, <1>6
<1> QED
  BY <1>3, <1>4, <1>7, <1>8 DEF chromiumTraits

LEMMA FingerprintsAlike ==
  ASSUME AlikeHellos(other, hello)
  PROVE  SameClientSameFingerprint
<1>1. ja4(other) = ja4(hello)
  BY Ja4Alike
<1>2. chromiumTraits(other) = chromiumTraits(hello)
  BY TraitsAlike
<1>3. transportParameterFingerprint(other.params)
        = transportParameterFingerprint(hello.params)
  BY ParametersAlike DEF AlikeHellos
<1> QED
  BY <1>1, <1>2, <1>3 DEF SameClientSameFingerprint, Stack, QuicSignals

-----------------------------------------------------------------------------
(* The invariant of QuicSpec.                                                *)

\* The frames that were kept are those that came, and there is a ClientHello when
\* those of the last datagram that was read to its end cover it.
FramesInv ==
  /\ frames \in Seq(Frames) /\ seen = Entries(frames)
  /\ (assembled # 0) <=> Covered(heard)

\* The first hello, and one of the same client.
HelloInv ==
  /\ \A numbers \in {hello.extensions, hello.suites, hello.params} :
       numbers \in Seq(Nat) /\ Distinct(numbers)
  /\ AlikeHellos(other, hello)

LEMMA AlikeItself ==
  ASSUME NEW s \in Seq(Nat), Distinct(s), NEW kind
  PROVE  Alike(s, s, kind)
  BY DEF Alike

\* What a client draws again.
LEMMA RedrawnAlike ==
  ASSUME NEW s \in Seq(Nat), Distinct(s), NEW kind \in SUBSET Nat, NEW g \in kind,
         NEW drawn, drawn = {IF v \in kind THEN g ELSE v : v \in Range(s)},
         NEW t \in Orders(drawn)
  PROVE  Alike(t, s, kind)
<1>1. Range(s) = Entries(s) /\ Entries(s) \subseteq Nat
  BY EntriesAreRange
<1>2. drawn \in SUBSET Nat
  BY <1>1
<1>3. IsFiniteSet(drawn)
  <2> DEFINE at == [i \in 1..Len(s) |-> IF s[i] \in kind THEN g ELSE s[i]]
  <2>1. drawn = {at[i] : i \in 1..Len(s)}
    BY <1>1 DEF Entries
  <2>2. IsFiniteSet(1..Len(s))
    <3>1. 1 \in Int /\ Len(s) \in Int
      OBVIOUS
    <3> QED
      BY <3>1, FS_Interval
  <2> HIDE DEF at
  <2>3. IsFiniteSet({at[i] : i \in 1..Len(s)})
    BY <2>2, FiniteImage
  <2> QED
    BY <2>1, <2>3
<1>4. Listed(t, drawn)
  BY <1>2, <1>3, OrdersFacts
<1>5. t \in Seq(Nat) /\ Distinct(t) /\ Entries(t) = drawn
  BY <1>4 DEF Listed
<1>6. Entries(t) \ kind = Entries(s) \ kind
  BY <1>1, <1>5
<1>7. (Entries(t) \cap kind = {}) <=> (Entries(s) \cap kind = {})
  BY <1>1, <1>5
<1> QED
  BY <1>5, <1>6, <1>7 DEF Alike

LEMMA HelloInvInit == QuicInit => FramesInv /\ HelloInv
<1> SUFFICES ASSUME QuicInit PROVE FramesInv /\ HelloInv
  OBVIOUS
<1>1. PICK e \in SUBSET Extensions, s \in SUBSET Suites, p \in SUBSET Params :
        QuicInitWith(e, s, p)
  BY DEF QuicInit
<1>2. FramesInv
  <2>1. frames = <<>> /\ seen = {} /\ heard = {} /\ assembled = 0
    BY <1>1 DEF QuicInitWith
  <2>2. Entries(<<>>) = {}
    BY DEF Entries
  <2>3. ~Covered({})
    <3>1. 0 \in 0..(HelloLength - 1)
      BY QuicAssumption
    <3> QED
      BY <3>1 DEF Covered
  <2> QED
    BY <2>1, <2>2, <2>3 DEF FramesInv
<1>3. ASSUME NEW numbers \in {e, s, p}
      PROVE  Listed(CHOOSE x \in Orders(numbers) : TRUE, numbers)
  <2>1. /\ Extensions \subseteq Nat /\ Suites \subseteq Nat /\ Params \subseteq Nat
        /\ IsFiniteSet(Extensions) /\ IsFiniteSet(Suites) /\ IsFiniteSet(Params)
    BY QuicAssumption
  <2>2. numbers \in SUBSET Nat /\ IsFiniteSet(numbers)
    BY <2>1, FS_Subset
  <2> QED
    BY <2>2, OrdersFacts
<1>4. /\ hello.extensions = CHOOSE x \in Orders(e) : TRUE
      /\ hello.suites = CHOOSE x \in Orders(s) : TRUE
      /\ hello.params = CHOOSE x \in Orders(p) : TRUE
      /\ other = hello
  BY <1>1 DEF QuicInitWith
<1>5. \A numbers \in {hello.extensions, hello.suites, hello.params} :
        numbers \in Seq(Nat) /\ Distinct(numbers)
  BY <1>3, <1>4 DEF Listed
<1>6. AlikeHellos(other, hello)
  BY <1>4, <1>5, AlikeItself DEF AlikeHellos
<1> QED
  BY <1>2, <1>5, <1>6 DEF HelloInv

LEMMA FramesInvStep ==
  ASSUME FramesInv, [AssemblerNext]_assemblerVars
  PROVE  FramesInv'
<1>1. CASE UNCHANGED assemblerVars
  BY <1>1 DEF assemblerVars, FramesInv, Covered
<1>2. ASSUME NEW n \in 1..MaxCoalesced, NEW datagram \in [1..n -> Packets],
             AddDatagram(datagram)
      PROVE  FramesInv'
  <2>1. CASE Decrypts(datagram)
    <3> DEFINE more == CryptoFrames(datagram)
    <3>1. n \in Nat
      BY QuicAssumption
    <3>2. more \in Seq(Frames)
      BY <3>1, CryptoFramesType
    <3>3. /\ frames' = frames \o more /\ seen' = seen \cup Range(more)
          /\ \/ assembled' = reassembleClientHello(frames') /\ heard' = seen'
             \/ UNCHANGED <<assembled, heard>>
      BY <1>2, <2>1 DEF AddDatagram
    <3> HIDE DEF more
    <3>4. frames \o more \in Seq(Frames)
          /\ Entries(frames \o more) = Entries(frames) \cup Entries(more)
      BY <3>2, ConcatFacts DEF FramesInv
    <3>5. Range(more) = Entries(more)
      BY <3>2, EntriesAreRange
    <3>6. frames' \in Seq(Frames) /\ seen' = Entries(frames')
      BY <3>3, <3>4, <3>5 DEF FramesInv
    <3>7. ((assembled # 0) <=> Covered(heard))'
      <4>1. CASE assembled' = reassembleClientHello(frames') /\ heard' = seen'
        <5>1. (reassembleClientHello(frames') # 0) <=> Covered(Entries(frames'))
          BY <3>6, WholeWhenCovered
        <5> QED
          BY <3>6, <4>1, <5>1 DEF Covered
      <4>2. CASE UNCHANGED <<assembled, heard>>
        BY <4>2 DEF FramesInv, Covered
      <4> QED
        BY <3>3, <4>1, <4>2
    <3> QED
      BY <3>6, <3>7 DEF FramesInv
  <2>2. CASE ~Decrypts(datagram)
    BY <1>2, <2>2 DEF AddDatagram, FramesInv, Covered
  <2> QED
    BY <2>1, <2>2
<1> QED
  BY <1>1, <1>2 DEF AssemblerNext

LEMMA HelloInvStep ==
  ASSUME HelloInv, Reconnect
  PROVE  HelloInv'
<1>1. PICK g \in {v \in Extensions : isGrease(v)},
           q \in {id \in Params : isGreaseTransportParameter(id)} :
        \E e \in Orders(Regreased(Range(hello.extensions), g)),
           s \in Orders(Regreased(Range(hello.suites), g)),
           p \in Orders(Reparametered(Range(hello.params), q)) :
          other' = [hello EXCEPT !.extensions = e, !.suites = s, !.params = p]
  BY DEF Reconnect
<1>2. PICK e \in Orders(Regreased(Range(hello.extensions), g)),
           s \in Orders(Regreased(Range(hello.suites), g)),
           p \in Orders(Reparametered(Range(hello.params), q)) :
        other' = [hello EXCEPT !.extensions = e, !.suites = s, !.params = p]
  BY <1>1
<1>3. g \in Grease /\ q \in Tuned /\ Grease \in SUBSET Nat /\ Tuned \in SUBSET Nat
  BY QuicAssumption DEF Grease, Tuned
<1>4. \A numbers \in {hello.extensions, hello.suites, hello.params} :
        numbers \in Seq(Nat) /\ Distinct(numbers)
  BY DEF HelloInv
<1>5. ASSUME NEW list \in Seq(Nat)
      PROVE  /\ Regreased(Range(list), g)
                  = {IF v \in Grease THEN g ELSE v : v \in Range(list)}
             /\ Reparametered(Range(list), q)
                  = {IF v \in Tuned THEN q ELSE v : v \in Range(list)}
  <2>1. Range(list) \subseteq Nat
    BY EntriesAreRange
  <2>2. \A v \in Range(list) : /\ isGrease(v) <=> v \in Grease
                               /\ isGreaseTransportParameter(v) <=> v \in Tuned
    BY <2>1 DEF Grease, Tuned
  <2> QED
    BY <2>2 DEF Regreased, Reparametered
<1>6. /\ Alike(e, hello.extensions, Grease) /\ Alike(s, hello.suites, Grease)
      /\ Alike(p, hello.params, Tuned)
  BY <1>3, <1>4, <1>5, RedrawnAlike
<1>7. hello' = hello
  BY DEF Reconnect
<1>8. /\ other'.sigs = hello.sigs /\ other'.extensions = e
      /\ other'.suites = s /\ other'.params = p
  BY <1>2
<1> QED
  BY <1>4, <1>6, <1>7, <1>8 DEF HelloInv, AlikeHellos

LEMMA QuicInvHolds == QuicSpec => [](FramesInv /\ HelloInv)
<1>1. QuicInit => FramesInv /\ HelloInv
  BY HelloInvInit
<1>2. ASSUME FramesInv, HelloInv, [QuicNext]_quicVars PROVE (FramesInv /\ HelloInv)'
  <2>1. CASE AssemblerNext
    <3>1. FramesInv'
      BY <1>2, <2>1, FramesInvStep
    <3>2. UNCHANGED <<hello, other>>
      BY <2>1 DEF AssemblerNext, AddDatagram
    <3> QED
      BY <1>2, <3>1, <3>2 DEF HelloInv, AlikeHellos
  <2>2. CASE Reconnect
    <3>1. HelloInv'
      BY <1>2, <2>2, HelloInvStep
    <3>2. FramesInv'
      BY <1>2, <2>2, FramesInvStep DEF Reconnect
    <3> QED
      BY <3>1, <3>2
  <2>3. CASE UNCHANGED quicVars
    <3>1. FramesInv'
      BY <1>2, <2>3, FramesInvStep DEF quicVars
    <3> QED
      BY <1>2, <2>3, <3>1 DEF quicVars, HelloInv, AlikeHellos
  <2> QED
    BY <1>2, <2>1, <2>2, <2>3 DEF QuicNext
<1> QED
  BY <1>1, <1>2, PTL DEF QuicSpec

\* "Chrome splits and reorders them on purpose" (quic.ts:187): however long the
\* ClientHello is and whatever datagrams come, in whatever order, with frames
\* split, overlapping or repeated, it is returned exactly when the frames cover it;
\* those before a garbled packet, from the next datagram without one.
\* And whatever a client greases, and in whatever order it lists its extensions,
\* ciphers and parameters, it has the fingerprints, the stack and the signals it had.
THEOREM HandshakesReadAlways == QuicSpec => []HandshakesRead
<1>1. FramesInv /\ HelloInv => HandshakesRead
  <2> SUFFICES ASSUME FramesInv, HelloInv PROVE HandshakesRead
    OBVIOUS
  <2>2. FoundWhenWhole
    BY DEF FoundWhenWhole, Covered, FramesInv
  <2>3. SameClientSameFingerprint
    BY FingerprintsAlike DEF HelloInv
  <2> QED
    BY <2>2, <2>3 DEF HandshakesRead
<1> QED
  BY <1>1, QuicInvHolds, PTL
=============================================================================
