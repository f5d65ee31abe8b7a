-------------------------- MODULE ServerTablesProofs --------------------------
(***************************************************************************)
(* Proofs about the tables in which a server counts calls (MCServer): the  *)
(* rate limits in a shared store, the edge worker's own limit, the Python  *)
(* server's store and its sessions in memory.                              *)
(***************************************************************************)
EXTENDS MCServer, SequenceTheorems, FiniteSetTheorems, WellFoundedInduction, TLAPS

---------------------------------------------------------------------------
(* Least, largest, and what is left of a sequence                          *)

LEMMA LeastOf ==
  ASSUME NEW S \in SUBSET Nat, S # {}
  PROVE  \E x \in S : \A y \in S : x <= y
  <1>1. PICK x \in S : \A y \in S : <<y, x>> \notin OpToRel(<, Nat)
    BY NatLessThanWellFounded, WFMin
  <1>2. \A y \in S : ~(y < x)
    BY <1>1 DEF OpToRel
  <1> QED
    BY <1>2

LEMMA LargestOf ==
  ASSUME NEW n \in Nat, NEW S \in SUBSET (0..n), S # {}
  PROVE  Max(S) \in S /\ \A y \in S : y <= Max(S)
  <1> DEFINE G == {n - x : x \in S}
  <1>1. G \in SUBSET Nat /\ G # {}
    <2>1. \A x \in S : n - x \in Nat
      OBVIOUS
    <2> QED
      BY <2>1
  <1>2. PICK g \in G : \A h \in G : g <= h
    <2> HIDE DEF G
    <2> QED
      BY <1>1, LeastOf
  <1>3. PICK x \in S : g = n - x
    BY <1>2
  <1>4. \A y \in S : x >= y
    <2> SUFFICES ASSUME NEW y \in S PROVE x >= y
      OBVIOUS
    <2>1. g <= n - y
      BY <1>2
    <2> QED
      BY <1>3, <2>1
  <1>5. Max(S) \in S /\ \A y \in S : Max(S) >= y
    BY <1>4 DEF Max
  <1> QED
    BY <1>5

LEMMA MaxOfTwo ==
  ASSUME NEW m \in Int, NEW n \in Int
  PROVE  Max({m, n}) = IF m <= n THEN n ELSE m
  <1>1. \E x \in {m, n} : \A y \in {m, n} : x >= y
    OBVIOUS
  <1>2. Max({m, n}) \in {m, n} /\ \A y \in {m, n} : Max({m, n}) >= y
    BY <1>1 DEF Max
  <1> QED
    BY <1>2

LEMMA MinOfTwo ==
  ASSUME NEW m \in Int, NEW n \in Int
  PROVE  Min({m, n}) = IF m <= n THEN m ELSE n
  <1>1. \E x \in {m, n} : \A y \in {m, n} : x =< y
    OBVIOUS
  <1>2. Min({m, n}) \in {m, n} /\ \A y \in {m, n} : Min({m, n}) =< y
    BY <1>1 DEF Min
  <1> QED
    BY <1>2

\* The entries of s are those of l at the positions pos, in the same order.
Traces(pos, s, l) ==
  /\ pos \in [1..Len(s) -> 1..Len(l)]
  /\ \A i, j \in 1..Len(s) : i < j => pos[i] < pos[j]
  /\ \A i \in 1..Len(s) : s[i] = l[pos[i]]

\* pop(): the entry at p is taken out.
Without1(l, p) == SubSeq(l, 1, p - 1) \o SubSeq(l, p + 1, Len(l))

LEMMA Without1Facts ==
  ASSUME NEW T, NEW l \in Seq(T), NEW p \in 1..Len(l)
  PROVE  /\ Without1(l, p) \in Seq(T) /\ Len(Without1(l, p)) = Len(l) - 1
         /\ \A i \in 1..Len(l) - 1 :
              Without1(l, p)[i] = l[IF i < p THEN i ELSE i + 1]
  <1> DEFINE a == SubSeq(l, 1, p - 1)
             b == SubSeq(l, p + 1, Len(l))
             n == Len(l)
  <1>1. n \in Nat /\ p \in 1..n /\ \A i \in 1..n : l[i] \in T
    OBVIOUS
  <1>2. /\ a \in Seq(T) /\ Len(a) = p - 1
        /\ \A i \in 1..p - 1 : a[i] = l[i]
    BY <1>1
  <1>3. /\ b \in Seq(T) /\ Len(b) = n - p
        /\ \A i \in 1..n - p : b[i] = l[p + i]
    BY <1>1
  <1> HIDE DEF a, b
  <1>4. /\ a \o b \in Seq(T) /\ Len(a \o b) = n - 1
        /\ \A i \in 1..n - 1 : (a \o b)[i] = IF i < p THEN a[i] ELSE b[i - (p - 1)]
    <2>1. /\ a \o b \in Seq(T) /\ Len(a \o b) = Len(a) + Len(b)
          /\ \A i \in 1..Len(a) + Len(b) :
               (a \o b)[i] = IF i <= Len(a) THEN a[i] ELSE b[i - Len(a)]
      BY <1>2, <1>3, ConcatProperties
    <2>2. Len(a) + Len(b) = n - 1 /\ \A i \in 1..n - 1 : i <= Len(a) <=> i < p
      BY <1>1, <1>2, <1>3
    <2> QED
      BY <1>2, <2>1, <2>2
  <1>5. ASSUME NEW i \in 1..n - 1
        PROVE  (a \o b)[i] = l[IF i < p THEN i ELSE i + 1]
    <2>1. CASE i < p
      BY <1>1, <1>2, <1>4, <2>1
    <2>2. CASE ~(i < p)
      <3>1. i - (p - 1) \in 1..n - p /\ p + (i - (p - 1)) = i + 1
        BY <1>1, <2>2
      <3> QED
        BY <1>3, <1>4, <2>2, <3>1
    <2> QED
      BY <2>1, <2>2
  <1> QED
    BY <1>4, <1>5 DEF Without1, a, b

LEMMA Without1Traces ==
  ASSUME NEW T, NEW l \in Seq(T), NEW p \in 1..Len(l)
  PROVE  \E pos : /\ Traces(pos, Without1(l, p), l)
                  /\ \A j \in 1..Len(l) :
                       j # p <=> \E i \in 1..Len(l) - 1 : pos[i] = j
  <1> DEFINE n == Len(l)
             pos == [i \in 1..n - 1 |-> IF i < p THEN i ELSE i + 1]
             s == Without1(l, p)
  <1>1. n \in Nat /\ p \in 1..n
    OBVIOUS
  <1>2. Len(s) = n - 1 /\ \A i \in 1..n - 1 : s[i] = l[IF i < p THEN i ELSE i + 1]
    BY Without1Facts
  <1> HIDE DEF s, n
  <1>3. /\ pos \in [1..n - 1 -> 1..n]
        /\ \A i, j \in 1..n - 1 : i < j => pos[i] < pos[j]
        /\ \A i \in 1..n - 1 : s[i] = l[pos[i]]
    BY <1>1, <1>2
  <1>4. ASSUME NEW j \in 1..n
        PROVE  j # p <=> \E i \in 1..n - 1 : pos[i] = j
    <2>1. CASE j < p
      <3>1. j \in 1..n - 1 /\ pos[j] = j
        BY <1>1, <2>1
      <3> QED
        BY <2>1, <3>1
    <2>2. CASE j > p
      <3>1. j - 1 \in 1..n - 1 /\ pos[j - 1] = j
        BY <1>1, <2>2
      <3> QED
        BY <2>2, <3>1
    <2>3. CASE j = p
      BY <1>1, <2>3
    <2> QED
      BY <1>1, <2>1, <2>2, <2>3
  <1>5. Traces(pos, s, l)
    BY <1>2, <1>3 DEF Traces, n
  <1> HIDE DEF pos
  <1> QED
    BY <1>4, <1>5 DEF s, n

\* The first d entries leave.
LEMMA RestFacts ==
  ASSUME NEW T, NEW l \in Seq(T), NEW d \in 0..Len(l)
  PROVE  LET s == SubSeq(l, d + 1, Len(l))
         IN  /\ s \in Seq(T) /\ Len(s) = Len(l) - d
             /\ \A i \in 1..Len(l) - d : s[i] = l[i + d]
  <1> DEFINE s == SubSeq(l, d + 1, Len(l))
             n == Len(l)
  <1>1. n \in Nat /\ \A i \in d + 1..n : l[i] \in T
    OBVIOUS
  <1>2. /\ s \in Seq(T)
        /\ Len(s) = IF d + 1 <= n THEN n - (d + 1) + 1 ELSE 0
        /\ \A i \in 1..n - (d + 1) + 1 : s[i] = l[(d + 1) + i - 1]
    BY <1>1, SubSeqProperties
  <1>3. Len(s) = n - d
    BY <1>1, <1>2
  <1>4. ASSUME NEW i \in 1..n - d PROVE s[i] = l[i + d]
    <2>1. i \in 1..n - (d + 1) + 1 /\ (d + 1) + i - 1 = i + d
      BY <1>1
    <2> QED
      BY <1>2, <2>1
  <1> QED
    BY <1>2, <1>3, <1>4

---------------------------------------------------------------------------
(* Tables with the least recent entry first.  K is what an entry is about; *)
(* after are those that came after it.                                     *)
Distinct(l, K) == \A i, j \in 1..Len(l) : K[l[i]] = K[l[j]] => i = j
InOrder(l, K, after) ==
  \A i, j \in 1..Len(l) : i < j => K[l[j]] \in after[K[l[i]]]

RemovedAs(m, l, p, T, K, after) ==
  /\ m \in Seq(T) /\ Len(m) = Len(l) - 1
  /\ Distinct(m, K) /\ InOrder(m, K, after)
  /\ \A i \in 1..Len(m) : K[m[i]] # K[l[p]] /\ \E j \in 1..Len(l) : m[i] = l[j]
  /\ \A j \in 1..Len(l) : j # p => \E i \in 1..Len(m) : m[i] = l[j]

LEMMA RemoveFacts ==
  ASSUME NEW T, NEW S, NEW K \in [T -> S], NEW after,
         NEW l \in Seq(T), NEW p \in 1..Len(l),
         Distinct(l, K), InOrder(l, K, after)
  PROVE  RemovedAs(Without1(l, p), l, p, T, K, after)
  <1> DEFINE m == Without1(l, p)
             n == Len(l)
             to(i) == IF i < p THEN i ELSE i + 1
  <1>1. n \in Nat /\ p \in 1..n
    OBVIOUS
  <1>2. m \in Seq(T) /\ Len(m) = n - 1 /\ \A i \in 1..n - 1 : m[i] = l[to(i)]
    BY Without1Facts
  <1>3. /\ \A i \in 1..n - 1 : to(i) \in 1..n /\ to(i) # p
        /\ \A i, j \in 1..n - 1 : i < j => to(i) < to(j)
        /\ \A i, j \in 1..n - 1 : to(i) = to(j) => i = j
    BY <1>1
  <1>4. ASSUME NEW j \in 1..n, j # p
        PROVE  \E i \in 1..n - 1 : to(i) = j
    <2>1. CASE j < p
      <3>1. j \in 1..n - 1 /\ to(j) = j
        BY <1>1, <2>1
      <3> QED
        BY <3>1
    <2>2. CASE j > p
      <3>1. j - 1 \in 1..n - 1 /\ to(j - 1) = j
        BY <1>1, <2>2
      <3> QED
        BY <3>1
    <2> QED
      BY <1>1, <1>4, <2>1, <2>2
  <1>5. /\ \A i, j \in 1..n : K[l[i]] = K[l[j]] => i = j
        /\ \A i, j \in 1..n : i < j => K[l[j]] \in after[K[l[i]]]
    BY DEF Distinct, InOrder
  <1> HIDE DEF m, to
  <1>6. Distinct(m, K) /\ InOrder(m, K, after)
    <2>1. \A i, j \in 1..n - 1 : K[m[i]] = K[m[j]] => i = j
      BY <1>2, <1>3, <1>5
    <2>2. \A i, j \in 1..n - 1 : i < j => K[m[j]] \in after[K[m[i]]]
      BY <1>2, <1>3, <1>5
    <2> QED
      BY <1>2, <2>1, <2>2 DEF Distinct, InOrder
  <1>7. \A i \in 1..n - 1 : K[m[i]] # K[l[p]] /\ \E j \in 1..n : m[i] = l[j]
    BY <1>1, <1>2, <1>3, <1>5
  <1>8. \A j \in 1..n : j # p => \E i \in 1..n - 1 : m[i] = l[j]
    BY <1>2, <1>4
  <1> QED
    BY <1>2, <1>6, <1>7, <1>8 DEF RemovedAs, m

\* What entries of one cap or another leave: expired ones, and the oldest
\* beyond the cap.  X are the places of expired ones.
LEMMA RoomFacts ==
  ASSUME NEW n \in Nat, NEW most \in Nat, NEW cap \in Nat \ {0}, NEW X
  PROVE  LET drops == Max({m \in 0..Min({most, n}) : \A i \in 1..m : i \in X})
             d == drops + Max({0, n - drops - cap + 1})
         IN  /\ drops \in 0..n
             /\ d \in 0..n /\ n - d <= cap - 1
             /\ \A i \in 1..d : i \in X \/ n - i >= cap - 1
  <1> DEFINE b == Min({most, n})
             D == {m \in 0..b : \A i \in 1..m : i \in X}
             drops == Max(D)
             excess == Max({0, n - drops - cap + 1})
             d == drops + excess
  <1>1. b \in 0..n
    BY MinOfTwo
  <1> HIDE DEF b
  <1>2. 0 \in D /\ D \in SUBSET (0..b)
    BY <1>1
  <1>3. drops \in D
    <2> HIDE DEF D
    <2> QED
      BY <1>1, <1>2, LargestOf
  <1>4. drops \in 0..n /\ \A i \in 1..drops : i \in X
    BY <1>1, <1>3
  <1> HIDE DEF D, drops
  <1>5. excess = IF 0 <= n - drops - cap + 1 THEN n - drops - cap + 1 ELSE 0
    <2>1. 0 \in Int /\ n - drops - cap + 1 \in Int
      BY <1>4
    <2> QED
      BY <2>1, MaxOfTwo
  <1> HIDE DEF excess
  <1>6. d \in 0..n /\ n - d <= cap - 1
    BY <1>4, <1>5
  <1>7. \A i \in 1..d : i \in 1..drops \/ n - i >= cap - 1
    BY <1>4, <1>5
  <1> QED
    BY <1>4, <1>6, <1>7 DEF D, drops, excess, b

\* Distinct things at the end of a table.
LEMMA SpanCount ==
  ASSUME NEW T, NEW S, NEW K \in [T -> S], NEW l \in Seq(T), Distinct(l, K),
         NEW e \in T, NEW a \in 0..Len(l), NEW F, IsFiniteSet(F), K[e] \in F,
         \A i \in a + 1..Len(l) : K[l[i]] \in F,
         \A i \in a + 1..Len(l) : K[l[i]] # K[e]
  PROVE  Cardinality(F) >= Len(l) - a + 1
  <1> DEFINE n == Len(l)
             k == K[e]
             f == [i \in a..n |-> IF i = a THEN k ELSE K[l[i]]]
  <1>1. n \in Nat /\ a \in 0..n /\ \A i, j \in 1..n : K[l[i]] = K[l[j]] => i = j
    BY DEF Distinct
  <1>2. f \in [a..n -> F] /\ f[a] = k /\ \A i \in a + 1..n : f[i] = K[l[i]]
    <2>1. \A i \in a..n : i = a \/ i \in a + 1..n
      BY <1>1
    <2>2. \A i \in a + 1..n : i \in a..n /\ i # a
      BY <1>1
    <2> QED
      BY <1>1, <2>1, <2>2
  <1> HIDE DEF f
  <1>3. \A i, j \in a..n : f[i] = f[j] => i = j
    <2> SUFFICES ASSUME NEW i \in a..n, NEW j \in a..n, f[i] = f[j] PROVE i = j
      OBVIOUS
    <2>1. i = a \/ (i \in a + 1..n /\ i \in 1..n)
      BY <1>1
    <2>2. j = a \/ (j \in a + 1..n /\ j \in 1..n)
      BY <1>1
    <2> QED
      BY <1>1, <1>2, <2>1, <2>2
  <1>4. f \in Injection(a..n, F)
    BY <1>2, <1>3 DEF Injection, IsInjective
  <1>5. Cardinality(a..n) <= Cardinality(F)
    BY <1>4, FS_Injection
  <1>6. Cardinality(a..n) = n - a + 1
    <2>1. a \in Int /\ n \in Int /\ ~(a > n)
      BY <1>1
    <2> QED
      BY <2>1, FS_Interval
  <1>7. Cardinality(F) \in Nat
    BY FS_CardinalityType
  <1> QED
    BY <1>1, <1>5, <1>6, <1>7

\* e comes after every entry; grown are those that came after an entry, e
\* included.
ComesLast(m, K, e, after, grown) ==
  \A i \in 1..Len(m) : /\ K[m[i]] # K[e]
                       /\ after[K[m[i]]] \cup {K[e]} \subseteq grown[K[m[i]]]

\* The first d entries leave and e comes last.
Added(m, d, e) == Append(SubSeq(m, d + 1, Len(m)), e)

LEMMA AddedEntries ==
  ASSUME NEW T, NEW m \in Seq(T), NEW e \in T, NEW d \in 0..Len(m)
  PROVE  /\ Added(m, d, e) \in Seq(T) /\ Len(Added(m, d, e)) = Len(m) - d + 1
         /\ Added(m, d, e)[Len(m) - d + 1] = e
         /\ \A i \in 1..Len(m) - d : Added(m, d, e)[i] = m[i + d]
  <1> DEFINE s == SubSeq(m, d + 1, Len(m))
             out == Append(s, e)
             n == Len(m) - d
  <1>1. s \in Seq(T) /\ Len(s) = n /\ \A i \in 1..n : s[i] = m[i + d]
    BY RestFacts
  <1>2. n \in Nat
    OBVIOUS
  <1> HIDE DEF s, n
  <1>3. /\ out \in Seq(T) /\ Len(out) = Len(s) + 1 /\ out[Len(s) + 1] = e
        /\ \A i \in 1..Len(s) : out[i] = s[i]
    BY <1>1, AppendProperties
  <1>4. /\ out \in Seq(T) /\ Len(out) = n + 1 /\ out[n + 1] = e
        /\ \A i \in 1..n : out[i] = m[i + d]
    BY <1>1, <1>3
  <1> QED
    BY <1>4 DEF Added, out, s, n

LEMMA AppendFacts ==
  ASSUME NEW T, NEW S, NEW K \in [T -> S], NEW after, NEW grown,
         NEW m \in Seq(T), Distinct(m, K), InOrder(m, K, after),
         NEW e \in T, NEW d \in 0..Len(m), ComesLast(m, K, e, after, grown)
  PROVE  Distinct(Added(m, d, e), K) /\ InOrder(Added(m, d, e), K, grown)
  <1> DEFINE out == Added(m, d, e)
             n == Len(m) - d
  <1>2. /\ Len(m) \in Nat /\ d \in 0..Len(m) /\ n \in Nat
        /\ \A i \in 1..n : i + d \in 1..Len(m)
        /\ \A i \in 1..n + 1 : i = n + 1 \/ i \in 1..n
    OBVIOUS
  <1>3. /\ out \in Seq(T) /\ Len(out) = n + 1 /\ out[n + 1] = e
        /\ \A i \in 1..n : out[i] = m[i + d]
    <2>1. /\ Added(m, d, e) \in Seq(T) /\ Len(Added(m, d, e)) = Len(m) - d + 1
          /\ Added(m, d, e)[Len(m) - d + 1] = e
          /\ \A i \in 1..Len(m) - d : Added(m, d, e)[i] = m[i + d]
      BY AddedEntries
    <2> QED
      BY <2>1
  <1> HIDE DEF out, n
  <1>4. /\ \A i, j \in 1..Len(m) : K[m[i]] = K[m[j]] => i = j
        /\ \A i, j \in 1..Len(m) : i < j => K[m[j]] \in after[K[m[i]]]
        /\ \A i \in 1..Len(m) :
             K[m[i]] # K[e] /\ after[K[m[i]]] \cup {K[e]} \subseteq grown[K[m[i]]]
    BY DEF Distinct, InOrder, ComesLast
  <1>5. \A i \in 1..n : K[out[i]] # K[e] /\ K[out[i]] = K[m[i + d]]
    BY <1>2, <1>3, <1>4
  <1>6. \A i, j \in 1..n + 1 : K[out[i]] = K[out[j]] => i = j
    <2> SUFFICES ASSUME NEW i \in 1..n + 1, NEW j \in 1..n + 1, K[out[i]] = K[out[j]]
                 PROVE  i = j
      OBVIOUS
    <2>1. CASE i = n + 1
      BY <1>2, <1>3, <1>5, <2>1
    <2>2. CASE j = n + 1
      BY <1>2, <1>3, <1>5, <2>2
    <2>3. CASE i \in 1..n /\ j \in 1..n
      <3>1. i + d \in 1..Len(m) /\ j + d \in 1..Len(m) /\ K[m[i + d]] = K[m[j + d]]
        BY <1>2, <1>5, <2>3
      <3>2. i + d = j + d
        BY <1>4, <3>1
      <3> QED
        BY <1>2, <2>3, <3>2
    <2> QED
      BY <1>2, <2>1, <2>2, <2>3
  <1>7. \A i, j \in 1..n + 1 : i < j => K[out[j]] \in grown[K[out[i]]]
    <2> SUFFICES ASSUME NEW i \in 1..n + 1, NEW j \in 1..n + 1, i < j
                 PROVE  K[out[j]] \in grown[K[out[i]]]
      OBVIOUS
    <2>1. i \in 1..n /\ i + d \in 1..Len(m) /\ out[i] = m[i + d]
      BY <1>2, <1>3
    <2>2. CASE j = n + 1
      BY <1>3, <1>4, <2>1, <2>2
    <2>3. CASE j \in 1..n
      <3>1. j + d \in 1..Len(m) /\ i + d < j + d /\ out[j] = m[j + d]
        BY <1>2, <1>3, <2>3
      <3> QED
        BY <1>4, <2>1, <3>1
    <2> QED
      BY <1>2, <2>2, <2>3
  <1> QED
    BY <1>3, <1>6, <1>7 DEF Distinct, InOrder, out, n

\* One of the oldest beyond the cap has as many others after it.
LEMMA CrowdedOut ==
  ASSUME NEW T, NEW S, NEW K \in [T -> S], NEW after, NEW grown,
         NEW m \in Seq(T), Distinct(m, K), InOrder(m, K, after),
         NEW e \in T, NEW cap \in Nat, ComesLast(m, K, e, after, grown),
         NEW i \in 1..Len(m), Len(m) - i >= cap - 1, IsFiniteSet(grown[K[m[i]]])
  PROVE  Cardinality(grown[K[m[i]]]) >= cap
  <1> DEFINE F == grown[K[m[i]]]
  <1>0. \A j \in 1..Len(m) :
          K[m[j]] # K[e] /\ after[K[m[j]]] \cup {K[e]} \subseteq grown[K[m[j]]]
    BY DEF ComesLast
  <1>1. K[e] \in F /\ i \in 0..Len(m) /\ Len(m) \in Nat
    BY <1>0
  <1>2. ASSUME NEW j \in i + 1..Len(m)
        PROVE  K[m[j]] \in F /\ K[m[j]] # K[e]
    <2>1. j \in 1..Len(m) /\ i < j
      OBVIOUS
    <2> QED
      BY <1>0, <2>1 DEF InOrder
  <1>3. IsFiniteSet(F)
    BY DEF F
  <1>4. Cardinality(F) >= Len(m) - i + 1
    <2>1. /\ K[e] \in F
          /\ \A j \in i + 1..Len(m) : K[m[j]] \in F
          /\ \A j \in i + 1..Len(m) : K[m[j]] # K[e]
      BY <1>1, <1>2
    <2> HIDE DEF F
    <2> QED
      BY <1>1, <1>3, <2>1, SpanCount
  <1>5. Cardinality(F) \in Nat
    BY <1>3, FS_CardinalityType
  <1> QED
    BY <1>1, <1>4, <1>5 DEF F

---------------------------------------------------------------------------
(* filter(): what is left of a sequence of times                           *)

IsStepwise(f, n, S, first, g) ==
  /\ f \in [0..n -> S] /\ f[0] = first
  /\ \A i \in 1..n : f[i] = g[<<f[i - 1], i>>]

\* A function can be defined step by step.
LEMMA StepwiseExists ==
  ASSUME NEW n \in Nat, NEW S, NEW first \in S, NEW g \in [S \X (1..n) -> S]
  PROVE  \E f : IsStepwise(f, n, S, first, g)
  <1> DEFINE Good(m) == \E f : IsStepwise(f, m, S, first, g)
             Bad == {m \in 0..n : ~Good(m)}
  <1>0. Good(0)
    <2> DEFINE f == [i \in 0..0 |-> first]
    <2>1. IsStepwise(f, 0, S, first, g)
      <3>1. f \in [0..0 -> S] /\ f[0] = first
        OBVIOUS
      <3>2. \A i \in 1..0 : FALSE
        OBVIOUS
      <3> HIDE DEF f
      <3> QED
        BY <3>1, <3>2 DEF IsStepwise
    <2> HIDE DEF f
    <2> QED
      BY <2>1
  <1> HIDE DEF Good
  <1> SUFFICES ASSUME Bad # {} PROVE FALSE
    <2>1. n \in 0..n
      OBVIOUS
    <2> QED
      BY <2>1 DEF Good
  <1>1. PICK m \in Bad : \A k \in Bad : m <= k
    <2>1. Bad \in SUBSET Nat
      OBVIOUS
    <2> HIDE DEF Bad
    <2> QED
      BY <2>1, LeastOf
  <1>2. m \in 1..n /\ Good(m - 1)
    BY <1>0, <1>1
  <1>3. PICK f : IsStepwise(f, m - 1, S, first, g)
    BY <1>2 DEF Good
  <1> DEFINE new == g[<<f[m - 1], m>>]
             h == [i \in 0..m |-> IF i = m THEN new ELSE f[i]]
  <1>4. f \in [0..(m - 1) -> S] /\ f[0] = first
        /\ \A i \in 1..(m - 1) : f[i] = g[<<f[i - 1], i>>]
    BY <1>3 DEF IsStepwise
  <1>5. f[m - 1] \in S
    BY <1>2, <1>4
  <1>6. new \in S
    BY <1>2, <1>5
  <1>7. h[m] = g[<<f[m - 1], m>>] /\ \A i \in 0..(m - 1) : h[i] = f[i]
    BY <1>2
  <1>8. h \in [0..m -> S]
    <2> HIDE DEF new
    <2>1. \A i \in 0..m : i # m => f[i] \in S
      BY <1>2, <1>4
    <2> QED
      BY <1>6, <2>1
  <1> HIDE DEF h, new
  <1>9. h[0] = first
    BY <1>2, <1>4, <1>7
  <1>10. \A i \in 1..m : h[i] = g[<<h[i - 1], i>>]
    <2> SUFFICES ASSUME NEW i \in 1..m PROVE h[i] = g[<<h[i - 1], i>>]
      OBVIOUS
    <2>1. h[i - 1] = f[i - 1]
      <3>1. i - 1 \in 0..(m - 1)
        BY <1>2
      <3> QED
        BY <3>1, <1>7
    <2>2. CASE i = m
      BY <1>7, <2>1, <2>2
    <2>3. CASE i # m
      <3>1. i \in 1..(m - 1) /\ i \in 0..(m - 1)
        BY <1>2, <2>3
      <3> QED
        BY <3>1, <1>4, <1>7, <2>1
    <2> QED
      BY <2>2, <2>3
  <1>11. Good(m)
    BY <1>8, <1>9, <1>10 DEF IsStepwise, Good
  <1> QED
    BY <1>1, <1>11

\* As in EdgeWorker and PythonStore.
Above(hits, moment) ==
  LET kept[i \in 0..Len(hits)] ==
        IF i = 0 THEN <<>>
        ELSE IF hits[i] > moment THEN Append(kept[i - 1], hits[i])
        ELSE kept[i - 1]
  IN  kept[Len(hits)]

IsAbove(f, hits, moment) ==
  f = [i \in 0..Len(hits) |->
         IF i = 0 THEN <<>>
         ELSE IF hits[i] > moment THEN Append(f[i - 1], hits[i])
         ELSE f[i - 1]]

LEMMA AboveExists ==
  ASSUME NEW hits \in Seq(Nat), NEW moment
  PROVE  \E f : IsAbove(f, hits, moment)
  <1> DEFINE n == Len(hits)
             step(s, i) == IF hits[i] > moment THEN Append(s, hits[i]) ELSE s
             g == [x \in Seq(Nat) \X (1..n) |-> step(x[1], x[2])]
  <1>1. n \in Nat /\ <<>> \in Seq(Nat)
    OBVIOUS
  <1>2. \A s \in Seq(Nat), i \in 1..n : step(s, i) \in Seq(Nat)
    <2> SUFFICES ASSUME NEW s \in Seq(Nat), NEW i \in 1..n PROVE step(s, i) \in Seq(Nat)
      OBVIOUS
    <2>1. hits[i] \in Nat
      OBVIOUS
    <2>2. Append(s, hits[i]) \in Seq(Nat)
      BY <2>1
    <2> QED
      BY <2>2
  <1> HIDE DEF n, step
  <1>3. /\ g \in [Seq(Nat) \X (1..n) -> Seq(Nat)]
        /\ \A s \in Seq(Nat), i \in 1..n : g[<<s, i>>] = step(s, i)
    BY <1>2
  <1> HIDE DEF g
  <1>4. PICK f : IsStepwise(f, n, Seq(Nat), <<>>, g)
    BY <1>1, <1>3, StepwiseExists
  <1>5. /\ f = [i \in 0..n |-> f[i]] /\ f[0] = <<>>
        /\ \A i \in 0..n : f[i] \in Seq(Nat)
        /\ \A i \in 1..n : f[i] = g[<<f[i - 1], i>>]
    BY <1>4 DEF IsStepwise
  <1>6. \A i \in 1..n : f[i] = step(f[i - 1], i)
    <2> SUFFICES ASSUME NEW i \in 1..n PROVE f[i] = step(f[i - 1], i)
      OBVIOUS
    <2>1. i - 1 \in 0..n
      BY <1>1
    <2> QED
      BY <1>3, <1>5, <2>1
  <1> DEFINE h == [i \in 0..n |-> IF i = 0 THEN <<>> ELSE step(f[i - 1], i)]
  <1>7. \A i \in 0..n : f[i] = h[i]
    <2> SUFFICES ASSUME NEW i \in 0..n PROVE f[i] = h[i]
      OBVIOUS
    <2>1. CASE i = 0
      BY <1>5, <2>1
    <2>2. CASE i # 0
      <3>1. i \in 1..n
        BY <1>1, <2>2
      <3> QED
        BY <1>6, <2>2, <3>1
    <2> QED
      BY <2>1, <2>2
  <1>8. f = h
    <2> HIDE DEF h
    <2>1. h = [i \in 0..n |-> h[i]]
      BY DEF h
    <2> QED
      BY <1>5, <1>7, <2>1
  <1>9. IsAbove(f, hits, moment)
    BY <1>8, Zenon DEF IsAbove, n, step, h
  <1> QED
    BY <1>9

\* kept are, in their order, the first n hits that are after the moment.
Filters(pos, kept, hits, n, moment) ==
  /\ pos \in [1..Len(kept) -> 1..n]
  /\ \A i, j \in 1..Len(kept) : i < j => pos[i] < pos[j]
  /\ \A i \in 1..Len(kept) : kept[i] = hits[pos[i]] /\ hits[pos[i]] > moment
  /\ \A j \in 1..n : hits[j] > moment => \E i \in 1..Len(kept) : pos[i] = j

Filtered(kept, hits, n, moment) == \E pos : Filters(pos, kept, hits, n, moment)

LEMMA FilterOneMore ==
  ASSUME NEW hits \in Seq(Nat), NEW moment \in Int, NEW kept \in Seq(Nat),
         NEW i \in 1..Len(hits), Filtered(kept, hits, i - 1, moment),
         hits[i] > moment
  PROVE  Filtered(Append(kept, hits[i]), hits, i, moment)
  <1> DEFINE n == Len(kept)
             more == Append(kept, hits[i])
  <1>1. PICK pos : Filters(pos, kept, hits, i - 1, moment)
    BY DEF Filtered
  <1> DEFINE to == [k \in 1..(n + 1) |-> IF k = n + 1 THEN i ELSE pos[k]]
  <1>2. /\ n \in Nat /\ i \in Nat /\ i \in 1..i /\ n + 1 \in 1..(n + 1)
        /\ \A k \in 1..(n + 1) : k = n + 1 \/ k \in 1..n
        /\ \A k \in 1..n : k # n + 1 /\ k \in 1..(n + 1)
        /\ \A j \in 1..i : j = i \/ j \in 1..(i - 1)
        /\ \A j \in 1..(i - 1) : j # i /\ j \in 1..i
    OBVIOUS
  <1>3. /\ Len(more) = n + 1 /\ more[n + 1] = hits[i]
        /\ \A k \in 1..n : more[k] = kept[k]
    OBVIOUS
  <1>4. /\ \A k \in 1..n : pos[k] \in 1..(i - 1)
        /\ \A k, j \in 1..n : k < j => pos[k] < pos[j]
        /\ \A k \in 1..n : kept[k] = hits[pos[k]] /\ hits[pos[k]] > moment
        /\ \A j \in 1..(i - 1) : hits[j] > moment => \E k \in 1..n : pos[k] = j
    BY <1>1 DEF Filters
  <1> HIDE DEF n, more
  <1>5. /\ to \in [1..(n + 1) -> 1..i] /\ to[n + 1] = i
        /\ \A k \in 1..n : to[k] = pos[k]
    BY <1>2, <1>4
  <1> HIDE DEF to
  <1>6. \A k, j \in 1..(n + 1) : k < j => to[k] < to[j]
    <2> SUFFICES ASSUME NEW k \in 1..(n + 1), NEW j \in 1..(n + 1), k < j
                 PROVE  to[k] < to[j]
      OBVIOUS
    <2>1. k \in 1..n /\ to[k] = pos[k] /\ pos[k] \in 1..(i - 1)
      BY SMTT(30), <1>2, <1>4, <1>5
    <2>2. CASE j = n + 1
      BY <1>2, <1>5, <2>1, <2>2
    <2>3. CASE j \in 1..n
      BY <1>4, <1>5, <2>1, <2>3
    <2> QED
      BY <1>2, <2>2, <2>3
  <1>7. \A k \in 1..(n + 1) : more[k] = hits[to[k]] /\ hits[to[k]] > moment
    <2> SUFFICES ASSUME NEW k \in 1..(n + 1)
                 PROVE  more[k] = hits[to[k]] /\ hits[to[k]] > moment
      OBVIOUS
    <2>1. CASE k = n + 1
      BY <1>3, <1>5, <2>1
    <2>2. CASE k \in 1..n
      <3>1. more[k] = kept[k] /\ to[k] = pos[k]
        BY <1>3, <1>5, <2>2
      <3> QED
        BY <1>4, <2>2, <3>1
    <2> QED
      BY <1>2, <2>1, <2>2
  <1>8. \A j \in 1..i : hits[j] > moment => \E k \in 1..(n + 1) : to[k] = j
    <2> SUFFICES ASSUME NEW j \in 1..i, hits[j] > moment
                 PROVE  \E k \in 1..(n + 1) : to[k] = j
      OBVIOUS
    <2>1. CASE j = i
      BY <1>2, <1>5, <2>1
    <2>2. CASE j \in 1..(i - 1)
      <3>1. PICK k \in 1..n : pos[k] = j
        BY <1>4, <2>2
      <3> QED
        BY <1>2, <1>5, <3>1
    <2> QED
      BY <1>2, <2>1, <2>2
  <1>9. Filters(to, more, hits, i, moment)
    BY <1>3, <1>5, <1>6, <1>7, <1>8 DEF Filters
  <1> QED
    BY <1>9 DEF Filtered, more

\* filter() keeps the hits after the moment.
LEMMA AboveFacts ==
  ASSUME NEW hits \in Seq(Nat), NEW moment \in Int
  PROVE  /\ Above(hits, moment) \in Seq(Nat)
         /\ Filtered(Above(hits, moment), hits, Len(hits), moment)
  <1> DEFINE f == CHOOSE x : IsAbove(x, hits, moment)
             n == Len(hits)
  <1>1. IsAbove(f, hits, moment)
    BY AboveExists
  <1>2. Above(hits, moment) = f[n]
    BY DEF Above, IsAbove
  <1> HIDE DEF f
  <1>3. f = [i \in 0..n |-> IF i = 0 THEN <<>>
                            ELSE IF hits[i] > moment THEN Append(f[i - 1], hits[i])
                            ELSE f[i - 1]]
    BY <1>1, Zenon DEF IsAbove, n
  <1>4. n \in Nat
    OBVIOUS
  <1> HIDE DEF n
  <1>5. /\ f[0] = <<>>
        /\ \A i \in 1..n : f[i] = IF hits[i] > moment
                                    THEN Append(f[i - 1], hits[i]) ELSE f[i - 1]
    <2> DEFINE h == [i \in 0..n |-> IF i = 0 THEN <<>>
                                    ELSE IF hits[i] > moment
                                      THEN Append(f[i - 1], hits[i])
                                    ELSE f[i - 1]]
    <2>1. /\ h[0] = <<>>
          /\ \A i \in 1..n : h[i] = IF hits[i] > moment
                                      THEN Append(f[i - 1], hits[i]) ELSE f[i - 1]
      BY <1>4
    <2>2. f = h
      BY <1>3
    <2> HIDE DEF h
    <2> QED
      BY <2>1, <2>2
  <1> DEFINE Good(i) == f[i] \in Seq(Nat) /\ Filtered(f[i], hits, i, moment)
             Bad == {i \in 0..n : ~Good(i)}
  <1>6. Good(0)
    <2>1. Filters(<<>>, <<>>, hits, 0, moment)
      BY DEF Filters
    <2>2. f[0] \in Seq(Nat)
      BY <1>5
    <2> QED
      BY <1>5, <2>1, <2>2 DEF Filtered
  <1>7. ASSUME NEW i \in 1..n, Good(i - 1) PROVE Good(i)
    <2>1. i \in 1..Len(hits) /\ hits[i] \in Nat
      BY DEF n
    <2>2. CASE hits[i] > moment
      <3>1. f[i] = Append(f[i - 1], hits[i])
        BY <1>5, <2>2
      <3> QED
        BY <1>7, <2>1, <2>2, <3>1, FilterOneMore
    <2>3. CASE ~(hits[i] > moment)
      <3>1. f[i] = f[i - 1]
        BY <1>5, <2>3
      <3>2. PICK pos : Filters(pos, f[i - 1], hits, i - 1, moment)
        BY <1>7 DEF Filtered
      <3>3. \A j \in 1..i : hits[j] > moment => j \in 1..(i - 1)
        BY <2>3
      <3>4. \A j \in 1..(i - 1) : j \in 1..i
        OBVIOUS
      <3>5. Filters(pos, f[i], hits, i, moment)
        BY <3>1, <3>2, <3>3, <3>4 DEF Filters
      <3> QED
        BY <1>7, <3>1, <3>5 DEF Filtered
    <2> QED
      BY <2>2, <2>3
  <1> HIDE DEF Good
  <1>8. Bad = {}
    <2> SUFFICES ASSUME Bad # {} PROVE FALSE
      OBVIOUS
    <2>1. Bad \in SUBSET Nat
      OBVIOUS
    <2>2. PICK i \in Bad : \A k \in Bad : i <= k
      <3> HIDE DEF Bad
      <3> QED
        BY <2>1, LeastOf
    <2>3. i \in 1..n /\ i - 1 \in 0..n /\ i - 1 \notin Bad
      BY <1>4, <1>6, <2>2
    <2> QED
      BY <1>7, <2>2, <2>3
  <1>9. Good(n)
    BY <1>4, <1>8
  <1> QED
    BY <1>2, <1>9 DEF Good, n

---------------------------------------------------------------------------
(* What a window owes to a log of calls: the calls after a moment, or at   *)
(* least the latest of them, as many as it keeps at most.                  *)

CoversAt(pos, hits, calling, most, moment) ==
  /\ Traces(pos, hits, calling)
  /\ \A i \in 1..Len(calling) : calling[i] > moment =>
       \/ \E x \in 1..Len(hits) : pos[x] = i
       \/ Len(hits) >= most /\ pos[Len(hits) - most + 1] > i
Covers(hits, calling, most, moment) ==
  \E pos : CoversAt(pos, hits, calling, most, moment)

\* Times of calls that were executed up to wait late, none of them after t.
NearlySorted(calling, wait, t) ==
  /\ calling \in Seq(Nat) /\ \A i \in 1..Len(calling) : calling[i] <= t
  /\ \A i, j \in 1..Len(calling) : i < j => calling[j] >= calling[i] - wait

LEMMA NoneOwed ==
  ASSUME NEW most \in Nat \ {0}, NEW calling \in Seq(Nat), NEW moment \in Int,
         \A i \in 1..Len(calling) : calling[i] <= moment
  PROVE  Covers(<<>>, calling, most, moment)
  <1>1. Traces(<<>>, <<>>, calling)
    BY DEF Traces
  <1>2. \A i \in 1..Len(calling) : calling[i] \in Nat /\ ~(calling[i] > moment)
    OBVIOUS
  <1> QED
    BY <1>1, <1>2 DEF Covers, CoversAt

LEMMA SortedMore ==
  ASSUME NEW calling, NEW wait \in Nat, NEW t \in Nat, NEW stamp \in Nat,
         NearlySorted(calling, wait, t), stamp \in (t - wait)..t
  PROVE  NearlySorted(Append(calling, stamp), wait, t)
  <1> DEFINE n == Len(calling)
             m == Append(calling, stamp)
  <1>1. /\ calling \in Seq(Nat) /\ n \in Nat
        /\ \A i \in 1..n : calling[i] \in Nat /\ calling[i] <= t
        /\ \A i, j \in 1..n : i < j => calling[j] >= calling[i] - wait
    BY DEF NearlySorted
  <1>2. /\ m \in Seq(Nat) /\ Len(m) = n + 1 /\ m[n + 1] = stamp
        /\ \A i \in 1..n : m[i] = calling[i]
    BY <1>1
  <1>3. \A i \in 1..n + 1 : i = n + 1 \/ i \in 1..n
    BY <1>1
  <1> HIDE DEF n, m
  <1>4. \A i \in 1..n + 1 : m[i] <= t
    <2>1. \A i \in 1..n : m[i] <= t
      BY <1>1, <1>2
    <2>2. m[n + 1] <= t
      BY <1>2
    <2> QED
      BY <1>3, <2>1, <2>2
  <1>5. ASSUME NEW i \in 1..n + 1, NEW j \in 1..n + 1, i < j
        PROVE  m[j] >= m[i] - wait
    <2>1. i \in 1..n /\ m[i] = calling[i]
      BY <1>1, <1>2, <1>3, <1>5
    <2>2. CASE j = n + 1
      BY SMTT(30), <1>1, <1>2, <2>1, <2>2
    <2>3. CASE j \in 1..n
      BY <1>1, <1>2, <1>5, <2>1, <2>3
    <2> QED
      BY <1>3, <2>2, <2>3
  <1> QED
    BY <1>2, <1>4, <1>5 DEF NearlySorted, m, n

\* A part of a sequence that includes the last few includes them as its last.
IsPart(q, m, n) ==
  q \in [1..m -> 1..n] /\ \A i, j \in 1..m : i < j => q[i] < q[j]
Includes(q, m, x) == \E y \in 1..m : q[y] = x

LEMMA LastKept ==
  ASSUME NEW m \in Nat, NEW n \in Nat, NEW most \in 1..n, NEW q, IsPart(q, m, n),
         \A x \in (n - most + 1)..n : Includes(q, m, x)
  PROVE  m >= most /\ q[m - most + 1] = n - most + 1
  <1>0. /\ q \in [1..m -> 1..n]
        /\ \A i, j \in 1..m : i < j => q[i] < q[j]
        /\ \A x \in n - most + 1..n : \E y \in 1..m : q[y] = x
    BY DEF IsPart, Includes
  <1> DEFINE Bad == {k \in 0..most - 1 : ~(m - k \in 1..m /\ q[m - k] = n - k)}
  <1> SUFFICES Bad = {}
    <2>1. most - 1 \in 0..most - 1 /\ m - (most - 1) = m - most + 1
          /\ n - (most - 1) = n - most + 1
      OBVIOUS
    <2>2. m - (most - 1) \in 1..m /\ q[m - (most - 1)] = n - (most - 1)
      BY <2>1
    <2> QED
      BY <2>1, <2>2
  <1> SUFFICES ASSUME Bad # {} PROVE FALSE
    OBVIOUS
  <1>1. PICK k \in Bad : \A x \in Bad : k <= x
    <2>1. Bad \in SUBSET Nat
      OBVIOUS
    <2> HIDE DEF Bad
    <2> QED
      BY <2>1, LeastOf
  <1>2. k \in 0..most - 1 /\ ~(m - k \in 1..m /\ q[m - k] = n - k)
    BY <1>1
  <1>3. PICK y \in 1..m : q[y] = n - k
    <2>1. n - k \in n - most + 1..n
      BY <1>2
    <2> QED
      BY <1>0, <2>1
  <1>4. CASE k = 0
    <2>1. m \in 1..m /\ q[m] \in 1..n /\ (y = m \/ y < m)
      BY <1>0, <1>3
    <2>2. q[m] = n
      <3>1. y < m => q[y] < q[m]
        BY <1>0, <2>1
      <3> QED
        BY <1>3, <1>4, <2>1, <3>1
    <2> QED
      BY <1>2, <1>4, <2>1, <2>2
  <1>5. CASE k # 0
    <2>1. k - 1 \in 0..most - 1 /\ k - 1 \notin Bad
      <3>1. k - 1 \in 0..most - 1 /\ ~(k <= k - 1)
        BY <1>2, <1>5
      <3> HIDE DEF Bad
      <3> QED
        BY <1>1, <3>1
    <2>2. m - (k - 1) \in 1..m /\ q[m - (k - 1)] = n - (k - 1)
      BY <2>1
    <2>3. y < m - (k - 1)
      <3>1. y > m - (k - 1) => q[m - (k - 1)] < q[y]
        BY <1>0, <2>2
      <3>2. y # m - (k - 1)
        BY <1>2, <1>3, <2>2
      <3> QED
        BY <1>2, <1>3, <2>2, <3>1, <3>2
    <2>4. m - k \in 1..m /\ (y = m - k \/ y < m - k) /\ m - k < m - (k - 1)
      BY <1>2, <2>3
    <2>5. q[m - k] < n - (k - 1) /\ q[m - k] \in 1..n
      BY <1>0, <2>2, <2>4
    <2>6. q[m - k] >= n - k
      <3>1. CASE y < m - k
        <4>1. q[y] < q[m - k]
          BY <1>0, <2>4, <3>1
        <4> QED
          BY <1>3, <2>5, <4>1
      <3>2. CASE y = m - k
        BY <1>3, <2>5, <3>2
      <3> QED
        BY <2>4, <3>1, <3>2
    <2> QED
      BY <1>2, <2>4, <2>5, <2>6
  <1> QED
    BY <1>4, <1>5

\* filter() drops only what is not owed any more.
LEMMA FilterCovers ==
  ASSUME NEW hits \in Seq(Nat), NEW calling, NEW most \in Nat \ {0},
         NEW moment \in Int, NEW wait \in Nat, NEW t \in Nat,
         NearlySorted(calling, wait, t), Covers(hits, calling, most, moment),
         NEW past \in Int, past <= moment - wait
  PROVE  Covers(Above(hits, past), calling, most, moment)
  <1> DEFINE left == Above(hits, past)
             n == Len(hits)
             m == Len(left)
             L == Len(calling)
  <1>1. left \in Seq(Nat) /\ Filtered(left, hits, n, past)
    BY AboveFacts
  <1>2. PICK q : Filters(q, left, hits, n, past)
    BY <1>1 DEF Filtered
  <1>3. PICK pos : CoversAt(pos, hits, calling, most, moment)
    BY DEF Covers
  <1>4. n \in Nat /\ m \in Nat /\ L \in Nat
    BY <1>1 DEF NearlySorted
  <1> HIDE DEF left, n, m, L
  <1>5. /\ q \in [1..m -> 1..n]
        /\ \A i, j \in 1..m : i < j => q[i] < q[j]
        /\ \A i \in 1..m : left[i] = hits[q[i]]
        /\ \A j \in 1..n : hits[j] > past => \E i \in 1..m : q[i] = j
    BY <1>2 DEF Filters, m
  <1>6. /\ pos \in [1..n -> 1..L]
        /\ \A i, j \in 1..n : i < j => pos[i] < pos[j]
        /\ \A i \in 1..n : hits[i] = calling[pos[i]]
        /\ \A i \in 1..L : calling[i] > moment =>
             \/ \E x \in 1..n : pos[x] = i
             \/ n >= most /\ pos[n - most + 1] > i
    BY <1>3 DEF CoversAt, Traces, n, L
  <1>7. /\ \A i \in 1..L : calling[i] \in Nat
        /\ \A i, j \in 1..L : i < j => calling[j] >= calling[i] - wait
    BY DEF NearlySorted, L
  <1> DEFINE to == [i \in 1..m |-> pos[q[i]]]
  <1>8. to \in [1..m -> 1..L] /\ \A i \in 1..m : to[i] = pos[q[i]]
    BY <1>5, <1>6
  <1> HIDE DEF to
  <1>9. Traces(to, left, calling)
    <2>1. \A i, j \in 1..m : i < j => to[i] < to[j]
      BY <1>5, <1>6, <1>8, SMTT(30)
    <2>2. \A i \in 1..m : left[i] = calling[to[i]]
      BY <1>5, <1>6, <1>8
    <2> QED
      BY <1>8, <2>1, <2>2 DEF Traces, m, L
  <1>10. ASSUME NEW i \in 1..L, calling[i] > moment
         PROVE  \/ \E x \in 1..m : to[x] = i
                \/ m >= most /\ to[m - most + 1] > i
    <2>1. CASE \E x \in 1..n : pos[x] = i
      <3>1. PICK x \in 1..n : pos[x] = i
        BY <2>1
      <3>2. hits[x] > past
        BY <1>6, <1>7, <1>10, <3>1
      <3>3. PICK y \in 1..m : q[y] = x
        BY <1>5, <3>2
      <3> QED
        BY <1>8, <3>1, <3>3
    <2>2. CASE n >= most /\ pos[n - most + 1] > i
      <3>1. most \in 1..n /\ n - most + 1 \in 1..n
        BY <1>4, <2>2
      <3>2. ASSUME NEW x \in n - most + 1..n
            PROVE  \E y \in 1..m : q[y] = x
        <4>1. x \in 1..n /\ (x = n - most + 1 \/ n - most + 1 < x)
          BY <1>4, <3>1
        <4>2. pos[x] \in 1..L /\ pos[x] > i
          <5>1. pos[n - most + 1] \in 1..L /\ pos[x] \in 1..L
            BY <1>6, <3>1, <4>1
          <5>2. n - most + 1 < x => pos[n - most + 1] < pos[x]
            BY <1>6, <3>1, <4>1
          <5> QED
            BY <2>2, <4>1, <5>1, <5>2
        <4>3. calling[pos[x]] >= calling[i] - wait
          BY <1>7, <4>2
        <4>4. hits[x] > past
          <5>1. hits[x] = calling[pos[x]] /\ calling[pos[x]] \in Nat /\ calling[i] \in Nat
            BY <1>6, <1>7, <4>1, <4>2
          <5> QED
            BY <1>10, <4>3, <5>1
        <4> QED
          BY <1>5, <4>1, <4>4
      <3>3. m >= most /\ q[m - most + 1] = n - most + 1
        <4>1. IsPart(q, m, n) /\ \A x \in (n - most + 1)..n : Includes(q, m, x)
          BY <1>5, <3>2 DEF IsPart, Includes
        <4> QED
          BY <1>4, <3>1, <4>1, LastKept
      <3>4. m - most + 1 \in 1..m
        BY <1>4, <3>1, <3>3
      <3>5. to[m - most + 1] = pos[n - most + 1]
        BY <1>8, <3>3, <3>4
      <3> QED
        BY <2>2, <3>3, <3>5
    <2> QED
      BY <1>6, <1>10, <2>1, <2>2
  <1>11. CoversAt(to, left, calling, most, moment)
    BY <1>9, <1>10 DEF CoversAt, m, L
  <1> QED
    BY <1>11 DEF Covers, left

LEMMA RaiseCovers ==
  ASSUME NEW hits, NEW calling \in Seq(Nat), NEW most, NEW moment \in Int,
         Covers(hits, calling, most, moment), NEW future \in Int, moment <= future
  PROVE  Covers(hits, calling, most, future)
  <1>1. PICK pos : CoversAt(pos, hits, calling, most, moment)
    BY DEF Covers
  <1>2. \A i \in 1..Len(calling) : calling[i] > future => calling[i] > moment
    <2>1. \A i \in 1..Len(calling) : calling[i] \in Nat
      OBVIOUS
    <2> QED
      BY <2>1
  <1>3. CoversAt(pos, hits, calling, most, future)
    BY <1>1, <1>2 DEF CoversAt
  <1> QED
    BY <1>3 DEF Covers

\* A call is added to both.
LEMMA AppendCovers ==
  ASSUME NEW hits \in Seq(Nat), NEW calling \in Seq(Nat), NEW most \in Nat \ {0},
         NEW moment \in Int, Covers(hits, calling, most, moment), NEW stamp \in Nat
  PROVE  Covers(Append(hits, stamp), Append(calling, stamp), most, moment)
  <1> DEFINE n == Len(hits)
             L == Len(calling)
             more == Append(hits, stamp)
             all == Append(calling, stamp)
  <1>1. PICK pos : CoversAt(pos, hits, calling, most, moment)
    BY DEF Covers
  <1>2. /\ n \in Nat /\ Len(more) = n + 1 /\ more[n + 1] = stamp
        /\ \A i \in 1..n : more[i] = hits[i]
    OBVIOUS
  <1>3. /\ L \in Nat /\ Len(all) = L + 1 /\ all[L + 1] = stamp
        /\ \A i \in 1..L : all[i] = calling[i]
    OBVIOUS
  <1>4. /\ pos \in [1..n -> 1..L]
        /\ \A i, j \in 1..n : i < j => pos[i] < pos[j]
        /\ \A i \in 1..n : hits[i] = calling[pos[i]]
        /\ \A i \in 1..L : calling[i] > moment =>
             \/ \E x \in 1..n : pos[x] = i
             \/ n >= most /\ pos[n - most + 1] > i
    BY <1>1 DEF CoversAt, Traces
  <1> HIDE DEF n, L, more, all
  <1> DEFINE to == [i \in 1..n + 1 |-> IF i = n + 1 THEN L + 1 ELSE pos[i]]
  <1>5. /\ \A i \in 1..n + 1 : i = n + 1 \/ i \in 1..n
        /\ \A i \in 1..n : i # n + 1 /\ i \in 1..n + 1
        /\ \A i \in 1..L + 1 : i = L + 1 \/ i \in 1..L
        /\ \A i \in 1..L : i < L + 1 /\ i \in 1..L + 1
        /\ n + 1 \in 1..n + 1 /\ L + 1 \in 1..L + 1
    BY <1>2, <1>3
  <1>6. /\ to \in [1..n + 1 -> 1..L + 1] /\ to[n + 1] = L + 1
        /\ \A i \in 1..n : to[i] = pos[i]
    BY <1>4, <1>5
  <1> HIDE DEF to
  <1>7. \A i, j \in 1..n + 1 : i < j => to[i] < to[j]
    <2> SUFFICES ASSUME NEW i \in 1..n + 1, NEW j \in 1..n + 1, i < j
                 PROVE  to[i] < to[j]
      OBVIOUS
    <2>1. i \in 1..n
      BY <1>2
    <2>2. CASE j = n + 1
      BY <1>4, <1>5, <1>6, <2>1, <2>2
    <2>3. CASE j \in 1..n
      BY <1>4, <1>6, <2>1, <2>3
    <2> QED
      BY <1>5, <2>2, <2>3
  <1>8. \A i \in 1..n + 1 : more[i] = all[to[i]]
    <2> SUFFICES ASSUME NEW i \in 1..n + 1 PROVE more[i] = all[to[i]]
      OBVIOUS
    <2>1. CASE i = n + 1
      BY <1>2, <1>3, <1>6, <2>1
    <2>2. CASE i \in 1..n
      <3>1. pos[i] \in 1..L
        BY <1>4, <2>2
      <3> QED
        BY <1>2, <1>3, <1>4, <1>6, <2>2, <3>1, ZenonT(40)
    <2> QED
      BY <1>5, <2>1, <2>2
  <1>9. ASSUME NEW i \in 1..L + 1, all[i] > moment
        PROVE  \/ \E x \in 1..n + 1 : to[x] = i
               \/ n + 1 >= most /\ to[n + 1 - most + 1] > i
    <2>1. CASE i = L + 1
      BY <1>5, <1>6, <2>1
    <2>2. CASE i \in 1..L /\ \E x \in 1..n : pos[x] = i
      BY <1>5, <1>6, <2>2
    <2>3. CASE i \in 1..L /\ n >= most /\ pos[n - most + 1] > i
      <3>1. n + 1 - most + 1 \in 1..n + 1 /\ n - most + 1 \in 1..n
            /\ n - most + 1 < n + 1 - most + 1 /\ n - most + 1 \in 1..n + 1
        BY <1>2, <2>3
      <3>2. to[n - most + 1] < to[n + 1 - most + 1] /\ to[n - most + 1] = pos[n - most + 1]
        BY <1>6, <1>7, <3>1
      <3>3. to[n + 1 - most + 1] \in 1..L + 1 /\ pos[n - most + 1] \in 1..L
        BY <1>4, <1>6, <3>1
      <3>4. to[n + 1 - most + 1] > i
        BY <2>3, <3>2, <3>3
      <3> QED
        BY <1>2, <2>3, <3>4
    <2> QED
      BY <1>3, <1>4, <1>5, <1>9, <2>1, <2>2, <2>3
  <1>10. CoversAt(to, more, all, most, moment)
    <2>1. Traces(to, more, all)
      BY <1>2, <1>3, <1>6, <1>7, <1>8 DEF Traces
    <2> QED
      BY <1>2, <1>3, <1>9, <2>1 DEF CoversAt
  <1> QED
    BY <1>10 DEF Covers, more, all

\* No more hits are kept than that.
LEMMA SliceCovers ==
  ASSUME NEW hits \in Seq(Nat), NEW calling \in Seq(Nat), NEW most \in Nat \ {0},
         NEW moment \in Int, Covers(hits, calling, most, moment),
         NEW d, d = IF Len(hits) > most THEN Len(hits) - most ELSE 0
  PROVE  LET kept == SubSeq(hits, d + 1, Len(hits))
         IN  /\ kept \in Seq(Nat) /\ Len(kept) = Len(hits) - d
             /\ \A i \in 1..Len(hits) - d : kept[i] = hits[i + d]
             /\ Covers(kept, calling, most, moment)
  <1> DEFINE n == Len(hits)
             L == Len(calling)
             kept == SubSeq(hits, d + 1, n)
             m == n - d
  <1>1. PICK pos : CoversAt(pos, hits, calling, most, moment)
    BY DEF Covers
  <1>2. n \in Nat /\ d \in 0..n /\ m \in Nat /\ (d # 0 => m = most)
    OBVIOUS
  <1>3. /\ kept \in Seq(Nat) /\ Len(kept) = m
        /\ \A i \in 1..m : kept[i] = hits[i + d]
    <2>1. d \in 0..Len(hits)
      BY <1>2
    <2> QED
      BY <2>1, RestFacts
  <1>4. /\ pos \in [1..n -> 1..L]
        /\ \A i, j \in 1..n : i < j => pos[i] < pos[j]
        /\ \A i \in 1..n : hits[i] = calling[pos[i]]
        /\ \A i \in 1..L : calling[i] > moment =>
             \/ \E x \in 1..n : pos[x] = i
             \/ n >= most /\ pos[n - most + 1] > i
    BY <1>1 DEF CoversAt, Traces
  <1> HIDE DEF L, kept
  <1>5. CASE d = 0
    <2>1. \A i \in 1..m : kept[i] = hits[i]
      BY <1>2, <1>3, <1>5
    <2>2. m = n
      BY <1>2, <1>5
    <2>3. CoversAt(pos, kept, calling, most, moment)
      <3>1. Traces(pos, kept, calling)
        BY <1>3, <1>4, <2>1, <2>2 DEF Traces, L
      <3> QED
        BY <1>3, <1>4, <2>2, <3>1 DEF CoversAt, L
    <2> QED
      BY <1>3, <2>3 DEF Covers, kept
  <1>6. CASE d # 0
    <2>1. m = most /\ n = most + d
      BY <1>2, <1>6
    <2> DEFINE to == [i \in 1..m |-> pos[i + d]]
    <2>2. \A i \in 1..m : i + d \in 1..n
      BY <1>2
    <2>3. to \in [1..m -> 1..L] /\ \A i \in 1..m : to[i] = pos[i + d]
      BY <1>4, <2>2
    <2> HIDE DEF to
    <2>4. \A i, j \in 1..m : i < j => to[i] < to[j]
      <3> SUFFICES ASSUME NEW i \in 1..m, NEW j \in 1..m, i < j PROVE to[i] < to[j]
        OBVIOUS
      <3>1. i + d < j + d
        BY <1>2
      <3> QED
        BY <1>4, <2>2, <2>3, <3>1
    <2>5. ASSUME NEW i \in 1..m PROVE kept[i] = calling[to[i]]
      <3>1. kept[i] = hits[i + d] /\ i + d \in 1..n /\ to[i] = pos[i + d]
        BY <1>3, <2>2, <2>3
      <3> QED
        BY <1>4, <3>1
    <2>6. 1 \in 1..m /\ m - most + 1 = 1 /\ n - most + 1 = 1 + d /\ m >= most
      <3> HIDE DEF m, n
      <3> QED
        BY <1>2, <2>1
    <2>7. to[1] = pos[1 + d] /\ 1 + d \in 1..n
      BY <2>2, <2>3, <2>6
    <2>8. ASSUME NEW i \in 1..L, calling[i] > moment
          PROVE  \/ \E x \in 1..m : to[x] = i
                 \/ to[1] > i
      <3>1. CASE \E x \in 1..n : pos[x] = i
        <4>1. PICK x \in 1..n : pos[x] = i
          BY <3>1
        <4>2. CASE x > d
          <5>1. x - d \in 1..m /\ (x - d) + d = x
            BY <1>2, <4>2
          <5> QED
            BY <2>3, <4>1, <5>1
        <4>3. CASE ~(x > d)
          <5>1. x < 1 + d
            BY <1>2, <4>3
          <5>2. pos[x] < pos[1 + d]
            BY <1>4, <2>7, <5>1
          <5> QED
            BY <1>4, <2>7, <4>1, <5>2
        <4> QED
          BY <4>2, <4>3
      <3>2. CASE pos[n - most + 1] > i
        BY <2>6, <2>7, <3>2
      <3> QED
        BY <1>4, <2>8, <3>1, <3>2
    <2>9. CoversAt(to, kept, calling, most, moment)
      <3>1. Traces(to, kept, calling)
        BY <1>3, <2>3, <2>4, <2>5 DEF Traces, L
      <3> QED
        BY <1>3, <2>6, <2>8, <3>1 DEF CoversAt, L
    <2> QED
      BY <1>3, <2>9 DEF Covers, kept
  <1> QED
    BY <1>5, <1>6

\* So many calls are there after a moment, unless the window is full.
LEMMA CoverCount ==
  ASSUME NEW hits \in Seq(Nat), NEW calling \in Seq(Nat), NEW most \in Nat \ {0},
         NEW moment \in Int, Covers(hits, calling, most, moment)
  PROVE  LET after == {i \in DOMAIN calling : calling[i] > moment}
         IN  /\ IsFiniteSet(after)
             /\ Len(hits) >= most \/ Cardinality(after) <= Len(hits)
  <1> DEFINE n == Len(hits)
             L == Len(calling)
             after == {i \in DOMAIN calling : calling[i] > moment}
  <1>1. PICK pos : CoversAt(pos, hits, calling, most, moment)
    BY DEF Covers
  <1>2. n \in Nat /\ L \in Nat /\ DOMAIN calling = 1..L
    OBVIOUS
  <1>3. /\ pos \in [1..n -> 1..L]
        /\ \A i, j \in 1..n : i < j => pos[i] < pos[j]
        /\ \A i \in 1..L : calling[i] > moment =>
             (\E x \in 1..n : pos[x] = i) \/ n >= most
    BY <1>1 DEF CoversAt, Traces
  <1>4. after \in SUBSET (1..L)
    BY <1>2
  <1>5. IsFiniteSet(after)
    <2>1. IsFiniteSet(1..L)
      BY <1>2, FS_Interval
    <2> QED
      BY <1>4, <2>1, FS_Subset
  <1>6. ASSUME ~(n >= most)
        PROVE  Cardinality(after) <= n
    <2>1. \A i \in after : \E x \in 1..n : pos[x] = i
      BY <1>2, <1>3, <1>6
    <2> DEFINE f == [i \in after |-> CHOOSE x \in 1..n : pos[x] = i]
    <2>2. \A i \in after : f[i] \in 1..n /\ pos[f[i]] = i
      BY <2>1
    <2>3. f \in [after -> 1..n]
      BY <2>2
    <2> HIDE DEF f, after
    <2>4. f \in Injection(after, 1..n)
      <3>1. \A i, j \in after : f[i] = f[j] => i = j
        BY <2>2
      <3> QED
        BY <2>3, <3>1 DEF Injection, IsInjective
    <2>5. IsFiniteSet(1..n) /\ Cardinality(1..n) = n
      <3> HIDE DEF n
      <3>0. 1 \in Int /\ n \in Int
        BY <1>2
      <3>1. IsFiniteSet(1..n) /\ Cardinality(1..n) = IF 1 > n THEN 0 ELSE n - 1 + 1
        BY <3>0, FS_Interval
      <3> QED
        BY <1>2, <3>1
    <2> QED
      BY <2>4, <2>5, FS_Injection
  <1> QED
    BY <1>5, <1>6

\* Hits that are all after a moment are no more than the calls after it.
LEMMA LateCount ==
  ASSUME NEW hits \in Seq(Nat), NEW calling \in Seq(Nat), NEW most, NEW moment,
         Covers(hits, calling, most, moment), NEW past \in Int,
         \A i \in 1..Len(hits) : hits[i] > past
  PROVE  LET after == {i \in DOMAIN calling : calling[i] > past}
         IN  IsFiniteSet(after) /\ Len(hits) <= Cardinality(after)
  <1> DEFINE n == Len(hits)
             L == Len(calling)
             after == {i \in DOMAIN calling : calling[i] > past}
  <1>1. PICK pos : Traces(pos, hits, calling)
    BY DEF Covers, CoversAt
  <1>2. n \in Nat /\ L \in Nat /\ DOMAIN calling = 1..L
    OBVIOUS
  <1>3. /\ pos \in [1..n -> 1..L]
        /\ \A i, j \in 1..n : i < j => pos[i] < pos[j]
        /\ \A i \in 1..n : hits[i] = calling[pos[i]]
    BY <1>1 DEF Traces
  <1>4. \A i \in 1..n : hits[i] > past
    OBVIOUS
  <1> HIDE DEF n, L
  <1>5. pos \in [1..n -> after]
    <2>1. pos = [i \in 1..n |-> pos[i]]
      BY <1>3
    <2>2. \A i \in 1..n : pos[i] \in after
      BY <1>2, <1>3, <1>4
    <2> HIDE DEF after
    <2> QED
      BY <2>1, <2>2
  <1>6. \A i, j \in 1..n : pos[i] = pos[j] => i = j
    <2> SUFFICES ASSUME NEW i \in 1..n, NEW j \in 1..n, pos[i] = pos[j] PROVE i = j
      OBVIOUS
    <2>1. pos[i] \in 1..L /\ pos[j] \in 1..L
      BY <1>3
    <2>2. ~(i < j) /\ ~(j < i)
      BY <1>3, <2>1
    <2> QED
      BY <1>2, <2>2
  <1>7. IsFiniteSet(after)
    <2>1. IsFiniteSet(1..L) /\ after \in SUBSET (1..L)
      BY <1>2, FS_Interval
    <2> QED
      BY <2>1, FS_Subset
  <1> HIDE DEF after
  <1>8. pos \in Injection(1..n, after)
    BY <1>5, <1>6 DEF Injection, IsInjective
  <1>9. Cardinality(1..n) = n
    <2>1. Cardinality(1..n) = IF 1 > n THEN 0 ELSE n - 1 + 1
      BY <1>2, FS_Interval
    <2> QED
      BY <1>2, <2>1
  <1>10. n <= Cardinality(after)
    BY <1>7, <1>8, <1>9, FS_Injection
  <1> QED
    BY <1>7, <1>10 DEF after, n

LEMMA AboveIsAfter ==
  ASSUME NEW hits \in Seq(Nat), NEW moment \in Int
  PROVE  \A i \in 1..Len(Above(hits, moment)) : Above(hits, moment)[i] > moment
  <1> DEFINE left == Above(hits, moment)
  <1>1. PICK q : Filters(q, left, hits, Len(hits), moment)
    BY AboveFacts DEF Filtered
  <1> QED
    BY <1>1 DEF Filters

---------------------------------------------------------------------------
(* Tables with keys                                                        *)

Has(l, k) == \E i \in DOMAIN l : l[i].key = k
Of(l, k) == l[CHOOSE i \in DOMAIN l : l[i].key = k]
KeyOf(T) == [e \in T |-> e.key]

LEMMA OfFacts ==
  ASSUME NEW T, NEW l \in Seq(T), Distinct(l, KeyOf(T)), NEW i \in 1..Len(l)
  PROVE  Has(l, l[i].key) /\ Of(l, l[i].key) = l[i]
  <1> DEFINE k == l[i].key
             j == CHOOSE x \in DOMAIN l : l[x].key = k
  <1>1. DOMAIN l = 1..Len(l) /\ \A x \in 1..Len(l) : KeyOf(T)[l[x]] = l[x].key
    BY DEF KeyOf
  <1>2. j \in DOMAIN l /\ l[j].key = k
    <2>1. i \in DOMAIN l /\ l[i].key = k
      BY <1>1
    <2> HIDE DEF k
    <2> QED
      BY <2>1
  <1>3. j = i
    <2> HIDE DEF j
    <2> QED
      BY <1>1, <1>2 DEF Distinct
  <1> QED
    BY <1>1, <1>3 DEF Has, Of

KeyComesLast(m, e, after, grown) ==
  \A i \in 1..Len(m) : /\ m[i].key # e.key
                       /\ after[m[i].key] \cup {e.key} \subseteq grown[m[i].key]

\* An entry is added; the first d have left.
AddedAs(out, m, d, e, T, grown) ==
  /\ Distinct(out, KeyOf(T)) /\ InOrder(out, KeyOf(T), grown)
  /\ Has(out, e.key) /\ Of(out, e.key) = e
  /\ \A x : x # e.key /\ Has(out, x) => Has(m, x) /\ Of(out, x) = Of(m, x)
  /\ \A x : Has(m, x) /\ ~Has(out, x) =>
             \E i \in 1..d : m[i].key = x /\ Of(m, x) = m[i]

LEMMA AddedFacts ==
  ASSUME NEW T, NEW after, NEW grown, NEW m \in Seq(T),
         Distinct(m, KeyOf(T)), InOrder(m, KeyOf(T), after),
         NEW e \in T, NEW d \in 0..Len(m), KeyComesLast(m, e, after, grown)
  PROVE  AddedAs(Added(m, d, e), m, d, e, T, grown)
  <1> DEFINE out == Added(m, d, e)
             n == Len(m) - d
             K == KeyOf(T)
  <1>1. K \in [T -> {x.key : x \in T}] /\ \A x \in T : K[x] = x.key
    BY DEF KeyOf
  <1>2. ComesLast(m, K, e, after, grown)
    <2> HIDE DEF K
    <2>1. \A i \in 1..Len(m) : m[i] \in T
      OBVIOUS
    <2> QED
      BY <1>1, <2>1 DEF ComesLast, KeyComesLast
  <1>3. /\ out \in Seq(T) /\ Len(out) = n + 1
        /\ Distinct(out, KeyOf(T)) /\ InOrder(out, KeyOf(T), grown)
        /\ out[n + 1] = e
        /\ \A i \in 1..n : out[i] = m[i + d]
    <2>1. Distinct(m, K) /\ InOrder(m, K, after)
      OBVIOUS
    <2> HIDE DEF K
    <2>2. Distinct(out, K) /\ InOrder(out, K, grown)
      BY <1>1, <1>2, <2>1, AppendFacts
    <2>3. /\ out \in Seq(T) /\ Len(out) = n + 1 /\ out[n + 1] = e
          /\ \A i \in 1..n : out[i] = m[i + d]
      BY AddedEntries
    <2> QED
      BY <2>2, <2>3 DEF K
  <1>4. n \in Nat /\ Len(m) \in Nat /\ d \in 0..Len(m) /\ n = Len(m) - d
    OBVIOUS
  <1> HIDE DEF out, n
  <1>5. /\ \A i \in 1..n + 1 : Has(out, out[i].key) /\ Of(out, out[i].key) = out[i]
        /\ \A i \in 1..Len(m) : Has(m, m[i].key) /\ Of(m, m[i].key) = m[i]
    BY <1>3, OfFacts
  <1>6. DOMAIN out = 1..n + 1 /\ DOMAIN m = 1..Len(m) /\ n + 1 \in 1..n + 1
    BY <1>3, <1>4
  <1>7. Has(out, e.key) /\ Of(out, e.key) = e
    BY <1>3, <1>5, <1>6
  <1>8. ASSUME NEW x, x # e.key, Has(out, x)
        PROVE  Has(m, x) /\ Of(out, x) = Of(m, x)
    <2>1. PICK i \in 1..n + 1 : out[i].key = x
      BY <1>6, <1>8 DEF Has
    <2>2. i \in 1..n
      BY <1>3, <1>4, <1>8, <2>1
    <2>3. i + d \in 1..Len(m) /\ out[i] = m[i + d]
      BY <1>3, <1>4, <2>2
    <2> QED
      BY <1>5, <2>1, <2>3
  <1>9. ASSUME NEW x, Has(m, x), ~Has(out, x)
        PROVE  \E i \in 1..d : m[i].key = x /\ Of(m, x) = m[i]
    <2>1. PICK i \in 1..Len(m) : m[i].key = x
      BY <1>6, <1>9 DEF Has
    <2>2. CASE i \in 1..d
      BY <1>5, <2>1, <2>2
    <2>3. CASE i \notin 1..d
      <3>1. i - d \in 1..n /\ (i - d) + d = i /\ i - d \in 1..n + 1
        BY <1>4, <2>3
      <3>2. out[i - d] = m[i]
        BY <1>3, <3>1
      <3> QED
        BY <1>5, <1>9, <2>1, <3>1, <3>2
    <2> QED
      BY <2>2, <2>3
  <1> QED
    BY <1>3, <1>7, <1>8, <1>9 DEF AddedAs, out, n

\* An entry at the end of those that stay has as many others after it.
LEMMA CrowdedKey ==
  ASSUME NEW T, NEW after, NEW grown, NEW m \in Seq(T), Distinct(m, KeyOf(T)), InOrder(m, KeyOf(T), after),
         NEW e \in T, NEW cap \in Nat,
         KeyComesLast(m, e, after, grown),
         NEW i \in 1..Len(m), Len(m) - i >= cap - 1, IsFiniteSet(grown[m[i].key])
  PROVE  Cardinality(grown[m[i].key]) >= cap
  <1> DEFINE K == KeyOf(T)
  <1>1. K \in [T -> {x.key : x \in T}] /\ \A x \in T : K[x] = x.key
    BY DEF KeyOf
  <1>2. Distinct(m, K) /\ InOrder(m, K, after)
    OBVIOUS
  <1> HIDE DEF K
  <1>3. \A j \in 1..Len(m) : m[j] \in T /\ K[m[j]] = m[j].key
    BY <1>1
  <1>4. ComesLast(m, K, e, after, grown)
    BY <1>1, <1>3 DEF ComesLast, KeyComesLast
  <1>5. IsFiniteSet(grown[K[m[i]]])
    BY <1>3
  <1>6. Cardinality(grown[K[m[i]]]) >= cap
    BY <1>1, <1>2, <1>4, <1>5, CrowdedOut
  <1> QED
    BY <1>3, <1>6

---------------------------------------------------------------------------
(* EdgeWorker: the worker's own limit                                      *)

Callers == [key : Clients, times : Seq(Nat)]

CallersTable(l, others) ==
  /\ l \in Seq(Callers) /\ Len(l) <= Addresses
  /\ Distinct(l, KeyOf(Callers)) /\ InOrder(l, KeyOf(Callers), others)

CallersInv ==
  /\ at \in Nat
  /\ log \in [Clients -> Seq(Nat)] /\ later \in [Clients -> SUBSET Clients]
  /\ \A k \in Clients : IsFiniteSet(later[k]) /\ NearlySorted(log[k], 0, at)
  /\ CallersTable(recent, later)
  /\ \A k \in Clients : Known(k) => Len(log[k]) > 0
  /\ \A k \in Clients : Covers(Times(k), Since(k), MaxCalls + 1, at - Window)
  /\ answered.allowed <=> answered.calls <= MaxCalls

LEMMA AllIsRest ==
  ASSUME NEW T, NEW l \in Seq(T)
  PROVE  l = SubSeq(l, 1, Len(l))
  <1> DEFINE s == SubSeq(l, 1, Len(l))
             n == Len(l)
  <1>1. s \in Seq(T) /\ Len(s) = n /\ \A i \in 1..n : s[i] = l[i]
    <2>1. 0 \in 0..Len(l)
      OBVIOUS
    <2> QED
      BY <2>1, RestFacts
  <1> HIDE DEF s
  <1> QED
    <2>1. s = l
      BY <1>1, SeqEqual
    <2> QED
      BY <2>1 DEF s

LEMMA KnownIsHas == \A k : Known(k) <=> Has(recent, k)
  BY DEF Known, Has

StoredAs(out, k, times, grown) ==
  /\ CallersTable(out, grown)
  /\ Has(out, k) /\ Of(out, k).times = times
  /\ \A x : x # k /\ Has(out, x) => Has(recent, x) /\ Of(out, x) = Of(recent, x)
  /\ \A x \in Clients : Has(recent, x) /\ ~Has(out, x) =>
                          Cardinality(grown[x]) >= Addresses

\* A known address keeps its place.
LEMMA UpdatedFacts ==
  ASSUME NEW k \in Clients, NEW times \in Seq(Nat), Known(k), NEW grown,
         CallersTable(recent, later), \A x \in Clients : later[x] \subseteq grown[x]
  PROVE  StoredAs(Stored(k, times), k, times, grown)
  <1> DEFINE out == Stored(k, times)
             n == Len(recent)
             K == KeyOf(Callers)
  <1>1. /\ recent \in Seq(Callers) /\ n \in Nat /\ n <= Addresses
        /\ Distinct(recent, K) /\ InOrder(recent, K, later)
        /\ DOMAIN recent = 1..n /\ \A i \in 1..n : recent[i] \in Callers
    BY DEF CallersTable
  <1>2. out = [i \in 1..n |-> IF recent[i].key = k
                              THEN [recent[i] EXCEPT !.times = times] ELSE recent[i]]
    BY <1>1 DEF Stored
  <1> HIDE DEF out, n
  <1>3. ASSUME NEW i \in 1..n
        PROVE  /\ out[i] \in Callers /\ out[i].key = recent[i].key
               /\ recent[i].key = k => out[i].times = times
               /\ recent[i].key # k => out[i] = recent[i]
    <2>1. recent[i] \in Callers
      BY <1>1
    <2>2. CASE recent[i].key = k
      <3>1. out[i] = [recent[i] EXCEPT !.times = times]
        BY <1>2, <2>2
      <3> QED
        BY <2>1, <2>2, <3>1 DEF Callers
    <2>3. CASE recent[i].key # k
      BY <1>2, <2>1, <2>3
    <2> QED
      BY <2>2, <2>3
  <1>4. out \in Seq(Callers) /\ Len(out) = n /\ DOMAIN out = 1..n
    <2>1. out \in [1..n -> Callers]
      <3>1. DOMAIN out = 1..n /\ out = [i \in 1..n |-> out[i]]
        BY <1>2
      <3> QED
        BY <1>3, <3>1
    <2> QED
      BY <1>1, <2>1
  <1>5. \A i \in 1..n : K[out[i]] = K[recent[i]] /\ K[recent[i]] = recent[i].key
    BY <1>1, <1>3 DEF KeyOf
  <1>6. \A i \in 1..n : recent[i].key \in Clients
    BY <1>1 DEF Callers
  <1>7. Distinct(out, K)
    BY <1>1, <1>4, <1>5 DEF Distinct, n
  <1>8. InOrder(out, K, grown)
    <2> HIDE DEF K
    <2>1. ASSUME NEW i \in 1..n, NEW j \in 1..n, i < j
          PROVE  K[out[j]] \in grown[K[out[i]]]
      <3>1. K[recent[j]] \in later[K[recent[i]]]
        BY <1>1, <2>1 DEF InOrder, n
      <3> QED
        BY <1>5, <1>6, <3>1
    <2> QED
      BY <1>4, <2>1 DEF InOrder
  <1>9. \A x : Has(out, x) <=> Has(recent, x)
    BY <1>1, <1>3, <1>4 DEF Has
  <1>10. ASSUME NEW x, Has(recent, x)
         PROVE  IF x = k THEN Of(out, x).times = times ELSE Of(out, x) = Of(recent, x)
    <2>1. PICK i \in 1..n : recent[i].key = x
      BY <1>1, <1>10 DEF Has
    <2>2. Of(recent, x) = recent[i]
      BY <1>1, <2>1, OfFacts DEF n
    <2>3. Of(out, x) = out[i]
      BY <1>3, <1>4, <1>7, <2>1, OfFacts
    <2> QED
      BY <1>3, <2>1, <2>2, <2>3
  <1> QED
    BY <1>1, <1>4, <1>7, <1>8, <1>9, <1>10, KnownIsHas DEF CallersTable, StoredAs, out

\* A new one comes last, and the first one leaves if there are too many.
LEMMA NewCallerFacts ==
  ASSUME NEW k \in Clients, NEW times \in Seq(Nat), ~Known(k), NEW grown,
         CallersTable(recent, later),
         \A x \in Clients : x # k => later[x] \cup {k} \subseteq grown[x],
         \A x \in Clients : IsFiniteSet(grown[x])
  PROVE  StoredAs(Stored(k, times), k, times, grown)
  <1> DEFINE e == [key |-> k, times |-> times]
             n == Len(recent)
             d == IF n >= Addresses THEN 1 ELSE 0
             K == KeyOf(Callers)
  <1>0. Addresses \in Nat \ {0}
    BY IsolateAssumption
  <1>1. /\ recent \in Seq(Callers) /\ n \in Nat /\ n <= Addresses
        /\ Distinct(recent, K) /\ InOrder(recent, K, later)
        /\ DOMAIN recent = 1..n /\ \A i \in 1..n : recent[i] \in Callers
    BY DEF CallersTable
  <1>2. d \in 0..n /\ n - d + 1 <= Addresses /\ (d # 0 => n = Addresses /\ d = 1)
    <2> HIDE DEF n
    <2> QED
      BY <1>0, <1>1
  <1>3. Stored(k, times) = Added(recent, d, e)
    <2>1. CASE n >= Addresses
      <3>1. recent # <<>>
        BY <1>0, <1>1, <2>1
      <3>2. Tail(recent) = SubSeq(recent, 2, n)
        BY <1>1, <3>1, TailIsSubSeq
      <3>3. d + 1 = 2
        BY <2>1
      <3> QED
        BY <2>1, <3>2, <3>3 DEF Stored, Added
    <2>2. CASE ~(n >= Addresses)
      <3>1. recent = SubSeq(recent, 1, n)
        BY <1>1, AllIsRest
      <3>2. d + 1 = 1
        BY <2>2
      <3> QED
        BY <2>2, <3>1, <3>2 DEF Stored, Added
    <2> QED
      BY <2>1, <2>2
  <1>4. e \in Callers /\ e.key = k /\ e.times = times /\ \A x \in Callers : x.key \in Clients
    BY DEF Callers
  <1>5. KeyComesLast(recent, e, later, grown)
    <2>1. \A i \in 1..n : recent[i].key # k /\ recent[i].key \in Clients
      BY <1>1, <1>4 DEF Known
    <2> QED
      BY <1>4, <2>1 DEF KeyComesLast
  <1> HIDE DEF e, d
  <1> DEFINE out == Added(recent, d, e)
  <1>6. /\ Distinct(out, K) /\ InOrder(out, K, grown)
        /\ Has(out, e.key) /\ Of(out, e.key) = e
        /\ \A x : x # e.key /\ Has(out, x) => Has(recent, x) /\ Of(out, x) = Of(recent, x)
        /\ \A x : Has(recent, x) /\ ~Has(out, x) =>
                    \E i \in 1..d : recent[i].key = x /\ Of(recent, x) = recent[i]
    <2>1. AddedAs(Added(recent, d, e), recent, d, e, Callers, grown)
      BY <1>1, <1>2, <1>4, <1>5, AddedFacts
    <2> QED
      BY <2>1 DEF AddedAs
  <1>10. out \in Seq(Callers) /\ Len(out) = n - d + 1
    BY <1>1, <1>2, <1>4, AddedEntries
  <1>7. ASSUME NEW x \in Clients, Has(recent, x), ~Has(out, x)
        PROVE  Cardinality(grown[x]) >= Addresses
    <2>1. PICK i \in 1..d : recent[i].key = x
      BY <1>6, <1>7
    <2>2. i \in 1..n /\ n - i >= Addresses - 1
      BY <1>2, <2>1
    <2> QED
      BY <1>0, <1>1, <1>4, <1>5, <2>1, <2>2, CrowdedKey
  <1> HIDE DEF out
  <1>8. CallersTable(out, grown)
    BY <1>2, <1>6, <1>10 DEF CallersTable
  <1>9. Stored(k, times) = out
    BY <1>3 DEF out
  <1> QED
    BY <1>4, <1>6, <1>7, <1>8, <1>9 DEF StoredAs

LEMMA CallersInit == MaxCalls > 0 /\ IsolateInit => CallersInv
  <1> SUFFICES ASSUME MaxCalls > 0, IsolateInit PROVE CallersInv
    OBVIOUS
  <1>0. MaxCalls \in Nat /\ Window \in Nat /\ Addresses \in Nat
    BY IsolateAssumption
  <1>1. /\ at = 1 /\ recent = <<>>
        /\ log = [k \in Clients |-> <<>>] /\ later = [k \in Clients |-> {}]
        /\ answered.allowed = TRUE /\ answered.calls = 0
    BY DEF IsolateInit
  <1>2. CallersTable(recent, later)
    BY <1>0, <1>1 DEF CallersTable, Distinct, InOrder
  <1>3. \A k \in Clients : ~Known(k) /\ Times(k) = <<>> /\ Since(k) = <<>>
    BY <1>1 DEF Known, Times, Since
  <1>4. \A k \in Clients : IsFiniteSet(later[k]) /\ NearlySorted(log[k], 0, at)
    BY <1>1, FS_EmptySet DEF NearlySorted
  <1>5. Covers(<<>>, <<>>, MaxCalls + 1, at - Window)
    <2>1. <<>> \in Seq(Nat) /\ MaxCalls + 1 \in Nat \ {0} /\ at - Window \in Int
      BY <1>0, <1>1
    <2>2. \A i \in 1..Len(<<>>) : <<>>[i] <= at - Window
      OBVIOUS
    <2> QED
      BY <2>1, <2>2, NoneOwed
  <1> QED
    BY <1>0, <1>1, <1>2, <1>3, <1>4, <1>5 DEF CallersInv

LEMMA IsolateTickKeeps ==
  ASSUME MaxCalls > 0, CallersInv, IsolateTick
  PROVE  CallersInv'
  <1>0. MaxCalls \in Nat /\ Window \in Nat
    BY IsolateAssumption
  <1>1. at \in Nat /\ at' = at + 1 /\ UNCHANGED <<recent, log, later, answered>>
    BY DEF CallersInv, IsolateTick
  <1>2. ASSUME NEW k \in Clients
        PROVE  /\ Times(k)' = Times(k) /\ Since(k)' = Since(k)
               /\ Known(k)' <=> Known(k)
    BY <1>1 DEF Times, Since, Forgotten, Known
  <1>3. \A k \in Clients : NearlySorted(log[k], 0, at)'
    <2> SUFFICES ASSUME NEW k \in Clients PROVE NearlySorted(log[k], 0, at + 1)
      BY <1>1
    <2>1. NearlySorted(log[k], 0, at)
      BY DEF CallersInv
    <2>2. log[k] \in Seq(Nat) /\ \A i \in 1..Len(log[k]) : log[k][i] <= at
      BY <2>1, Zenon DEF NearlySorted
    <2>3. \A i \in 1..Len(log[k]) : log[k][i] <= at + 1
      BY <1>1, <2>2
    <2> QED
      BY <2>1, <2>3, Zenon DEF NearlySorted
  <1>4. ASSUME NEW k \in Clients
        PROVE  Covers(Times(k)', Since(k)', MaxCalls + 1, at' - Window)
    <2>1. Covers(Times(k), Since(k), MaxCalls + 1, at - Window)
      BY DEF CallersInv
    <2>2. Since(k) \in Seq(Nat)
      BY DEF CallersInv, Since
    <2>3. at - Window \in Int /\ at' - Window \in Int /\ at - Window <= at' - Window
      BY <1>0, <1>1
    <2> QED
      BY <1>2, <2>1, <2>2, <2>3, RaiseCovers
  <1> QED
    BY <1>1, <1>2, <1>3, <1>4 DEF CallersInv

LEMMA AllowKeeps ==
  ASSUME MaxCalls > 0, CallersInv, NEW k \in Clients, Allow(k)
  PROVE  CallersInv'
  <1> DEFINE moment == at - Window
             most == MaxCalls + 1
             left == InWindow(Times(k))
             times == Append(left, at)
             calling == Append(Since(k), at)
             kept == Kept(times)
  <1>0. /\ MaxCalls \in Nat /\ Window \in Nat /\ Addresses \in Nat
        /\ most \in Nat \ {0} /\ most = MaxCalls + 1
    BY IsolateAssumption
  <1>1. /\ at \in Nat /\ log \in [Clients -> Seq(Nat)] /\ later \in [Clients -> SUBSET Clients]
        /\ \A x \in Clients : IsFiniteSet(later[x]) /\ NearlySorted(log[x], 0, at)
        /\ CallersTable(recent, later)
        /\ \A x \in Clients : Known(x) => Len(log[x]) > 0
        /\ \A x \in Clients : Covers(Times(x), Since(x), most, moment)
    BY DEF CallersInv
  <1>2. /\ recent' = Stored(k, kept)
        /\ log' = [log EXCEPT ![k] = calling]
        /\ later' = [x \in Clients |->
             IF x = k THEN (IF Len(Since(k)) = 0 THEN {} ELSE later[k])
             ELSE later[x] \cup {k}]
        /\ answered'.allowed = (MaxCalls = 0 \/ Len(times) <= MaxCalls)
        /\ answered'.calls = Cardinality({i \in DOMAIN calling : calling[i] > moment})
        /\ at' = at
    <2>1. MaxCalls # 0
      BY <1>0
    <2>2. /\ recent' = Stored(k, kept) /\ at' = at
          /\ log' = [log EXCEPT ![k] = calling]
          /\ later' = [x \in Clients |->
               IF x = k THEN (IF Len(Since(k)) = 0 THEN {} ELSE later[k])
               ELSE later[x] \cup {k}]
      BY <2>1 DEF Allow
    <2>3. answered' = [allowed |-> MaxCalls = 0 \/ Len(times) <= MaxCalls,
                       calls |-> Cardinality({i \in DOMAIN calling : calling[i] > moment})]
      BY DEF Allow
    <2> HIDE DEF times, calling, moment, kept
    <2> QED
      BY <2>2, <2>3
  <1>3. \A x \in Clients : Times(x) \in Seq(Nat)
    <2> SUFFICES ASSUME NEW x \in Clients, Known(x) PROVE Times(x) \in Seq(Nat)
      <3>1. <<>> \in Seq(Nat) /\ \A x \in Clients : ~Known(x) => Times(x) = <<>>
        BY DEF Times
      <3> QED
        BY <3>1
    <2>1. PICK i \in 1..Len(recent) : recent[i].key = x
      BY <1>1 DEF Known, CallersTable
    <2>2. recent[i] \in Callers /\ Of(recent, x) = recent[i]
      BY <1>1, <2>1, OfFacts DEF CallersTable
    <2>3. Times(x) = Of(recent, x).times
      BY DEF Times, Of
    <2> QED
      BY <2>2, <2>3 DEF Callers
  <1>4. \A x \in Clients : Since(x) \in Seq(Nat) /\ NearlySorted(Since(x), 0, at)
    BY <1>1 DEF Since, NearlySorted
  <1>5. moment \in Int /\ moment <= moment - 0 /\ at \in (at - 0)..at
    BY <1>0, <1>1
  <1>6. left = Above(Times(k), moment)
    BY DEF InWindow, Above
  <1> HIDE DEF moment, most, left
  <1>7. left \in Seq(Nat) /\ Covers(left, Since(k), most, moment)
    <2>1. Times(k) \in Seq(Nat) /\ NearlySorted(Since(k), 0, at)
          /\ Covers(Times(k), Since(k), most, moment)
      BY <1>1, <1>3, <1>4
    <2>2. Above(Times(k), moment) \in Seq(Nat)
      BY <1>5, <2>1, AboveFacts
    <2>3. Covers(Above(Times(k), moment), Since(k), most, moment)
      <3>1. 0 \in Nat
        OBVIOUS
      <3> QED
        BY <1>0, <1>1, <1>5, <2>1, <3>1, FilterCovers
    <2> QED
      BY <1>6, <2>2, <2>3
  <1>8. Covers(times, calling, most, moment)
    BY <1>0, <1>1, <1>4, <1>5, <1>7, AppendCovers
  <1>9. /\ times \in Seq(Nat) /\ Len(times) = Len(left) + 1 /\ Len(left) \in Nat
        /\ calling \in Seq(Nat) /\ Len(calling) > 0
        /\ NearlySorted(calling, 0, at)
    <2>1. times \in Seq(Nat) /\ Len(times) = Len(left) + 1 /\ Len(left) \in Nat
      BY <1>1, <1>7
    <2>2. calling \in Seq(Nat) /\ Len(calling) > 0
      BY <1>1, <1>4
    <2>3. NearlySorted(calling, 0, at)
      <3>1. 0 \in Nat
        OBVIOUS
      <3> QED
        BY <1>1, <1>4, <1>5, <3>1, SortedMore
    <2> QED
      BY <2>1, <2>2, <2>3
  <1>10. \A i \in 1..Len(times) : times[i] > moment
    <2>1. \A i \in 1..Len(left) : left[i] > moment
      BY <1>3, <1>5, <1>6, AboveIsAfter
    <2>2. at > moment
      BY <1>1, IsolateAssumption DEF moment
    <2>3. /\ \A i \in 1..Len(left) : times[i] = left[i]
          /\ times[Len(left) + 1] = at
      BY <1>7
    <2>4. \A i \in 1..Len(left) + 1 : i = Len(left) + 1 \/ i \in 1..Len(left)
      BY <1>9
    <2> QED
      BY <1>9, <2>1, <2>2, <2>3, <2>4
  <1> HIDE DEF times, calling
  <1>11. kept \in Seq(Nat) /\ Covers(kept, calling, most, moment)
    <2> DEFINE d == IF Len(times) > most THEN Len(times) - most ELSE 0
    <2>1. Max({1, Len(times) - MaxCalls}) = d + 1
      <3>1. 1 \in Int /\ Len(times) - MaxCalls \in Int
        BY <1>0, <1>9
      <3>2. Max({1, Len(times) - MaxCalls})
              = IF 1 <= Len(times) - MaxCalls THEN Len(times) - MaxCalls ELSE 1
        BY <3>1, MaxOfTwo
      <3> QED
        BY <1>0, <1>9, <3>2
    <2>2. kept = SubSeq(times, d + 1, Len(times))
      BY <2>1 DEF Kept
    <2>3. d = IF Len(times) > most THEN Len(times) - most ELSE 0
      OBVIOUS
    <2> HIDE DEF d
    <2>4. /\ SubSeq(times, d + 1, Len(times)) \in Seq(Nat)
          /\ Covers(SubSeq(times, d + 1, Len(times)), calling, most, moment)
      BY <1>0, <1>5, <1>8, <1>9, <2>3, SliceCovers
    <2> QED
      BY <2>2, <2>4
  <1> HIDE DEF kept
  <1>12. /\ later' \in [Clients -> SUBSET Clients]
         /\ \A x \in Clients : IsFiniteSet(later'[x])
         /\ \A x \in Clients : x # k => later[x] \cup {k} \subseteq later'[x]
         /\ Known(k) => later[k] \subseteq later'[k]
    <2>1. later' \in [Clients -> SUBSET Clients]
      BY <1>1, <1>2
    <2>2. \A x \in Clients : IsFiniteSet(later'[x])
      BY <1>1, <1>2, FS_EmptySet, FS_AddElement
    <2>3. Known(k) => Len(Since(k)) > 0
      BY <1>1 DEF Since, Forgotten
    <2>4. \A x \in Clients : x # k => later'[x] = later[x] \cup {k}
      BY <1>2
    <2>5. Known(k) => later'[k] = later[k]
      BY <1>2, <2>3
    <2> QED
      BY <2>1, <2>2, <2>4, <2>5
  <1>13. /\ CallersTable(recent', later')
         /\ Has(recent', k) /\ Of(recent', k).times = kept
         /\ \A x : x # k /\ Has(recent', x) => Has(recent, x) /\ Of(recent', x) = Of(recent, x)
         /\ \A x \in Clients : Has(recent, x) /\ ~Has(recent', x) =>
                                 Cardinality(later'[x]) >= Addresses
    <2>1. CASE Known(k)
      <3>1. \A x \in Clients : later[x] \subseteq later'[x]
        BY <1>12, <2>1
      <3>2. StoredAs(Stored(k, kept), k, kept, later')
        BY <1>1, <1>11, <2>1, <3>1, UpdatedFacts
      <3> QED
        BY <1>2, <3>2 DEF StoredAs
    <2>2. CASE ~Known(k)
      <3>1. StoredAs(Stored(k, kept), k, kept, later')
        BY <1>1, <1>11, <1>12, <2>2, NewCallerFacts
      <3> QED
        BY <1>2, <3>1 DEF StoredAs
    <2> QED
      BY <2>1, <2>2
  <1>14. \A x \in Clients : Known(x)' <=> Has(recent', x)
    BY DEF Known, Has
  <1>15. /\ log' \in [Clients -> Seq(Nat)] /\ log'[k] = calling
         /\ \A x \in Clients : x # k => log'[x] = log[x]
    BY <1>1, <1>2, <1>9
  <1>16. \A x \in Clients : Known(x)' => Len(log'[x]) > 0
    <2> SUFFICES ASSUME NEW x \in Clients, Has(recent', x) PROVE Len(log'[x]) > 0
      BY <1>14
    <2>1. CASE x = k
      BY <1>9, <1>15, <2>1
    <2>2. CASE x # k
      BY <1>1, <1>13, <1>15, <2>2, KnownIsHas
    <2> QED
      BY <2>1, <2>2
  <1>17. \A x \in Clients : NearlySorted(log'[x], 0, at)
    BY <1>1, <1>9, <1>15
  <1>18. ASSUME NEW x \in Clients
         PROVE  Covers(Times(x)', Since(x)', most, moment)
    <2>1. /\ Times(x)' = IF Has(recent', x) THEN Of(recent', x).times ELSE <<>>
          /\ Since(x)' = IF ~Has(recent', x) /\ Cardinality(later'[x]) >= Addresses
                         THEN <<>> ELSE log'[x]
          /\ Times(x) = IF Has(recent, x) THEN Of(recent, x).times ELSE <<>>
          /\ Since(x) = IF ~Has(recent, x) /\ Cardinality(later[x]) >= Addresses
                        THEN <<>> ELSE log[x]
      BY DEF Times, Since, Forgotten, Known, Has, Of
    <2>2. CASE x = k
      BY <1>11, <1>13, <1>15, <2>1, <2>2
    <2>3. CASE x # k /\ Has(recent', x)
      <3>1. Times(x)' = Times(x) /\ Since(x)' = Since(x)
        BY <1>13, <1>15, <2>1, <2>3
      <3> QED
        BY <1>1, <3>1
    <2>4. CASE x # k /\ ~Has(recent', x) /\ Cardinality(later'[x]) >= Addresses
      <3>1. Times(x)' = <<>> /\ Since(x)' = <<>>
        BY <2>1, <2>4
      <3>2. \A i \in 1..Len(<<>>) : <<>>[i] <= moment
        OBVIOUS
      <3>3. <<>> \in Seq(Nat)
        OBVIOUS
      <3> QED
        BY <1>0, <1>5, <3>1, <3>2, <3>3, NoneOwed
    <2>5. CASE x # k /\ ~Has(recent', x) /\ ~(Cardinality(later'[x]) >= Addresses)
      <3>1. ~Has(recent, x)
        BY <1>13, <2>5
      <3>2. ~(Cardinality(later[x]) >= Addresses)
        <4>1. later[x] \in SUBSET later'[x] /\ IsFiniteSet(later'[x])
          BY <1>12, <2>5
        <4>2. Cardinality(later[x]) <= Cardinality(later'[x])
          BY <4>1, FS_Subset
        <4>3. Cardinality(later[x]) \in Nat /\ Cardinality(later'[x]) \in Nat
          BY <1>1, <1>12, FS_CardinalityType
        <4> QED
          BY <1>0, <2>5, <4>2, <4>3
      <3>3. Times(x)' = Times(x) /\ Since(x)' = Since(x)
        BY <1>15, <2>1, <2>5, <3>1, <3>2
      <3> QED
        BY <1>1, <3>3
    <2> QED
      BY <2>2, <2>3, <2>4, <2>5
  <1>19. answered'.allowed <=> answered'.calls <= MaxCalls
    <2> DEFINE after == {i \in DOMAIN calling : calling[i] > moment}
    <2>1. IsFiniteSet(after) /\ (Len(times) >= most \/ Cardinality(after) <= Len(times))
      BY <1>0, <1>5, <1>8, <1>9, CoverCount
    <2>2. Len(times) <= Cardinality(after)
      BY <1>5, <1>8, <1>9, <1>10, LateCount
    <2>3. Cardinality(after) \in Nat
      BY <2>1, FS_CardinalityType
    <2>4. answered'.calls = Cardinality(after)
      BY <1>2
    <2> HIDE DEF after
    <2>5. Len(times) <= MaxCalls <=> Cardinality(after) <= MaxCalls
      BY <1>0, <1>9, <2>1, <2>2, <2>3
    <2>6. MaxCalls # 0
      BY <1>0
    <2> QED
      BY <1>2, <2>4, <2>5, <2>6
  <1> QED
    <2>1. at' - Window = moment
      BY <1>2 DEF moment
    <2> QED
      BY <1>1, <1>2, <1>12, <1>13, <1>15, <1>16, <1>17, <1>18, <1>19, <2>1 DEF CallersInv, most

---------------------------------------------------------------------------
(* PythonStore: the three tables of the Python store                       *)

StoreTable(l, T, others) ==
  /\ l \in Seq(T) /\ Len(l) <= StoreKeys
  /\ Distinct(l, KeyOf(T)) /\ InOrder(l, KeyOf(T), others)
  /\ \A e \in T : e.key \in Sids

\* pop() and MakeRoom() use the operators of the instance's own modules.
LEMMA SameStoreOperators ==
  /\ \A k : (PyStore!Stored(k) <=> Has(table, k)) /\ PyStore!At(k) = Of(table, k)
  /\ \A S : PyStore!Max(S) = Max(S)
  /\ \A S : PyStore!Min(S) = Min(S)
  /\ \A S : PyStore!Cardinality(S) = Cardinality(S)
  <1>1. \A k : (PyStore!Stored(k) <=> Has(table, k)) /\ PyStore!At(k) = Of(table, k)
    BY DEF PyStore!Stored, PyStore!At, Has, Of
  <1>2. \A S : PyStore!Max(S) = Max(S) /\ PyStore!Min(S) = Min(S)
    BY DEF PyStore!Max, PyStore!Min, Max, Min
  <1>3. \A S : PyStore!Cardinality(S) = Cardinality(S)
    BY DEF PyStore!Cardinality, Cardinality
  <1> QED
    BY <1>1, <1>2, <1>3

PoppedAs(m, k, T) ==
  /\ StoreTable(m, T, since) /\ ~Has(m, k)
  /\ Has(table, k) => Len(m) = Len(table) - 1
  /\ \A x : x # k => (Has(m, x) <=> Has(table, x))
  /\ \A x : Has(m, x) => Of(m, x) = Of(table, x)

LEMMA PopFacts ==
  ASSUME NEW T, StoreTable(table, T, since), NEW k
  PROVE  PoppedAs(PyStore!Popped(k), k, T)
  <1> DEFINE m == PyStore!Popped(k)
             K == KeyOf(T)
             p == CHOOSE j \in DOMAIN table : table[j].key = k
  <1>1. /\ table \in Seq(T) /\ Len(table) \in Nat /\ Len(table) <= StoreKeys
        /\ Distinct(table, K) /\ InOrder(table, K, since)
        /\ DOMAIN table = 1..Len(table) /\ \A e \in T : e.key \in Sids
    BY DEF StoreTable
  <1>2. CASE ~Has(table, k)
    <2>1. m = table
      BY <1>2, SameStoreOperators DEF PyStore!Popped
    <2> QED
      BY <1>2, <2>1 DEF PoppedAs
  <1>3. CASE Has(table, k)
    <2>1. p \in 1..Len(table) /\ table[p].key = k
      BY <1>1, <1>3 DEF Has
    <2>2. m = Without1(table, p)
      BY <1>3, SameStoreOperators DEF PyStore!Popped, Without1
    <2> HIDE DEF p, m
    <2>3. /\ m \in Seq(T) /\ Len(m) = Len(table) - 1
          /\ Distinct(m, K) /\ InOrder(m, K, since)
          /\ \A i \in 1..Len(m) : K[m[i]] # K[table[p]] /\ \E j \in 1..Len(table) : m[i] = table[j]
          /\ \A j \in 1..Len(table) : j # p => \E i \in 1..Len(m) : m[i] = table[j]
      <3>1. K \in [T -> {x.key : x \in T}]
        BY DEF KeyOf
      <3>2. Distinct(table, K) /\ InOrder(table, K, since)
        BY <1>1
      <3> HIDE DEF K
      <3>3. RemovedAs(m, table, p, T, K, since)
        BY <1>1, <2>1, <2>2, <3>1, <3>2, RemoveFacts
      <3> QED
        BY <3>3 DEF RemovedAs
    <2>4. /\ DOMAIN m = 1..Len(m) /\ \A e \in T : K[e] = e.key
          /\ \A i \in 1..Len(m) : m[i] \in T
          /\ \A i \in 1..Len(table) : table[i] \in T
      BY <1>1, <2>3 DEF KeyOf
    <2>5. ~Has(m, k)
      BY <2>1, <2>3, <2>4, SMTT(30) DEF Has
    <2>6. ASSUME NEW x, Has(m, x)
          PROVE  Has(table, x) /\ Of(m, x) = Of(table, x)
      <3>1. PICK i \in 1..Len(m) : m[i].key = x
        BY <2>4, <2>6 DEF Has
      <3>2. PICK j \in 1..Len(table) : m[i] = table[j]
        BY <2>3
      <3>3. Of(m, x) = m[i]
        BY <2>3, <3>1, OfFacts
      <3>4. Has(table, x) /\ Of(table, x) = table[j]
        BY <1>1, <3>1, <3>2, OfFacts
      <3> QED
        BY <3>2, <3>3, <3>4
    <2>7. ASSUME NEW x, x # k, Has(table, x)
          PROVE  Has(m, x)
      <3>1. PICK j \in 1..Len(table) : table[j].key = x
        BY <1>1, <2>7 DEF Has
      <3>2. PICK i \in 1..Len(m) : m[i] = table[j]
        BY <2>1, <2>3, <2>7, <3>1
      <3> QED
        BY <2>4, <3>1, <3>2 DEF Has
    <2>8. StoreTable(m, T, since)
      <3>1. StoreKeys \in Nat
        BY SharedTablesAssumption DEF PyStore!PythonStoreAssumption
      <3> QED
        BY <1>1, <2>3, <3>1 DEF StoreTable
    <2> QED
      BY <2>3, <2>5, <2>6, <2>7, <2>8 DEF PoppedAs, m
  <1> QED
    BY <1>2, <1>3

\* A few expired entries leave the front, then the oldest beyond the cap.
LEMMA MakeRoomFacts ==
  ASSUME NEW T, NEW m \in Seq(T), NEW stamp
  PROVE  \E d \in 0..Len(m) :
           /\ PyStore!MakeRoom(m, stamp) = SubSeq(m, d + 1, Len(m))
           /\ Len(m) - d + 1 <= StoreKeys
           /\ \A i \in 1..d : PyStore!Expired(m[i], stamp) \/ Len(m) - i >= StoreKeys - 1
  <1> DEFINE n == Len(m)
             X == {i \in 1..n : PyStore!Expired(m[i], stamp)}
             b == Min({MaxDrops, n})
             D1 == {j \in 0..b : \A i \in 1..j : PyStore!Expired(m[i], stamp)}
             D2 == {j \in 0..b : \A i \in 1..j : i \in X}
             d == Max(D2) + Max({0, n - Max(D2) - StoreKeys + 1})
  <1>0. MaxDrops \in Nat /\ StoreKeys \in Nat \ {0}
    BY SharedTablesAssumption DEF PyStore!PythonStoreAssumption
  <1>1. n \in Nat
    OBVIOUS
  <1>2. D1 = D2
    <2>1. b \in 0..n
      BY <1>0, <1>1, MinOfTwo
    <2> HIDE DEF b, n
    <2>2. \A j \in 0..b : \A i \in 1..j : i \in 1..n
      BY <1>1, <2>1
    <2>3. \A j \in 0..b : (\A i \in 1..j : PyStore!Expired(m[i], stamp))
                            <=> (\A i \in 1..j : i \in X)
      BY <2>2
    <2> QED
      BY <2>3
  <1>3. PyStore!MakeRoom(m, stamp)
          = SubSeq(m, Max(D1) + Max({0, n - Max(D1) - StoreKeys + 1}) + 1, n)
    BY SameStoreOperators DEF PyStore!MakeRoom
  <1>4. PyStore!MakeRoom(m, stamp) = SubSeq(m, d + 1, n)
    BY <1>2, <1>3
  <1> HIDE DEF X, n
  <1>5. /\ d \in 0..n /\ n - d <= StoreKeys - 1
        /\ \A i \in 1..d : i \in X \/ n - i >= StoreKeys - 1
    BY <1>0, <1>1, RoomFacts
  <1> HIDE DEF d
  <1>6. n - d + 1 <= StoreKeys
    BY <1>0, <1>1, <1>5
  <1>7. \A i \in 1..d : PyStore!Expired(m[i], stamp) \/ n - i >= StoreKeys - 1
    BY <1>5 DEF X
  <1> QED
    BY <1>4, <1>5, <1>6, <1>7 DEF n

\* An entry comes last; what others left is expired or crowded out.
InsertedAs(out, e, stamp, T, grown) ==
  /\ StoreTable(out, T, grown)
  /\ Has(out, e.key) /\ Of(out, e.key) = e
  /\ \A x : x # e.key /\ Has(out, x) => Has(table, x) /\ Of(out, x) = Of(table, x)
  /\ \A x : x # e.key /\ Has(table, x) /\ ~Has(out, x) =>
              \/ PyStore!Expired(Of(table, x), stamp)
              \/ Cardinality(grown[x]) >= StoreKeys

GrownBy(k, grown) ==
  /\ grown \in [Sids -> SUBSET Sids] /\ \A x \in Sids : IsFiniteSet(grown[x])
  /\ \A x \in Sids : x # k => since[x] \cup {k} \subseteq grown[x]

LEMMA InsertFacts ==
  ASSUME NEW T, StoreTable(table, T, since), NEW e \in T, NEW stamp,
         NEW grown, GrownBy(e.key, grown)
  PROVE  InsertedAs(Append(PyStore!MakeRoom(PyStore!Popped(e.key), stamp), e),
                    e, stamp, T, grown)
  <1> DEFINE m == PyStore!Popped(e.key)
  <1>0. StoreKeys \in Nat \ {0}
    BY SharedTablesAssumption DEF PyStore!PythonStoreAssumption
  <1>1. PoppedAs(m, e.key, T)
    BY PopFacts
  <1> HIDE DEF m
  <1>2. /\ m \in Seq(T) /\ Distinct(m, KeyOf(T)) /\ InOrder(m, KeyOf(T), since)
        /\ ~Has(m, e.key) /\ \A y \in T : y.key \in Sids
        /\ \A x : x # e.key => (Has(m, x) <=> Has(table, x))
        /\ \A x : Has(m, x) => Of(m, x) = Of(table, x)
    BY <1>1 DEF PoppedAs, StoreTable
  <1>3. KeyComesLast(m, e, since, grown)
    <2>1. \A i \in 1..Len(m) : m[i].key # e.key /\ m[i].key \in Sids
      BY <1>2 DEF Has
    <2> QED
      BY <2>1 DEF KeyComesLast, GrownBy
  <1>4. PICK d \in 0..Len(m) :
          /\ PyStore!MakeRoom(m, stamp) = SubSeq(m, d + 1, Len(m))
          /\ Len(m) - d + 1 <= StoreKeys
          /\ \A i \in 1..d : PyStore!Expired(m[i], stamp) \/ Len(m) - i >= StoreKeys - 1
    BY <1>2, MakeRoomFacts
  <1> DEFINE out == Added(m, d, e)
  <1>5. Append(PyStore!MakeRoom(m, stamp), e) = out
    BY <1>4 DEF Added
  <1>6. AddedAs(out, m, d, e, T, grown)
    BY <1>2, <1>3, AddedFacts
  <1>7. out \in Seq(T) /\ Len(out) = Len(m) - d + 1
    BY <1>2, AddedEntries
  <1> HIDE DEF out
  <1>8. StoreTable(out, T, grown)
    BY <1>2, <1>4, <1>6, <1>7 DEF StoreTable, AddedAs
  <1>9. ASSUME NEW x, x # e.key, Has(table, x), ~Has(out, x)
        PROVE  \/ PyStore!Expired(Of(table, x), stamp)
               \/ Cardinality(grown[x]) >= StoreKeys
    <2>1. PICK i \in 1..d : m[i].key = x /\ Of(m, x) = m[i]
      BY <1>2, <1>6, <1>9 DEF AddedAs
    <2>2. i \in 1..Len(m) /\ Has(m, x)
      BY <1>2, <1>4, <1>9, <2>1
    <2>3. CASE PyStore!Expired(m[i], stamp)
      BY <1>2, <2>1, <2>2, <2>3
    <2>4. CASE Len(m) - i >= StoreKeys - 1
      <3>1. m[i].key \in Sids
        BY <1>2, <2>2
      <3>2. IsFiniteSet(grown[m[i].key])
        BY <3>1 DEF GrownBy
      <3>3. Cardinality(grown[m[i].key]) >= StoreKeys
        BY <1>0, <1>2, <1>3, <2>2, <2>4, <3>2, CrowdedKey
      <3> QED
        BY <2>1, <3>3
    <2> QED
      BY <1>4, <2>1, <2>3, <2>4
  <1> QED
    <2>1. InsertedAs(out, e, stamp, T, grown)
      BY <1>2, <1>6, <1>8, <1>9 DEF InsertedAs, AddedAs
    <2> QED
      BY <1>5, <2>1 DEF m

\* move_to_end()
LEMMA MovedFacts ==
  ASSUME NEW T, StoreTable(table, T, since), NEW k, Has(table, k), NEW stamp,
         NEW grown, GrownBy(k, grown)
  PROVE  /\ Of(table, k) \in T /\ Of(table, k).key = k
         /\ InsertedAs(Append(PyStore!Popped(k), PyStore!At(k)),
                       Of(table, k), stamp, T, grown)
  <1> DEFINE m == PyStore!Popped(k)
             e == Of(table, k)
  <1>1. e \in T /\ e.key = k
    <2>1. PICK i \in 1..Len(table) : table[i].key = k
      BY DEF Has, StoreTable
    <2>2. e = table[i]
      BY <2>1, OfFacts DEF StoreTable
    <2> QED
      BY <2>1, <2>2 DEF StoreTable
  <1>2. PoppedAs(m, k, T)
    BY PopFacts
  <1>3. PyStore!At(k) = e
    BY SameStoreOperators
  <1> HIDE DEF m, e
  <1>4. /\ m \in Seq(T) /\ Distinct(m, KeyOf(T)) /\ InOrder(m, KeyOf(T), since)
        /\ ~Has(m, k) /\ \A y \in T : y.key \in Sids
        /\ \A x : x # k => (Has(m, x) <=> Has(table, x))
        /\ \A x : Has(m, x) => Of(m, x) = Of(table, x)
        /\ Len(m) = Len(table) - 1 /\ Len(table) <= StoreKeys /\ Len(table) \in Nat
    BY <1>2 DEF PoppedAs, StoreTable
  <1>5. KeyComesLast(m, e, since, grown)
    <2>1. \A i \in 1..Len(m) : m[i].key # k /\ m[i].key \in Sids
      BY <1>4 DEF Has
    <2> QED
      BY <1>1, <2>1 DEF KeyComesLast, GrownBy
  <1> DEFINE out == Added(m, 0, e)
  <1>6. 0 \in 0..Len(m) /\ Len(m) \in Nat
    BY <1>4
  <1>7. Append(m, e) = out
    <2>1. m = SubSeq(m, 1, Len(m))
      BY <1>4, AllIsRest
    <2> QED
      BY <2>1 DEF Added
  <1>8. AddedAs(out, m, 0, e, T, grown)
    BY <1>1, <1>4, <1>5, <1>6, AddedFacts
  <1>9. out \in Seq(T) /\ Len(out) = Len(m) - 0 + 1
    BY <1>1, <1>4, <1>6, AddedEntries
  <1> HIDE DEF out
  <1>10. Len(out) <= StoreKeys
    BY <1>4, <1>9
  <1> QED
    <2>1. InsertedAs(out, e, stamp, T, grown)
      BY <1>1, <1>4, <1>8, <1>9, <1>10 DEF InsertedAs, AddedAs, StoreTable
    <2> QED
      BY <1>1, <1>3, <1>7, <2>1 DEF m, e

\* What is owed to a key, as Owed().
OwedIn(l, others, logs, k) ==
  IF Cardinality(others[k]) >= StoreKeys /\ ~Has(l, k) THEN <<>> ELSE logs[k]

LEMMA OwedIsOwedIn ==
  /\ \A k : PyStore!Owed(k) = OwedIn(table, since, storeLog, k)
  /\ \A k : PyStore!Owed(k)' = OwedIn(table', since', storeLog', k)
  <1>1. \A k : PyStore!Owed(k) = OwedIn(table, since, storeLog, k)
    <2>1. \A k : PyStore!Crowded(k) <=> Cardinality(since[k]) >= StoreKeys
      BY SameStoreOperators DEF PyStore!Crowded
    <2>2. \A k : PyStore!Owed(k) = IF PyStore!Crowded(k) /\ ~PyStore!Stored(k)
                                   THEN <<>> ELSE storeLog[k]
      BY DEF PyStore!Owed
    <2> QED
      BY <2>1, <2>2, SameStoreOperators DEF OwedIn
  <1>2. \A k : PyStore!Owed(k)' = OwedIn(table', since', storeLog', k)
    <2>1. \A k : PyStore!Crowded(k)' <=> PyStore!Cardinality(since'[k]) >= StoreKeys
      BY DEF PyStore!Crowded
    <2>2. \A k : PyStore!Owed(k)' = IF PyStore!Crowded(k)' /\ ~PyStore!Stored(k)'
                                    THEN <<>> ELSE storeLog'[k]
      BY DEF PyStore!Owed
    <2>3. \A k : PyStore!Stored(k)' <=> Has(table', k)
      BY DEF PyStore!Stored, Has
    <2> QED
      BY <2>1, <2>2, <2>3, SameStoreOperators DEF OwedIn
  <1> QED
    BY <1>1, <1>2

\* What becomes of the other keys when one is written.
OthersOwed(l, e, stamp, grown, logs, x) ==
  \/ /\ Has(l, x) /\ Has(table, x) /\ Of(l, x) = Of(table, x)
     /\ OwedIn(l, grown, logs, x) = storeLog[x]
     /\ OwedIn(table, since, storeLog, x) = storeLog[x]
  \/ ~Has(l, x) /\ OwedIn(l, grown, logs, x) = <<>>
  \/ /\ ~Has(l, x)
     /\ OwedIn(l, grown, logs, x) = storeLog[x]
     /\ OwedIn(table, since, storeLog, x) = storeLog[x]
     /\ Has(table, x) => PyStore!Expired(Of(table, x), stamp)

LEMMA OthersFacts ==
  ASSUME NEW T, NEW e, NEW stamp, NEW grown, NEW l, NEW logs,
         since \in [Sids -> SUBSET Sids],
         InsertedAs(l, e, stamp, T, grown), GrownBy(e.key, grown),
         NEW x \in Sids, x # e.key, logs[x] = storeLog[x]
  PROVE  OthersOwed(l, e, stamp, grown, logs, x)
  <1>0. StoreKeys \in Nat
    BY SharedTablesAssumption DEF PyStore!PythonStoreAssumption
  <1>1. /\ Has(l, x) => Has(table, x) /\ Of(l, x) = Of(table, x)
        /\ Has(table, x) /\ ~Has(l, x) =>
             \/ PyStore!Expired(Of(table, x), stamp)
             \/ Cardinality(grown[x]) >= StoreKeys
    BY DEF InsertedAs
  <1>2. Cardinality(since[x]) >= StoreKeys => Cardinality(grown[x]) >= StoreKeys
    <2>1. since[x] \in SUBSET grown[x] /\ IsFiniteSet(grown[x])
      BY DEF GrownBy
    <2>2. IsFiniteSet(since[x]) /\ Cardinality(since[x]) <= Cardinality(grown[x])
      BY <2>1, FS_Subset
    <2>3. Cardinality(since[x]) \in Nat /\ Cardinality(grown[x]) \in Nat
      BY <2>1, <2>2, FS_CardinalityType
    <2> QED
      BY <1>0, <2>2, <2>3
  <1>3. CASE Has(l, x)
    BY <1>1, <1>3 DEF OthersOwed, OwedIn
  <1>4. CASE ~Has(l, x) /\ Cardinality(grown[x]) >= StoreKeys
    BY <1>4 DEF OthersOwed, OwedIn
  <1>5. CASE ~Has(l, x) /\ ~(Cardinality(grown[x]) >= StoreKeys)
    BY <1>1, <1>2, <1>5 DEF OthersOwed, OwedIn
  <1> QED
    BY <1>3, <1>4, <1>5

\* What threads do, and when they read the clock.
CallOK(c, t) ==
  \/ c = PyStore!Idle
  \/ /\ c.key \in Sids /\ c.stamp \in Nat /\ c.stamp \in (t - MaxWait)..t
     /\ kind = "values" => c.value \in Contents

StoreBase ==
  /\ storeNow \in Nat /\ kind \in {"once", "windows", "values"}
  /\ since \in [Sids -> SUBSET Sids] /\ \A k \in Sids : IsFiniteSet(since[k])
  /\ DOMAIN calls = Instances /\ \A t \in Instances : CallOK(calls[t], storeNow)
  /\ answer.got \in answer.allowed

\* Claims won are over, or recorded.
Claimings == [key : Sids, until : Nat]
OnceInv ==
  /\ StoreTable(table, Claimings, since) /\ storeLog \in [Sids -> Seq(Nat)]
  /\ \A k \in Sids : \A i \in 1..Len(OwedIn(table, since, storeLog, k)) :
       \/ storeLog[k][i] + StoreTtl <= storeNow
       \/ Has(table, k) /\ storeLog[k][i] + StoreTtl <= Of(table, k).until
  /\ \A k \in Sids : Has(table, k) =>
       \E i \in 1..Len(storeLog[k]) : Of(table, k).until = storeLog[k][i] + StoreTtl

\* A window has the hits that are owed, and the latest one in any case.
Counters == [key : Sids, hits : Seq(Nat)]
HitsIn(l, k) == IF Has(l, k) THEN Of(l, k).hits ELSE <<>>
LatestIn(hits, calling) ==
  /\ Len(hits) > 0 /\ Len(calling) > 0
  /\ hits[Len(hits)] = calling[Len(calling)]
WindowsInv ==
  /\ StoreTable(table, Counters, since) /\ storeLog \in [Sids -> Seq(Nat)]
  /\ \A k \in Sids : NearlySorted(storeLog[k], MaxWait, storeNow)
  /\ \A k \in Sids : Covers(HitsIn(table, k), OwedIn(table, since, storeLog, k),
                            MaxHits, storeNow - StoreSpan + MaxWait)
  /\ \A k \in Sids : Has(table, k) => LatestIn(Of(table, k).hits, storeLog[k])

\* The value set last is recorded, or has expired.
Entries == [key : Sids, until : Nat, value : Contents]
LastIs(written, e) ==
  Len(written) > 0 /\ written[Len(written)] = [value |-> e.value, until |-> e.until]
ValuesInv ==
  /\ StoreTable(table, Entries, since)
  /\ storeLog \in [Sids -> Seq([value : Contents, until : Nat])]
  /\ \A k \in Sids : Has(table, k) => LastIs(storeLog[k], Of(table, k))
  /\ \A k \in Sids : ~Has(table, k) =>
       LET owed == OwedIn(table, since, storeLog, k)
       IN  owed = <<>> \/ owed[Len(owed)].until <= storeNow

StoreInv ==
  /\ StoreBase
  /\ kind = "once" => OnceInv
  /\ kind = "windows" => WindowsInv
  /\ kind = "values" => ValuesInv

LEMMA StoreInitInv == PyStore!PythonInit => StoreInv
  <1> SUFFICES ASSUME PyStore!PythonInit PROVE StoreInv
    OBVIOUS
  <1>0. /\ StoreKeys \in Nat /\ MaxHits \in Nat \ {0}
        /\ MaxWait \in Nat /\ StoreSpan \in Nat
    BY SharedTablesAssumption DEF PyStore!PythonStoreAssumption
  <1>1. /\ storeNow = 1 /\ kind \in {"once", "windows", "values"} /\ table = <<>>
        /\ calls = [t \in Instances |-> PyStore!Idle]
        /\ answer = [got |-> None, allowed |-> {None}]
        /\ storeLog = [k \in Sids |-> <<>>] /\ since = [k \in Sids |-> {}]
    BY DEF PyStore!PythonInit
  <1>2. StoreBase
    BY <1>1, FS_EmptySet DEF StoreBase, CallOK
  <1>3. /\ StoreTable(table, Claimings, since) /\ StoreTable(table, Counters, since)
        /\ StoreTable(table, Entries, since)
    <2>1. \A T : (\A e \in T : e.key \in Sids) => StoreTable(table, T, since)
      BY <1>0, <1>1 DEF StoreTable, Distinct, InOrder
    <2>2. /\ \A e \in Claimings : e.key \in Sids
          /\ \A e \in Counters : e.key \in Sids
          /\ \A e \in Entries : e.key \in Sids
      BY DEF Claimings, Counters, Entries
    <2> QED
      BY <2>1, <2>2
  <1>4. \A k \in Sids : ~Has(table, k) /\ OwedIn(table, since, storeLog, k) = <<>>
    BY <1>1 DEF Has, OwedIn
  <1>5. OnceInv
    <2>1. storeLog \in [Sids -> Seq(Nat)]
      BY <1>1
    <2>2. \A k \in Sids : 1..Len(OwedIn(table, since, storeLog, k)) = {}
      BY <1>4
    <2> QED
      BY <1>3, <1>4, <2>1, <2>2 DEF OnceInv
  <1>6. ValuesInv
    <2>1. storeLog \in [Sids -> Seq([value : Contents, until : Nat])]
      BY <1>1
    <2> QED
      BY <1>3, <1>4, <2>1 DEF ValuesInv
  <1>7. WindowsInv
    <2>1. storeNow - StoreSpan + MaxWait \in Int /\ <<>> \in Seq(Nat)
      BY <1>0, <1>1
    <2>2. \A i \in 1..Len(<<>>) : <<>>[i] <= storeNow - StoreSpan + MaxWait
      OBVIOUS
    <2>3. Covers(<<>>, <<>>, MaxHits, storeNow - StoreSpan + MaxWait)
      BY <1>0, <2>1, <2>2, NoneOwed
    <2>4. \A k \in Sids : NearlySorted(storeLog[k], MaxWait, storeNow)
      BY <1>1 DEF NearlySorted
    <2> QED
      <3>1. storeLog \in [Sids -> Seq(Nat)]
        BY <1>1
      <3>2. \A k \in Sids : HitsIn(table, k) = <<>>
        BY <1>4 DEF HitsIn
      <3>3. \A k \in Sids : Covers(HitsIn(table, k), OwedIn(table, since, storeLog, k),
                                   MaxHits, storeNow - StoreSpan + MaxWait)
        BY <1>4, <2>3, <3>2
      <3> QED
        BY <1>3, <1>4, <2>4, <3>1, <3>3 DEF WindowsInv
  <1> QED
    BY <1>2, <1>5, <1>6, <1>7 DEF StoreInv

\* What an execution does besides the table.
ExecutedAs(k, stamp, logged) ==
  /\ k \in Sids /\ stamp \in Nat /\ stamp \in (storeNow - MaxWait)..storeNow
  /\ StoreBase' /\ GrownBy(k, since') /\ since'[k] = {}
  /\ storeNow' = storeNow /\ kind' = kind
  /\ storeLog' = [storeLog EXCEPT ![k] = OwedIn(table, since, storeLog, k) \o logged]

LEMMA ExecutedFacts ==
  ASSUME StoreBase, NEW t \in Instances, calls[t] # PyStore!Idle,
         NEW got, NEW allowed, NEW logged, got \in allowed,
         PyStore!Executed(t, got, allowed, logged)
  PROVE  ExecutedAs(calls[t].key, calls[t].stamp, logged)
  <1> DEFINE k == calls[t].key
             stamp == calls[t].stamp
  <1>1. /\ storeNow \in Nat /\ kind \in {"once", "windows", "values"}
        /\ since \in [Sids -> SUBSET Sids] /\ \A x \in Sids : IsFiniteSet(since[x])
        /\ DOMAIN calls = Instances /\ \A x \in Instances : CallOK(calls[x], storeNow)
    BY DEF StoreBase
  <1>2. k \in Sids /\ stamp \in Nat /\ stamp \in (storeNow - MaxWait)..storeNow
    BY <1>1 DEF CallOK
  <1>3. /\ answer' = [got |-> got, allowed |-> allowed]
        /\ storeLog' = [storeLog EXCEPT ![k] = PyStore!Owed(k) \o logged]
        /\ since' = [x \in Sids |-> IF x = k THEN {} ELSE since[x] \cup {k}]
        /\ calls' = [calls EXCEPT ![t] = PyStore!Idle]
        /\ storeNow' = storeNow /\ kind' = kind
    BY DEF PyStore!Executed
  <1> HIDE DEF k, stamp
  <1>4. GrownBy(k, since') /\ since'[k] = {}
    <2>1. since' \in [Sids -> SUBSET Sids]
      BY <1>1, <1>2, <1>3
    <2>2. \A x \in Sids : IsFiniteSet(since'[x])
      BY <1>1, <1>3, FS_EmptySet, FS_AddElement
    <2> QED
      BY <1>2, <1>3, <2>1, <2>2 DEF GrownBy
  <1>5. DOMAIN calls' = Instances /\ \A x \in Instances : CallOK(calls[x], storeNow)'
    <2>1. \A x \in Instances : calls'[x] = calls[x] \/ calls'[x] = PyStore!Idle
      BY <1>1, <1>3
    <2>2. ASSUME NEW x \in Instances PROVE CallOK(calls[x], storeNow)'
      <3>1. CASE calls'[x] = calls[x]
        BY <1>1, <1>3, <3>1 DEF CallOK
      <3>2. CASE calls'[x] = PyStore!Idle
        BY <3>2 DEF CallOK, PyStore!Idle
      <3> QED
        BY <2>1, <3>1, <3>2
    <2> QED
      BY <1>1, <1>3, <2>2
  <1>6. StoreBase'
    BY <1>1, <1>3, <1>4, <1>5 DEF StoreBase, GrownBy
  <1>7. storeLog' = [storeLog EXCEPT ![k] = OwedIn(table, since, storeLog, k) \o logged]
    BY <1>3, OwedIsOwedIn
  <1> QED
    BY <1>2, <1>3, <1>4, <1>6, <1>7 DEF ExecutedAs, k, stamp

\* A call only reads the clock.
LEMMA CallKeeps ==
  ASSUME StoreInv, NEW t \in Instances, NEW k \in Sids,
         NEW value \in Contents \cup {None}, PyStore!Call(t, k, value)
  PROVE  StoreInv'
  <1>1. /\ calls' = [calls EXCEPT ![t] = [key |-> k, stamp |-> storeNow, value |-> value]]
        /\ UNCHANGED <<storeNow, kind, table, answer, storeLog, since>>
        /\ value \in IF kind = "values" THEN Contents ELSE {None}
    BY DEF PyStore!Call
  <1>2. StoreBase'
    <2>1. StoreBase /\ storeNow \in Nat /\ DOMAIN calls = Instances
          /\ \A x \in Instances : CallOK(calls[x], storeNow)
      BY DEF StoreInv, StoreBase
    <2>2. ASSUME NEW x \in Instances PROVE CallOK(calls'[x], storeNow')
      <3>1. CASE x # t
        BY <1>1, <2>1, <3>1 DEF CallOK
      <3>2. CASE x = t
        <4>1. calls'[x] = [key |-> k, stamp |-> storeNow, value |-> value]
          BY <1>1, <2>1, <3>2
        <4>2. MaxWait \in Nat
          BY SharedTablesAssumption DEF PyStore!PythonStoreAssumption
        <4>3. storeNow \in (storeNow - MaxWait)..storeNow
          BY <2>1, <4>2
        <4>4. calls'[x].key = k /\ calls'[x].stamp = storeNow /\ calls'[x].value = value
          BY <4>1
        <4> QED
          BY <1>1, <2>1, <4>3, <4>4 DEF CallOK
      <3> QED
        BY <3>1, <3>2
    <2>3. \A x \in Instances : CallOK(calls[x], storeNow)'
      BY <1>1, <2>2 DEF CallOK, PyStore!Idle
    <2> QED
      BY <1>1, <2>1, <2>3 DEF StoreBase
  <1>3. /\ OnceInv => OnceInv'
        /\ WindowsInv => WindowsInv'
        /\ ValuesInv => ValuesInv'
    BY <1>1 DEF OnceInv, WindowsInv, ValuesInv
  <1> QED
    BY <1>1, <1>2, <1>3 DEF StoreInv

\* The clock
LEMMA StoreTickKeeps ==
  ASSUME StoreInv, PyStore!PythonTick
  PROVE  StoreInv'
  <1>0. MaxWait \in Nat /\ StoreSpan \in Nat /\ StoreTtl \in Nat /\ MaxHits \in Nat \ {0}
    BY SharedTablesAssumption DEF PyStore!PythonStoreAssumption
  <1>1. /\ storeNow' = storeNow + 1 /\ storeNow \in Nat
        /\ UNCHANGED <<kind, table, calls, answer, storeLog, since>>
        /\ \A t \in Instances : calls[t] = PyStore!Idle \/ storeNow < calls[t].stamp + MaxWait
        /\ StoreBase
    BY DEF PyStore!PythonTick, StoreInv, StoreBase
  <1>2. StoreBase'
    <2>1. ASSUME NEW t \in Instances PROVE CallOK(calls[t], storeNow)'
      <3>1. CallOK(calls[t], storeNow)
        BY <1>1 DEF StoreBase
      <3>2. CASE calls[t] = PyStore!Idle
        BY <1>1, <3>2 DEF CallOK, PyStore!Idle
      <3>3. CASE calls[t] # PyStore!Idle
        <4>1. calls[t].stamp \in Nat /\ calls[t].stamp \in (storeNow - MaxWait)..storeNow
              /\ storeNow < calls[t].stamp + MaxWait
          BY <1>1, <3>1, <3>3 DEF CallOK
        <4>2. calls[t].stamp \in (storeNow' - MaxWait)..storeNow'
          BY <1>0, <1>1, <4>1
        <4> QED
          BY <1>1, <3>1, <3>3, <4>1, <4>2 DEF CallOK, PyStore!Idle
      <3> QED
        BY <3>2, <3>3
    <2> QED
      BY <1>1, <2>1 DEF StoreBase
  <1>4. ASSUME OnceInv PROVE OnceInv'
    <2>1. ASSUME NEW k \in Sids,
                 NEW i \in 1..Len(OwedIn(table, since, storeLog, k))
          PROVE  \/ storeLog[k][i] + StoreTtl <= storeNow + 1
                 \/ Has(table, k) /\ storeLog[k][i] + StoreTtl <= Of(table, k).until
      <3>1. storeLog[k] \in Seq(Nat) /\ i \in 1..Len(storeLog[k])
        BY <1>4 DEF OnceInv, OwedIn
      <3>2. storeLog[k][i] \in Nat
        BY <3>1
      <3>3. \/ storeLog[k][i] + StoreTtl <= storeNow
            \/ Has(table, k) /\ storeLog[k][i] + StoreTtl <= Of(table, k).until
        BY <1>4 DEF OnceInv
      <3>4. CASE storeLog[k][i] + StoreTtl <= storeNow
        BY <1>0, <1>1, <3>2, <3>4
      <3> QED
        BY <3>3, <3>4
    <2> QED
      BY <1>1, <1>4, <2>1 DEF OnceInv
  <1>5. ASSUME WindowsInv PROVE WindowsInv'
    <2>1. \A k \in Sids : NearlySorted(storeLog[k], MaxWait, storeNow)'
      <3>1. ASSUME NEW k \in Sids PROVE NearlySorted(storeLog[k], MaxWait, storeNow + 1)
        <4>1. NearlySorted(storeLog[k], MaxWait, storeNow)
          BY <1>5 DEF WindowsInv
        <4> QED
          BY <1>1, <4>1 DEF NearlySorted
      <3> QED
        BY <1>1, <3>1 DEF NearlySorted
    <2>2. ASSUME NEW k \in Sids
          PROVE  Covers(HitsIn(table, k), OwedIn(table, since, storeLog, k),
                        MaxHits, storeNow' - StoreSpan + MaxWait)
      <3>1. OwedIn(table, since, storeLog, k) \in Seq(Nat)
        BY <1>5 DEF WindowsInv, OwedIn
      <3>2. Covers(HitsIn(table, k), OwedIn(table, since, storeLog, k),
                   MaxHits, storeNow - StoreSpan + MaxWait)
        BY <1>5 DEF WindowsInv
      <3>3. /\ storeNow - StoreSpan + MaxWait \in Int
            /\ storeNow' - StoreSpan + MaxWait \in Int
            /\ storeNow - StoreSpan + MaxWait <= storeNow' - StoreSpan + MaxWait
        BY <1>0, <1>1
      <3> QED
        BY <3>1, <3>2, <3>3, RaiseCovers
    <2>3. \A k \in Sids : Covers(HitsIn(table, k), OwedIn(table, since, storeLog, k),
                                 MaxHits, storeNow - StoreSpan + MaxWait)'
      BY <1>1, <2>2
    <2> QED
      BY <1>1, <1>5, <2>1, <2>3 DEF WindowsInv
  <1>6. ASSUME ValuesInv PROVE ValuesInv'
    <2>1. ASSUME NEW k \in Sids, ~Has(table, k),
                 OwedIn(table, since, storeLog, k) # <<>>
          PROVE  storeLog[k][Len(storeLog[k])].until <= storeNow + 1
      <3>1. OwedIn(table, since, storeLog, k) = storeLog[k] /\ storeLog[k] # <<>>
        BY <2>1 DEF OwedIn
      <3>2. storeLog[k] \in Seq([value : Contents, until : Nat])
        BY <1>6 DEF ValuesInv
      <3>3. storeLog[k][Len(storeLog[k])].until \in Nat
        <4>1. ASSUME NEW T, NEW l \in Seq(T), l # <<>> PROVE l[Len(l)] \in T
          BY <4>1
        <4>2. storeLog[k][Len(storeLog[k])] \in [value : Contents, until : Nat]
          BY <3>1, <3>2, <4>1
        <4> QED
          BY <4>2
      <3>4. storeLog[k][Len(storeLog[k])].until <= storeNow
        BY <1>6, <2>1, <3>1 DEF ValuesInv
      <3> QED
        BY <1>1, <3>3, <3>4
    <2>2. \A k \in Sids : OwedIn(table, since, storeLog, k) # <<>> =>
                            OwedIn(table, since, storeLog, k) = storeLog[k]
      BY DEF OwedIn
    <2> QED
      BY <1>1, <1>6, <2>1, <2>2 DEF ValuesInv
  <1> QED
    BY <1>1, <1>2, <1>4, <1>5, <1>6 DEF StoreInv

ClaimFor(claims, until) ==
  /\ \A i \in 1..Len(claims) :
       claims[i] + StoreTtl <= storeNow \/ claims[i] + StoreTtl <= until
  /\ \E i \in 1..Len(claims) : until = claims[i] + StoreTtl

\* The claims in memory after a write, once they are right for its key.
LEMMA OnceKeeps ==
  ASSUME StoreBase, kind = "once", OnceInv,
         NEW k, NEW stamp, NEW logged, ExecutedAs(k, stamp, logged),
         NEW e \in Claimings, e.key = k, InsertedAs(table', e, stamp, Claimings, since'),
         NEW mine \in Seq(Nat), mine = OwedIn(table, since, storeLog, k) \o logged,
         ClaimFor(mine, e.until)
  PROVE  OnceInv'
  <1>0. StoreTtl \in Nat /\ StoreKeys \in Nat
    BY SharedTablesAssumption DEF PyStore!PythonStoreAssumption
  <1>1. /\ k \in Sids /\ stamp \in Nat /\ stamp <= storeNow /\ storeNow \in Nat
        /\ GrownBy(k, since') /\ storeNow' = storeNow /\ kind' = kind
        /\ since \in [Sids -> SUBSET Sids] /\ storeLog \in [Sids -> Seq(Nat)]
    BY DEF ExecutedAs, StoreBase, OnceInv
  <1>2. /\ storeLog' = [storeLog EXCEPT ![k] = mine] /\ storeLog'[k] = mine
        /\ storeLog' \in [Sids -> Seq(Nat)]
        /\ \A x \in Sids : x # k => storeLog'[x] = storeLog[x]
    BY <1>1 DEF ExecutedAs
  <1>3. /\ StoreTable(table', Claimings, since')
        /\ Has(table', k) /\ Of(table', k) = e
        /\ \A x : x # k /\ Has(table', x) => Has(table, x) /\ Of(table', x) = Of(table, x)
    BY DEF InsertedAs
  <1>4. OwedIn(table', since', storeLog', k) = mine
    BY <1>2, <1>3 DEF OwedIn
  <1>5. ASSUME NEW x \in Sids, NEW i \in 1..Len(OwedIn(table', since', storeLog', x))
        PROVE  \/ storeLog'[x][i] + StoreTtl <= storeNow
               \/ Has(table', x) /\ storeLog'[x][i] + StoreTtl <= Of(table', x).until
    <2>1. CASE x = k
      BY <1>2, <1>3, <1>4, <1>5, <2>1 DEF ClaimFor
    <2>2. CASE x # k
      <3>1. OthersOwed(table', e, stamp, since', storeLog', x)
        BY <1>1, <1>2, <2>2, OthersFacts
      <3>2. \A j \in 1..Len(OwedIn(table, since, storeLog, x)) :
              \/ storeLog[x][j] + StoreTtl <= storeNow
              \/ Has(table, x) /\ storeLog[x][j] + StoreTtl <= Of(table, x).until
        BY DEF OnceInv
      <3>3. CASE OwedIn(table', since', storeLog', x) = <<>>
        BY <1>5, <3>3
      <3>4. CASE /\ Has(table', x) /\ Has(table, x) /\ Of(table', x) = Of(table, x)
                 /\ OwedIn(table', since', storeLog', x) = storeLog[x]
                 /\ OwedIn(table, since, storeLog, x) = storeLog[x]
        BY <1>2, <1>5, <2>2, <3>2, <3>4
      <3>5. CASE /\ OwedIn(table', since', storeLog', x) = storeLog[x]
                 /\ OwedIn(table, since, storeLog, x) = storeLog[x]
                 /\ Has(table, x) => PyStore!Expired(Of(table, x), stamp)
        <4>1. /\ storeLog'[x][i] = storeLog[x][i] /\ i \in 1..Len(storeLog[x])
              /\ storeLog[x] \in Seq(Nat)
          BY <1>1, <1>2, <1>5, <2>2, <3>5
        <4>2. storeLog[x][i] \in Nat
          BY <4>1
        <4>3. CASE storeLog[x][i] + StoreTtl <= storeNow
          BY <4>1, <4>3
        <4>4. CASE Has(table, x) /\ storeLog[x][i] + StoreTtl <= Of(table, x).until
          <5>1. kind = "once" => Of(table, x).until <= stamp
            BY <3>5, <4>4 DEF PyStore!Expired
          <5>2. Of(table, x).until \in Nat
            <6>1. \A y \in Sids : Has(table, y) =>
                    \E j \in 1..Len(storeLog[y]) : Of(table, y).until = storeLog[y][j] + StoreTtl
              BY DEF OnceInv
            <6>2. PICK j \in 1..Len(storeLog[x]) : Of(table, x).until = storeLog[x][j] + StoreTtl
              BY <4>4, <6>1
            <6>3. storeLog[x][j] \in Nat
              BY <4>1, SMTT(30)
            <6> QED
              BY <1>0, <6>2, <6>3
          <5>3. Of(table, x).until <= stamp
            BY <5>1
          <5>4. storeLog[x][i] + StoreTtl <= storeNow
            BY <1>0, <1>1, <4>2, <4>4, <5>2, <5>3, SMTT(30)
          <5> QED
            BY <4>1, <5>4
        <4> QED
          BY <3>2, <3>5, <4>1, <4>3, <4>4
      <3> QED
        BY <3>1, <3>3, <3>4, <3>5 DEF OthersOwed
    <2> QED
      BY <2>1, <2>2
  <1>6. ASSUME NEW x \in Sids, Has(table', x)
        PROVE  \E i \in 1..Len(storeLog'[x]) : Of(table', x).until = storeLog'[x][i] + StoreTtl
    <2>1. CASE x = k
      BY <1>2, <1>3, <2>1 DEF ClaimFor
    <2>2. CASE x # k
      <3>1. Has(table, x) /\ Of(table', x) = Of(table, x) /\ storeLog'[x] = storeLog[x]
        BY <1>2, <1>3, <1>6, <2>2
      <3>2. \E i \in 1..Len(storeLog[x]) : Of(table, x).until = storeLog[x][i] + StoreTtl
        BY <3>1 DEF OnceInv
      <3> QED
        BY <3>1, <3>2
    <2> QED
      BY <2>1, <2>2
  <1>7. StoreTable(table, Claimings, since)'
    BY <1>3 DEF StoreTable, Claimings
  <1>8. \A x \in Sids : \A i \in 1..Len(OwedIn(table, since, storeLog, x)') :
          \/ storeLog'[x][i] + StoreTtl <= storeNow'
          \/ Has(table', x) /\ storeLog'[x][i] + StoreTtl <= Of(table', x).until
    BY <1>1, <1>5 DEF OwedIn, Has
  <1> QED
    BY <1>2, <1>6, <1>7, <1>8 DEF OnceInv

LEMMA ClaimKeeps ==
  ASSUME StoreInv, NEW t \in Instances, PyStore!ClaimOnce(t)
  PROVE  StoreInv'
  <1> DEFINE k == calls[t].key
             stamp == calls[t].stamp
             owed == OwedIn(table, since, storeLog, k)
             repeat == PyStore!Stored(k) /\ PyStore!At(k).until > stamp
             got == ~repeat
             allowed == {claimed \in BOOLEAN :
                           IF claimed THEN ~PyStore!WonUntil(k, storeNow)
                           ELSE PyStore!WonUntil(k, stamp)}
             logged == IF repeat THEN <<>> ELSE <<stamp>>
  <1>0. StoreTtl \in Nat
    BY SharedTablesAssumption DEF PyStore!PythonStoreAssumption
  <1>1. /\ StoreBase /\ kind = "once" /\ OnceInv /\ calls[t] # PyStore!Idle
        /\ storeLog \in [Sids -> Seq(Nat)] /\ StoreTable(table, Claimings, since)
        /\ storeNow \in Nat /\ since \in [Sids -> SUBSET Sids]
    BY DEF StoreInv, PyStore!ClaimOnce, OnceInv, StoreBase
  <1>2. k \in Sids /\ stamp \in Nat /\ stamp <= storeNow
    <2>1. CallOK(calls[t], storeNow)
      BY <1>1 DEF StoreBase
    <2> QED
      BY <1>1, <2>1 DEF CallOK
  <1>3. /\ IF repeat THEN table' = Append(PyStore!Popped(k), PyStore!At(k))
           ELSE table' = Append(PyStore!MakeRoom(PyStore!Popped(k), stamp),
                                [key |-> k, until |-> stamp + StoreTtl])
        /\ PyStore!Executed(t, got, allowed, logged)
    BY DEF PyStore!ClaimOnce, PyStore!Insert
  <1>4. repeat <=> Has(table, k) /\ Of(table, k).until > stamp
    BY SameStoreOperators
  <1>5. \A when : PyStore!WonUntil(k, when)
                    <=> \E i \in 1..Len(owed) : storeLog[k][i] + StoreTtl > when
    <2>1. PyStore!Owed(k) = owed
      BY OwedIsOwedIn
    <2>2. DOMAIN owed = 1..Len(owed)
      BY <1>1, <1>2 DEF OwedIn
    <2> QED
      BY <2>1, <2>2 DEF PyStore!WonUntil
  <1>6. /\ owed \in Seq(Nat) /\ (owed = <<>> \/ owed = storeLog[k])
        /\ Has(table, k) => owed = storeLog[k]
    BY <1>1, <1>2 DEF OwedIn
  <1>7. \A i \in 1..Len(owed) :
          /\ storeLog[k][i] = owed[i] /\ owed[i] \in Nat
          /\ \/ owed[i] + StoreTtl <= storeNow
             \/ Has(table, k) /\ owed[i] + StoreTtl <= Of(table, k).until
    <2>1. \A i \in 1..Len(owed) :
            \/ storeLog[k][i] + StoreTtl <= storeNow
            \/ Has(table, k) /\ storeLog[k][i] + StoreTtl <= Of(table, k).until
      BY <1>1, <1>2 DEF OnceInv
    <2> HIDE DEF owed
    <2> QED
      BY <1>6, <2>1
  <1>8. Has(table, k) => /\ Of(table, k) \in Claimings /\ Of(table, k).key = k
                         /\ \E i \in 1..Len(owed) : Of(table, k).until = owed[i] + StoreTtl
    <2> SUFFICES ASSUME Has(table, k)
                 PROVE  /\ Of(table, k) \in Claimings /\ Of(table, k).key = k
                        /\ \E i \in 1..Len(owed) : Of(table, k).until = owed[i] + StoreTtl
      OBVIOUS
    <2>1. PICK i \in 1..Len(table) : table[i].key = k
      BY <1>1 DEF Has, StoreTable
    <2>2. Of(table, k) = table[i] /\ table[i] \in Claimings
      BY <1>1, <2>1, OfFacts DEF StoreTable
    <2>3. \E j \in 1..Len(storeLog[k]) : Of(table, k).until = storeLog[k][j] + StoreTtl
      BY <1>1, <1>2 DEF OnceInv
    <2> QED
      BY <1>6, <2>1, <2>2, <2>3
  <1> HIDE DEF owed, repeat, k, stamp, got, allowed
  <1>9. got \in allowed
    <2>1. CASE repeat
      <3>1. PICK i \in 1..Len(owed) : Of(table, k).until = owed[i] + StoreTtl
        BY <1>4, <1>8, <2>1
      <3>2. PyStore!WonUntil(k, stamp)
        BY <1>4, <1>5, <1>7, <2>1, <3>1
      <3>3. got = FALSE
        BY <2>1 DEF got
      <3> QED
        BY <3>2, <3>3 DEF allowed
    <2>2. CASE ~repeat
      <3>1. ASSUME NEW i \in 1..Len(owed) PROVE ~(owed[i] + StoreTtl > storeNow)
        <4>1. CASE owed[i] + StoreTtl <= storeNow
          BY <1>0, <1>1, <1>7, <4>1
        <4>2. CASE Has(table, k) /\ owed[i] + StoreTtl <= Of(table, k).until
          <5>1. ~(Of(table, k).until > stamp) /\ Of(table, k).until \in Nat
            BY <1>4, <1>8, <2>2, <4>2 DEF Claimings
          <5> QED
            BY <1>0, <1>1, <1>2, <1>7, <4>2, <5>1
        <4> QED
          BY <1>7, <4>1, <4>2
      <3>2. ~PyStore!WonUntil(k, storeNow)
        BY <1>5, <1>7, <3>1
      <3>3. got = TRUE
        BY <2>2 DEF got
      <3> QED
        BY <3>2, <3>3 DEF allowed
    <2> QED
      BY <2>1, <2>2
  <1>10. ExecutedAs(k, stamp, logged)
    <2> HIDE DEF logged
    <2> QED
      BY <1>1, <1>3, <1>9, ExecutedFacts DEF k, stamp
  <1>11. GrownBy(k, since') /\ StoreBase' /\ kind' = kind
    BY <1>10 DEF ExecutedAs
  <1>12. CASE repeat
    <2>1. owed \o logged = owed
      BY <1>6, <1>12, ConcatEmptySeq
    <2>2. Of(table, k) \in Claimings /\ Of(table, k).key = k /\ Has(table, k)
      BY <1>4, <1>8, <1>12
    <2>3. InsertedAs(table', Of(table, k), stamp, Claimings, since')
      BY <1>1, <1>3, <1>11, <1>12, <2>2, MovedFacts
    <2>4. ClaimFor(owed, Of(table, k).until)
      BY <1>7, <1>8, <2>2 DEF ClaimFor
    <2>5. OnceInv'
      <3>1. owed = OwedIn(table, since, storeLog, k) \o logged
        BY <2>1 DEF owed
      <3> HIDE DEF logged
      <3> QED
        BY <1>1, <1>6, <1>10, <2>2, <2>3, <2>4, <3>1, OnceKeeps
    <2> QED
      BY <1>1, <1>11, <2>5 DEF StoreInv
  <1>13. CASE ~repeat
    <2> DEFINE e == [key |-> k, until |-> stamp + StoreTtl]
               mine == Append(owed, stamp)
    <2>1. owed \o logged = mine
      BY <1>2, <1>6, <1>13, AppendIsConcat
    <2>2. e \in Claimings /\ e.key = k /\ e.until = stamp + StoreTtl
      BY <1>0, <1>2 DEF Claimings
    <2>3. /\ mine \in Seq(Nat) /\ Len(mine) = Len(owed) + 1 /\ Len(owed) \in Nat
          /\ \A i \in 1..Len(owed) : mine[i] = owed[i]
          /\ mine[Len(owed) + 1] = stamp
      BY <1>2, <1>6
    <2>4. table' = Append(PyStore!MakeRoom(PyStore!Popped(k), stamp), e)
      BY <1>3, <1>13
    <2> HIDE DEF e, mine
    <2>5. InsertedAs(table', e, stamp, Claimings, since')
      <3>1. GrownBy(e.key, since')
        BY <1>11, <2>2
      <3>2. InsertedAs(Append(PyStore!MakeRoom(PyStore!Popped(e.key), stamp), e),
                       e, stamp, Claimings, since')
        BY <1>1, <2>2, <3>1, InsertFacts
      <3> QED
        BY <2>2, <2>4, <3>2
    <2>6. ASSUME NEW i \in 1..Len(mine)
          PROVE  mine[i] + StoreTtl <= storeNow \/ mine[i] + StoreTtl <= e.until
      <3>1. CASE i = Len(owed) + 1
        BY <1>0, <1>2, <2>2, <2>3, <3>1
      <3>2. CASE i \in 1..Len(owed)
        <4>1. mine[i] = owed[i] /\ owed[i] \in Nat
          BY <1>7, <2>3, <3>2
        <4>2. CASE Has(table, k) /\ owed[i] + StoreTtl <= Of(table, k).until
          <5>1. ~(Of(table, k).until > stamp) /\ Of(table, k).until \in Nat
            BY <1>4, <1>8, <1>13, <4>2 DEF Claimings
          <5> QED
            BY <1>0, <1>1, <1>2, <4>1, <4>2, <5>1
        <4> QED
          BY <1>7, <3>2, <4>1, <4>2
      <3> QED
        BY <2>3, <2>6, <3>1, <3>2
    <2>7. \E i \in 1..Len(mine) : e.until = mine[i] + StoreTtl
      <3>1. Len(owed) + 1 \in 1..Len(mine)
        BY <2>3
      <3> QED
        BY <2>2, <2>3, <3>1
    <2>8. ClaimFor(mine, e.until)
      BY <2>6, <2>7 DEF ClaimFor
    <2>9. OnceInv'
      <3>1. mine = OwedIn(table, since, storeLog, k) \o logged
        BY <2>1 DEF owed
      <3> HIDE DEF logged
      <3> QED
        BY <1>1, <1>10, <2>2, <2>3, <2>5, <2>8, <3>1, OnceKeeps
    <2> QED
      BY <1>1, <1>11, <2>9 DEF StoreInv
  <1> QED
    BY <1>12, <1>13

\* A window to which a hit is added.
Trimmed(hits) == SubSeq(hits, Max({0, Len(hits) - MaxHits}) + 1, Len(hits))
AtMost(n, most) == IF n <= most THEN n ELSE most
After(calling, moment) == {i \in DOMAIN calling : calling[i] > moment}

HitAdded(kept, calling, stamp, moment, past) ==
  /\ kept \in Seq(Nat) /\ LatestIn(kept, Append(calling, stamp))
  /\ Covers(kept, Append(calling, stamp), MaxHits, moment)
  /\ Cardinality(After(calling, moment)) \in Nat /\ Cardinality(After(calling, past)) \in Nat
  /\ AtMost(Cardinality(After(calling, moment)) + 1, MaxHits) <= Len(kept)
  /\ Len(kept) <= AtMost(Cardinality(After(calling, past)) + 1, MaxHits)

LEMMA HitAddedFacts ==
  ASSUME NEW before \in Seq(Nat), NEW calling \in Seq(Nat), NEW stamp \in Nat,
         NEW moment \in Int, NEW past \in Int, past <= moment - MaxWait,
         NEW t \in Nat, NearlySorted(calling, MaxWait, t),
         Covers(before, calling, MaxHits, moment)
  PROVE  HitAdded(Trimmed(Append(Above(before, past), stamp)), calling, stamp, moment, past)
  <1> DEFINE left == Above(before, past)
             hits == Append(left, stamp)
             kept == Trimmed(hits)
             all == Append(calling, stamp)
             n == Len(left)
             d == IF Len(hits) > MaxHits THEN Len(hits) - MaxHits ELSE 0
  <1>0. MaxHits \in Nat \ {0} /\ MaxWait \in Nat
    BY SharedTablesAssumption DEF PyStore!PythonStoreAssumption
  <1>1. left \in Seq(Nat) /\ \A i \in 1..Len(left) : left[i] > past
    BY AboveFacts, AboveIsAfter
  <1>2. Covers(left, calling, MaxHits, moment)
    BY <1>0, FilterCovers
  <1> HIDE DEF left
  <1>3. Covers(hits, all, MaxHits, moment)
    BY <1>0, <1>1, <1>2, AppendCovers
  <1>4. /\ n \in Nat /\ hits \in Seq(Nat) /\ Len(hits) = n + 1 /\ hits[n + 1] = stamp
    BY <1>1
  <1>5. /\ all \in Seq(Nat) /\ Len(all) = Len(calling) + 1 /\ all[Len(calling) + 1] = stamp
        /\ Len(calling) \in Nat
    OBVIOUS
  <1>6. kept = SubSeq(hits, d + 1, Len(hits))
    <2>1. 0 \in Int /\ Len(hits) - MaxHits \in Int
      BY <1>0, <1>4
    <2>2. Max({0, Len(hits) - MaxHits})
            = IF 0 <= Len(hits) - MaxHits THEN Len(hits) - MaxHits ELSE 0
      BY <2>1, MaxOfTwo
    <2>3. Max({0, Len(hits) - MaxHits}) = d
      <3> HIDE DEF hits
      <3> QED
        BY <1>0, <1>4, <2>2
    <2> QED
      BY <2>3 DEF Trimmed
  <1> HIDE DEF hits, all, n, kept
  <1>7. /\ kept \in Seq(Nat) /\ Len(kept) = n + 1 - d
        /\ \A i \in 1..n + 1 - d : kept[i] = hits[i + d]
        /\ Covers(kept, all, MaxHits, moment)
    <2>1. d = IF Len(hits) > MaxHits THEN Len(hits) - MaxHits ELSE 0
      OBVIOUS
    <2> HIDE DEF d
    <2>2. Covers(SubSeq(hits, d + 1, Len(hits)), all, MaxHits, moment)
      BY <1>0, <1>3, <1>4, <1>5, <2>1, SliceCovers
    <2>3. d \in 0..Len(hits)
      BY <1>0, <1>4, <2>1
    <2>4. /\ SubSeq(hits, d + 1, Len(hits)) \in Seq(Nat)
          /\ Len(SubSeq(hits, d + 1, Len(hits))) = Len(hits) - d
          /\ \A i \in 1..Len(hits) - d : SubSeq(hits, d + 1, Len(hits))[i] = hits[i + d]
      BY <1>4, <2>3, RestFacts
    <2>5. Len(hits) - d = n + 1 - d
      BY <1>4, <2>3
    <2> QED
      BY <1>6, <2>2, <2>4, <2>5
  <1>8. d \in 0..n /\ Len(kept) = AtMost(n + 1, MaxHits) /\ Len(kept) > 0
    BY <1>0, <1>4, <1>7 DEF AtMost
  <1> HIDE DEF d
  <1>9. LatestIn(kept, all)
    <2>1. n + 1 - d \in 1..n + 1 - d /\ (n + 1 - d) + d = n + 1
      BY <1>4, <1>7, <1>8
    <2>2. kept[Len(kept)] = stamp
      BY <1>4, <1>7, <2>1
    <2> QED
      BY <1>5, <1>8, <2>2 DEF LatestIn
  <1>10. /\ IsFiniteSet(After(calling, moment)) /\ IsFiniteSet(After(calling, past))
         /\ n >= MaxHits \/ Cardinality(After(calling, moment)) <= n
         /\ n <= Cardinality(After(calling, past))
    BY <1>0, <1>1, <1>2, CoverCount, LateCount DEF After, n
  <1>11. Cardinality(After(calling, moment)) \in Nat /\ Cardinality(After(calling, past)) \in Nat
    BY <1>10, FS_CardinalityType
  <1>12. AtMost(Cardinality(After(calling, moment)) + 1, MaxHits) <= Len(kept)
    BY <1>0, <1>4, <1>8, <1>10, <1>11, SMTT(30) DEF AtMost
  <1>13. Len(kept) <= AtMost(Cardinality(After(calling, past)) + 1, MaxHits)
    BY <1>0, <1>4, <1>8, <1>10, <1>11, SMTT(30) DEF AtMost
  <1> QED
    BY <1>7, <1>9, <1>11, <1>12, <1>13 DEF HitAdded, kept, hits, left, all

\* A window that is dropped as stale owes nothing.
LEMMA StaleOwesNothing ==
  ASSUME WindowsInv, StoreBase, kind = "windows", NEW x \in Sids, Has(table, x),
         NEW stamp \in Nat, stamp <= storeNow, PyStore!Expired(Of(table, x), stamp)
  PROVE  Covers(<<>>, storeLog[x], MaxHits, storeNow - StoreSpan + MaxWait)
  <1> DEFINE calling == storeLog[x]
             n == Len(calling)
  <1>0. /\ MaxHits \in Nat \ {0} /\ MaxWait \in Nat /\ StoreSpan \in Nat
        /\ StaleAfter \in Nat /\ StoreSpan + MaxWait <= StaleAfter
    BY SharedTablesAssumption DEF PyStore!PythonStoreAssumption
  <1>1. storeNow \in Nat /\ calling \in Seq(Nat) /\ NearlySorted(calling, MaxWait, storeNow)
    BY DEF WindowsInv, StoreBase
  <1>2. LatestIn(Of(table, x).hits, calling)
    BY DEF WindowsInv
  <1> HIDE DEF calling
  <1>3. n \in Nat /\ n > 0 /\ calling[n] \in Nat /\ calling[n] <= stamp - StaleAfter
    <2>1. n \in 1..n
      BY <1>1, <1>2 DEF LatestIn
    <2> QED
      BY <1>1, <1>2, <2>1 DEF LatestIn, PyStore!Expired
  <1>4. ASSUME NEW i \in 1..n PROVE calling[i] <= storeNow - StoreSpan + MaxWait
    <2>1. calling[i] \in Nat /\ (i = n \/ (i < n /\ n \in 1..n))
      BY <1>1, <1>3
    <2>2. i < n => calling[n] >= calling[i] - MaxWait
      BY <1>1, <1>3, <2>1 DEF NearlySorted
    <2> QED
      BY <1>0, <1>1, <1>3, <2>1, <2>2
  <1>5. storeNow - StoreSpan + MaxWait \in Int
    BY <1>0, <1>1
  <1> QED
    BY <1>0, <1>1, <1>4, <1>5, NoneOwed DEF calling

\* The windows after a hit, once that of its key is right.
LEMMA WindowsKeeps ==
  ASSUME StoreBase, kind = "windows", WindowsInv,
         NEW k, NEW stamp, ExecutedAs(k, stamp, <<stamp>>),
         NEW e \in Counters, e.key = k, InsertedAs(table', e, stamp, Counters, since'),
         NEW owed, owed = OwedIn(table, since, storeLog, k),
         NEW past, HitAdded(e.hits, owed, stamp, storeNow - StoreSpan + MaxWait, past)
  PROVE  WindowsInv'
  <1> DEFINE moment == storeNow - StoreSpan + MaxWait
             mine == Append(owed, stamp)
  <1>0. MaxHits \in Nat \ {0} /\ MaxWait \in Nat /\ StoreSpan \in Nat
    BY SharedTablesAssumption DEF PyStore!PythonStoreAssumption
  <1>1. /\ k \in Sids /\ stamp \in Nat /\ stamp \in (storeNow - MaxWait)..storeNow
        /\ storeNow \in Nat
        /\ GrownBy(k, since') /\ storeNow' = storeNow /\ kind' = kind
        /\ since \in [Sids -> SUBSET Sids] /\ storeLog \in [Sids -> Seq(Nat)]
        /\ \A x \in Sids : NearlySorted(storeLog[x], MaxWait, storeNow)
    BY DEF ExecutedAs, StoreBase, WindowsInv
  <1>2. owed \in Seq(Nat) /\ NearlySorted(owed, MaxWait, storeNow)
    <2>1. owed = <<>> \/ owed = storeLog[k]
      BY DEF OwedIn
    <2>2. <<>> \in Seq(Nat) /\ NearlySorted(<<>>, MaxWait, storeNow)
      BY DEF NearlySorted
    <2> QED
      BY <1>1, <2>1, <2>2
  <1>3. mine \in Seq(Nat) /\ mine = OwedIn(table, since, storeLog, k) \o <<stamp>>
    BY <1>1, <1>2, AppendIsConcat
  <1>4. NearlySorted(mine, MaxWait, storeNow)
    BY <1>0, <1>1, <1>2, SortedMore
  <1>5. LatestIn(e.hits, mine) /\ Covers(e.hits, mine, MaxHits, moment) /\ moment \in Int
    BY <1>0, <1>1 DEF HitAdded
  <1> HIDE DEF mine, moment
  <1>6. /\ storeLog'[k] = mine /\ storeLog' \in [Sids -> Seq(Nat)]
        /\ \A x \in Sids : x # k => storeLog'[x] = storeLog[x]
    BY <1>1, <1>3 DEF ExecutedAs
  <1>7. /\ StoreTable(table', Counters, since')
        /\ Has(table', k) /\ Of(table', k) = e
        /\ \A x : x # k /\ Has(table', x) => Has(table, x) /\ Of(table', x) = Of(table, x)
    BY DEF InsertedAs
  <1>8. OwedIn(table', since', storeLog', k) = mine
    BY <1>6, <1>7 DEF OwedIn
  <1>9. ASSUME NEW x \in Sids
        PROVE  Covers(HitsIn(table', x), OwedIn(table', since', storeLog', x), MaxHits, moment)
    <2>1. CASE x = k
      BY <1>5, <1>7, <1>8, <2>1 DEF HitsIn
    <2>2. CASE x # k
      <3>1. OthersOwed(table', e, stamp, since', storeLog', x)
        BY <1>1, <1>6, <2>2, OthersFacts
      <3>2. Covers(HitsIn(table, x), OwedIn(table, since, storeLog, x), MaxHits, moment)
        BY DEF WindowsInv, moment
      <3>3. CASE ~Has(table', x) /\ OwedIn(table', since', storeLog', x) = <<>>
        <4>1. HitsIn(table', x) = <<>> /\ <<>> \in Seq(Nat)
          BY <3>3 DEF HitsIn
        <4>2. \A i \in 1..Len(<<>>) : <<>>[i] <= moment
          OBVIOUS
        <4>3. Covers(<<>>, <<>>, MaxHits, moment)
          BY <1>0, <1>5, <4>1, <4>2, NoneOwed
        <4> QED
          BY <3>3, <4>1, <4>3
      <3>4. CASE /\ Has(table', x) /\ Has(table, x) /\ Of(table', x) = Of(table, x)
                 /\ OwedIn(table', since', storeLog', x) = storeLog[x]
                 /\ OwedIn(table, since, storeLog, x) = storeLog[x]
        BY <3>2, <3>4 DEF HitsIn
      <3>5. CASE /\ ~Has(table', x)
                 /\ OwedIn(table', since', storeLog', x) = storeLog[x]
                 /\ OwedIn(table, since, storeLog, x) = storeLog[x]
                 /\ Has(table, x) => PyStore!Expired(Of(table, x), stamp)
        <4>1. CASE Has(table, x)
          <5>1. Covers(<<>>, storeLog[x], MaxHits, moment)
            BY <1>1, <3>5, <4>1, StaleOwesNothing DEF moment
          <5> QED
            BY <3>5, <5>1 DEF HitsIn
        <4>2. CASE ~Has(table, x)
          BY <3>2, <3>5, <4>2 DEF HitsIn
        <4> QED
          BY <4>1, <4>2
      <3> QED
        BY <3>1, <3>3, <3>4, <3>5 DEF OthersOwed
    <2> QED
      BY <2>1, <2>2
  <1>10. ASSUME NEW x \in Sids, Has(table', x)
         PROVE  LatestIn(Of(table', x).hits, storeLog'[x])
    <2>1. CASE x = k
      BY <1>5, <1>6, <1>7, <2>1
    <2>2. CASE x # k
      <3>1. Has(table, x) /\ Of(table', x) = Of(table, x) /\ storeLog'[x] = storeLog[x]
        BY <1>6, <1>7, <1>10, <2>2
      <3> QED
        BY <3>1 DEF WindowsInv
    <2> QED
      BY <2>1, <2>2
  <1>11. ASSUME NEW x \in Sids PROVE NearlySorted(storeLog'[x], MaxWait, storeNow)
    BY <1>1, <1>4, <1>6
  <1>12. storeNow' - StoreSpan + MaxWait = moment
    BY <1>1 DEF moment
  <1>13. StoreTable(table, Counters, since)'
    BY <1>7 DEF StoreTable, Counters
  <1> QED
    BY <1>1, <1>6, <1>9, <1>10, <1>11, <1>12, <1>13 DEF WindowsInv, HitsIn, OwedIn, Has, Of

LEMMA HitKeeps ==
  ASSUME StoreInv, NEW t \in Instances, PyStore!Hit(t)
  PROVE  StoreInv'
  <1> DEFINE k == calls[t].key
             stamp == calls[t].stamp
             owed == OwedIn(table, since, storeLog, k)
             before == HitsIn(table, k)
             moment == storeNow - StoreSpan + MaxWait
             past == stamp - StoreSpan
             kept == Trimmed(Append(Above(before, past), stamp))
             got == Len(kept)
             allowed == AtMost(Cardinality(After(owed, moment)) + 1, MaxHits)
                          ..AtMost(Cardinality(After(owed, past)) + 1, MaxHits)
             e == [key |-> k, hits |-> kept]
  <1>0. MaxHits \in Nat \ {0} /\ MaxWait \in Nat /\ StoreSpan \in Nat
    BY SharedTablesAssumption DEF PyStore!PythonStoreAssumption
  <1>1. /\ StoreBase /\ kind = "windows" /\ WindowsInv /\ calls[t] # PyStore!Idle
        /\ storeLog \in [Sids -> Seq(Nat)] /\ StoreTable(table, Counters, since)
        /\ storeNow \in Nat /\ since \in [Sids -> SUBSET Sids]
        /\ \A x \in Sids : NearlySorted(storeLog[x], MaxWait, storeNow)
        /\ \A x \in Sids : Covers(HitsIn(table, x), OwedIn(table, since, storeLog, x),
                                  MaxHits, moment)
    BY DEF StoreInv, PyStore!Hit, WindowsInv, StoreBase
  <1>2. k \in Sids /\ stamp \in Nat /\ stamp <= storeNow
    <2>1. CallOK(calls[t], storeNow)
      BY <1>1 DEF StoreBase
    <2> QED
      BY <1>1, <2>1 DEF CallOK
  <1>3. /\ owed \in Seq(Nat) /\ (owed = <<>> \/ owed = storeLog[k])
        /\ NearlySorted(owed, MaxWait, storeNow) /\ Covers(before, owed, MaxHits, moment)
    <2>1. owed = <<>> \/ owed = storeLog[k]
      BY DEF OwedIn
    <2>2. <<>> \in Seq(Nat) /\ NearlySorted(<<>>, MaxWait, storeNow)
      BY DEF NearlySorted
    <2>3. Covers(before, owed, MaxHits, moment)
      BY <1>1, <1>2
    <2> HIDE DEF owed
    <2> QED
      BY <1>1, <1>2, <2>1, <2>2, <2>3
  <1>4. before \in Seq(Nat)
    <2>1. ASSUME Has(table, k) PROVE Of(table, k).hits \in Seq(Nat)
      <3>1. PICK i \in 1..Len(table) : table[i].key = k
        BY <1>1, <2>1, SMTT(30) DEF Has, StoreTable
      <3>2. Of(table, k) = table[i] /\ table[i] \in Counters
        BY <1>1, <3>1, OfFacts DEF StoreTable
      <3> QED
        BY <3>2 DEF Counters
    <2>2. <<>> \in Seq(Nat)
      OBVIOUS
    <2> QED
      BY <2>1, <2>2 DEF HitsIn
  <1>5. \A when : PyStore!HitsSince(k, when) = Cardinality(After(owed, when))
    <2>1. PyStore!Owed(k) = owed
      BY OwedIsOwedIn
    <2> HIDE DEF owed
    <2>2. \A when : {i \in DOMAIN owed : storeLog[k][i] > when} = After(owed, when)
      BY <1>3 DEF After
    <2> QED
      BY <2>1, <2>2, SameStoreOperators DEF PyStore!HitsSince
  <1>6. moment \in Int /\ past \in Int /\ past <= moment - MaxWait
    BY <1>0, <1>1, <1>2
  <1>7. \A when \in {moment, past} :
          Cardinality(After(owed, when)) \in Nat =>
            PyStore!Saturated(PyStore!HitsSince(k, when) + 1)
              = AtMost(Cardinality(After(owed, when)) + 1, MaxHits)
    <2>1. \A n : PyStore!Saturated(n) = Min({n, MaxHits})
      BY SameStoreOperators DEF PyStore!Saturated
    <2>2. ASSUME NEW n \in Int PROVE PyStore!Saturated(n) = AtMost(n, MaxHits)
      <3>1. Min({n, MaxHits}) = IF n <= MaxHits THEN n ELSE MaxHits
        BY <1>0, MinOfTwo
      <3> QED
        BY <2>1, <3>1 DEF AtMost
    <2> QED
      BY <1>5, <2>2
  <1> HIDE DEF owed, before, moment
  <1>8. HitAdded(kept, owed, stamp, moment, past)
    <2> HIDE DEF past, k, stamp
    <2> QED
      BY <1>1, <1>2, <1>3, <1>4, <1>6, HitAddedFacts
  <1>9. kept = SubSeq(Append(PyStore!Later(before, past), stamp),
                      PyStore!Max({0, Len(Append(PyStore!Later(before, past), stamp)) - MaxHits}) + 1,
                      Len(Append(PyStore!Later(before, past), stamp)))
    <2>1. PyStore!Later(before, past) = Above(before, past)
      BY DEF PyStore!Later, Above
    <2> QED
      BY <2>1, SameStoreOperators DEF Trimmed
  <1>10. /\ table' = Append(PyStore!MakeRoom(PyStore!Popped(k), stamp), e)
         /\ PyStore!Executed(t, got, allowed, <<stamp>>)
    <2>1. before = IF PyStore!Stored(k) THEN PyStore!At(k).hits ELSE <<>>
      BY SameStoreOperators, SMTT(30) DEF before, HitsIn
    <2>2. /\ PyStore!Insert(k, stamp, e)
          /\ PyStore!Executed(t, got,
                PyStore!Saturated(PyStore!HitsSince(k, storeNow - StoreSpan + MaxWait) + 1)
                  ..PyStore!Saturated(PyStore!HitsSince(k, stamp - StoreSpan) + 1),
                <<stamp>>)
      BY <1>9, <2>1 DEF PyStore!Hit
    <2>3. allowed = PyStore!Saturated(PyStore!HitsSince(k, storeNow - StoreSpan + MaxWait) + 1)
                      ..PyStore!Saturated(PyStore!HitsSince(k, stamp - StoreSpan) + 1)
      BY <1>7, <1>8 DEF HitAdded, moment
    <2> QED
      BY <2>2, <2>3 DEF PyStore!Insert
  <1> HIDE DEF kept, past, k, stamp
  <1>11. got \in allowed
    <2>1. Len(kept) \in Nat /\ AtMost(Cardinality(After(owed, moment)) + 1, MaxHits) \in Int
          /\ AtMost(Cardinality(After(owed, past)) + 1, MaxHits) \in Int
      BY <1>0, <1>8 DEF HitAdded, AtMost
    <2> QED
      BY <1>8, <2>1 DEF HitAdded
  <1> HIDE DEF got, allowed
  <1>12. ExecutedAs(k, stamp, <<stamp>>)
    BY <1>1, <1>10, <1>11, ExecutedFacts DEF k, stamp
  <1>13. GrownBy(k, since') /\ StoreBase' /\ kind' = kind
    BY <1>12 DEF ExecutedAs
  <1>14. e \in Counters /\ e.key = k /\ e.hits = kept
    BY <1>2, <1>8 DEF Counters, HitAdded
  <1> HIDE DEF e
  <1>15. InsertedAs(table', e, stamp, Counters, since')
    <2>1. GrownBy(e.key, since')
      BY <1>13, <1>14
    <2>2. InsertedAs(Append(PyStore!MakeRoom(PyStore!Popped(e.key), stamp), e),
                     e, stamp, Counters, since')
      BY <1>1, <1>14, <2>1, InsertFacts
    <2> QED
      BY <1>10, <1>14, <2>2
  <1>16. WindowsInv'
    <2>1. HitAdded(e.hits, owed, stamp, storeNow - StoreSpan + MaxWait, past)
      BY <1>8, <1>14 DEF moment
    <2>2. owed = OwedIn(table, since, storeLog, k)
      BY DEF owed
    <2> QED
      BY <1>1, <1>12, <1>14, <1>15, <2>1, <2>2, WindowsKeeps
  <1> QED
    BY <1>1, <1>13, <1>16 DEF StoreInv

\* A value is recorded.
LEMMA SetKeeps ==
  ASSUME StoreInv, NEW t \in Instances, PyStore!SetValue(t)
  PROVE  StoreInv'
  <1> DEFINE k == calls[t].key
             stamp == calls[t].stamp
             value == calls[t].value
             until == stamp + StoreTtl
             owed == OwedIn(table, since, storeLog, k)
             e == [key |-> k, until |-> until, value |-> value]
             written == [value |-> value, until |-> until]
             mine == Append(owed, written)
             Written == [value : Contents, until : Nat]
  <1>0. StoreTtl \in Nat
    BY SharedTablesAssumption DEF PyStore!PythonStoreAssumption
  <1>1. /\ StoreBase /\ kind = "values" /\ ValuesInv /\ calls[t] # PyStore!Idle
        /\ storeLog \in [Sids -> Seq(Written)] /\ StoreTable(table, Entries, since)
        /\ storeNow \in Nat /\ since \in [Sids -> SUBSET Sids]
    BY DEF StoreInv, PyStore!SetValue, ValuesInv, StoreBase
  <1>2. k \in Sids /\ stamp \in Nat /\ stamp <= storeNow /\ value \in Contents
    <2>1. CallOK(calls[t], storeNow)
      BY <1>1 DEF StoreBase
    <2> QED
      BY <1>1, <2>1 DEF CallOK
  <1>3. /\ table' = Append(PyStore!MakeRoom(PyStore!Popped(k), stamp), e)
        /\ PyStore!Executed(t, None, {None}, <<written>>)
    BY DEF PyStore!SetValue, PyStore!Insert
  <1> HIDE DEF k, stamp, value
  <1>4. ExecutedAs(k, stamp, <<written>>)
    <2> HIDE DEF written
    <2>1. None \in {None}
      OBVIOUS
    <2> QED
      BY <1>1, <1>3, <2>1, ExecutedFacts DEF k, stamp
  <1>5. /\ until \in Nat /\ written \in Written /\ e \in Entries /\ e.key = k
        /\ written = [value |-> e.value, until |-> e.until]
    <2>1. until \in Nat
      BY <1>0, <1>2
    <2> HIDE DEF until
    <2> QED
      BY <1>2, <2>1 DEF Entries
  <1> HIDE DEF until, written, e, Written
  <1>6. owed \in Seq(Written)
    BY <1>1, <1>2 DEF OwedIn
  <1> HIDE DEF owed
  <1>7. /\ mine \in Seq(Written) /\ Len(mine) > 0 /\ mine[Len(mine)] = written
        /\ owed \o <<written>> = mine
    BY <1>5, <1>6, AppendIsConcat
  <1> HIDE DEF mine
  <1>8. /\ GrownBy(k, since') /\ StoreBase' /\ kind' = kind /\ storeNow' = storeNow
        /\ storeLog' = [storeLog EXCEPT ![k] = mine]
    BY <1>4, <1>7 DEF ExecutedAs, owed
  <1>9. /\ storeLog'[k] = mine /\ storeLog' \in [Sids -> Seq(Written)]
        /\ \A x \in Sids : x # k => storeLog'[x] = storeLog[x]
    BY <1>1, <1>2, <1>7, <1>8
  <1>10. InsertedAs(table', e, stamp, Entries, since')
    <2>1. GrownBy(e.key, since')
      BY <1>5, <1>8
    <2>2. InsertedAs(Append(PyStore!MakeRoom(PyStore!Popped(e.key), stamp), e),
                     e, stamp, Entries, since')
      BY <1>1, <1>5, <2>1, InsertFacts
    <2> QED
      BY <1>3, <1>5, <2>2
  <1>11. /\ StoreTable(table', Entries, since')
         /\ Has(table', k) /\ Of(table', k) = e
         /\ \A x : x # k /\ Has(table', x) => Has(table, x) /\ Of(table', x) = Of(table, x)
    BY <1>5, <1>10 DEF InsertedAs
  <1>12. ASSUME NEW x \in Sids, Has(table', x) PROVE LastIs(storeLog'[x], Of(table', x))
    <2>1. CASE x = k
      BY <1>5, <1>7, <1>9, <1>11, <2>1 DEF LastIs
    <2>2. CASE x # k
      <3>1. Has(table, x) /\ Of(table', x) = Of(table, x) /\ storeLog'[x] = storeLog[x]
        BY <1>9, <1>11, <1>12, <2>2
      <3> QED
        BY <1>1, <3>1 DEF ValuesInv
    <2> QED
      BY <2>1, <2>2
  <1>13. ASSUME NEW x \in Sids, ~Has(table', x),
                OwedIn(table', since', storeLog', x) # <<>>
         PROVE  /\ OwedIn(table', since', storeLog', x) = storeLog[x]
                /\ storeLog[x][Len(storeLog[x])].until <= storeNow
    <2>1. x # k
      BY <1>11, <1>13
    <2>2. OthersOwed(table', e, stamp, since', storeLog', x)
      BY <1>1, <1>5, <1>8, <1>9, <1>10, <2>1, OthersFacts
    <2>3. /\ OwedIn(table', since', storeLog', x) = storeLog[x]
          /\ OwedIn(table, since, storeLog, x) = storeLog[x]
          /\ Has(table, x) => PyStore!Expired(Of(table, x), stamp)
      BY <1>13, <2>2 DEF OthersOwed
    <2>4. CASE ~Has(table, x)
      BY <1>1, <1>13, <2>3, <2>4 DEF ValuesInv
    <2>5. CASE Has(table, x)
      <3>1. kind # "windows" => Of(table, x).until <= stamp
        BY <2>3, <2>5 DEF PyStore!Expired
      <3>2. LastIs(storeLog[x], Of(table, x))
        BY <1>1, <2>5 DEF ValuesInv
      <3>3. Of(table, x).until \in Nat
        <4>1. PICK i \in 1..Len(table) : table[i].key = x
          BY <1>1, <2>5 DEF Has, StoreTable
        <4>2. Of(table, x) = table[i] /\ table[i] \in Entries
          BY <1>1, <4>1, OfFacts DEF StoreTable
        <4> QED
          BY <4>2 DEF Entries
      <3>4. Of(table, x).until <= storeNow
        BY <1>1, <1>2, <3>1, <3>3
      <3> QED
        BY <2>3, <3>2, <3>4 DEF LastIs
    <2> QED
      BY <2>4, <2>5
  <1>14. StoreTable(table, Entries, since)'
    BY <1>11 DEF StoreTable, Entries
  <1>15. \A x \in Sids : ~Has(table, x)' =>
           LET mine2 == OwedIn(table, since, storeLog, x)'
           IN  mine2 = <<>> \/ mine2[Len(mine2)].until <= storeNow'
    BY <1>8, <1>13 DEF OwedIn, Has
  <1>16. ValuesInv'
    BY <1>9, <1>12, <1>14, <1>15 DEF ValuesInv, Written, Has, Of
  <1> QED
    BY <1>1, <1>8, <1>16 DEF StoreInv

\* A value is read; one that has expired leaves.
LEMMA GetKeeps ==
  ASSUME StoreInv, NEW k \in Sids, PyStore!GetValue(k)
  PROVE  StoreInv'
  <1> DEFINE live == PyStore!Stored(k) /\ PyStore!At(k).until > storeNow
             owed == OwedIn(table, since, storeLog, k)
             last == IF owed = <<>> THEN [value |-> None, until |-> 0]
                     ELSE storeLog[k][Len(storeLog[k])]
             got == IF live THEN PyStore!At(k).value ELSE None
             due == IF last.until > storeNow THEN last.value ELSE None
             Written == [value : Contents, until : Nat]
  <1>1. /\ StoreBase /\ kind = "values" /\ ValuesInv
        /\ storeLog \in [Sids -> Seq(Written)] /\ StoreTable(table, Entries, since)
        /\ storeNow \in Nat /\ since \in [Sids -> SUBSET Sids]
    BY DEF StoreInv, PyStore!GetValue, ValuesInv, StoreBase
  <1>2. /\ table' = IF live THEN table ELSE PyStore!Popped(k)
        /\ answer' = [got |-> got, allowed |-> {due}]
        /\ UNCHANGED <<storeNow, kind, calls, storeLog, since>>
    BY OwedIsOwedIn DEF PyStore!GetValue
  <1>3. live <=> Has(table, k) /\ Of(table, k).until > storeNow
    BY SameStoreOperators
  <1>4. got = IF live THEN Of(table, k).value ELSE None
    BY SameStoreOperators
  <1>5. ASSUME Has(table, k)
        PROVE  /\ owed = storeLog[k] /\ owed # <<>>
               /\ last.value = Of(table, k).value /\ last.until = Of(table, k).until
    <2>1. LastIs(storeLog[k], Of(table, k))
      BY <1>1, <1>5 DEF ValuesInv
    <2>2. owed = storeLog[k]
      BY <1>5 DEF OwedIn
    <2>3. storeLog[k] # <<>>
      BY <2>1 DEF LastIs
    <2>4. last = storeLog[k][Len(storeLog[k])]
      BY <2>2, <2>3
    <2> HIDE DEF last
    <2> QED
      BY <2>1, <2>2, <2>3, <2>4 DEF LastIs
  <1>6. ASSUME ~Has(table, k)
        PROVE  ~(last.until > storeNow)
    <2>1. CASE owed = <<>>
      BY <1>1, <2>1
    <2>2. CASE owed # <<>>
      <3>1. owed = storeLog[k]
        BY <2>2 DEF OwedIn
      <3>2. owed[Len(owed)].until <= storeNow
        BY <1>1, <1>6, <2>2 DEF ValuesInv
      <3>3. last = owed[Len(owed)]
        BY <2>2, <3>1
      <3>4. last.until \in Nat
        <4>1. ASSUME NEW T, NEW l \in Seq(T), l # <<>> PROVE l[Len(l)] \in T
          BY <4>1
        <4>2. owed \in Seq(Written)
          BY <1>1, <3>1
        <4>3. last \in Written
          <5> HIDE DEF Written, owed, last
          <5> QED
            BY <2>2, <3>3, <4>1, <4>2
        <4> HIDE DEF last
        <4> QED
          BY <4>3
      <3> HIDE DEF last, owed
      <3> QED
        BY <1>1, <3>2, <3>3, <3>4
    <2> QED
      BY <2>1, <2>2
  <1> HIDE DEF last, owed, live
  <1>7. got = due
    <2>1. CASE live
      <3>1. last.until > storeNow /\ last.value = Of(table, k).value
        BY <1>3, <1>5, <2>1
      <3> QED
        BY <1>4, <2>1, <3>1
    <2>2. CASE ~live
      <3>1. ~(last.until > storeNow)
        BY <1>3, <1>5, <1>6, <2>2
      <3> QED
        BY <1>4, <2>2, <3>1
    <2> QED
      BY <2>1, <2>2
  <1> HIDE DEF got, due
  <1>8. StoreBase'
    <2>1. answer'.got \in answer'.allowed
      BY <1>2, <1>7
    <2>2. \A t \in Instances : CallOK(calls[t], storeNow)'
      BY <1>1, <1>2 DEF StoreBase, CallOK, PyStore!Idle
    <2> QED
      BY <1>1, <1>2, <2>1, <2>2 DEF StoreBase
  <1>9. ValuesInv'
    <2>1. CASE live
      BY <1>1, <1>2, <2>1 DEF ValuesInv
    <2>2. CASE ~live
      <3>1. PoppedAs(table', k, Entries)
        BY <1>1, <1>2, <2>2, PopFacts
      <3>2. /\ StoreTable(table', Entries, since) /\ ~Has(table', k)
            /\ \A x : x # k => (Has(table', x) <=> Has(table, x))
            /\ \A x : Has(table', x) => Of(table', x) = Of(table, x)
        BY <3>1 DEF PoppedAs
      <3>3. ASSUME NEW x \in Sids, Has(table', x) PROVE LastIs(storeLog[x], Of(table', x))
        BY <1>1, <3>2, <3>3 DEF ValuesInv
      <3>4. ASSUME NEW x \in Sids, ~Has(table', x),
                   OwedIn(table', since, storeLog, x) # <<>>
            PROVE  /\ OwedIn(table', since, storeLog, x) = storeLog[x]
                   /\ storeLog[x][Len(storeLog[x])].until <= storeNow
        <4>1. OwedIn(table', since, storeLog, x) = storeLog[x]
          BY <3>4 DEF OwedIn
        <4>2. CASE Has(table, x)
          <5>1. x = k
            BY <3>2, <3>4, <4>2
          <5>2. LastIs(storeLog[k], Of(table, k)) /\ ~(Of(table, k).until > storeNow)
            BY <1>1, <1>3, <2>2, <4>2, <5>1 DEF ValuesInv
          <5>3. storeLog[k][Len(storeLog[k])].until = Of(table, k).until
            BY <5>2 DEF LastIs
          <5>4. Of(table, k).until \in Nat
            <6>1. PICK i \in 1..Len(table) : table[i].key = k
              BY <1>1, <4>2, <5>1 DEF Has, StoreTable
            <6>2. Of(table, k) = table[i] /\ table[i] \in Entries
              BY <1>1, <6>1, OfFacts DEF StoreTable
            <6> QED
              BY <6>2 DEF Entries
          <5> QED
            BY <1>1, <4>1, <5>1, <5>2, <5>3, <5>4
        <4>3. CASE ~Has(table, x)
          <5>1. OwedIn(table', since, storeLog, x) = OwedIn(table, since, storeLog, x)
            BY <3>4, <4>3 DEF OwedIn
          <5> QED
            BY <1>1, <3>4, <4>1, <4>3, <5>1 DEF ValuesInv
        <4> QED
          BY <4>2, <4>3
      <3>5. StoreTable(table, Entries, since)'
        BY <1>2, <3>2 DEF StoreTable, Entries
      <3>6. \A x \in Sids : ~Has(table, x)' =>
              LET mine == OwedIn(table, since, storeLog, x)'
              IN  mine = <<>> \/ mine[Len(mine)].until <= storeNow'
        BY <1>2, <3>4 DEF OwedIn, Has
      <3> QED
        BY <1>1, <1>2, <3>3, <3>5, <3>6 DEF ValuesInv, Has, Of
    <2> QED
      BY <2>1, <2>2
  <1> QED
    BY <1>1, <1>2, <1>8, <1>9 DEF StoreInv

\* A step of the store
LEMMA StoreStep == StoreInv /\ PyStore!PythonNext => StoreInv'
  <1> SUFFICES ASSUME StoreInv, PyStore!PythonNext PROVE StoreInv'
    OBVIOUS
  <1>1. ASSUME NEW t \in Instances, NEW k \in Sids, NEW value \in Contents \cup {None},
               PyStore!Call(t, k, value)
        PROVE  StoreInv'
    BY <1>1, CallKeeps
  <1>2. ASSUME NEW t \in Instances, PyStore!ClaimOnce(t) PROVE StoreInv'
    BY <1>2, ClaimKeeps
  <1>3. ASSUME NEW t \in Instances, PyStore!Hit(t) PROVE StoreInv'
    BY <1>3, HitKeeps
  <1>4. ASSUME NEW t \in Instances, PyStore!SetValue(t) PROVE StoreInv'
    BY <1>4, SetKeeps
  <1>5. ASSUME NEW k \in Sids, PyStore!GetValue(k) PROVE StoreInv'
    BY <1>5, GetKeeps
  <1>6. CASE PyStore!PythonTick
    BY <1>6, StoreTickKeeps
  <1> QED
    BY <1>1, <1>2, <1>3, <1>4, <1>5, <1>6 DEF PyStore!PythonNext

---------------------------------------------------------------------------
(* Lists that keep their newest entries: the end of all that was appended. *)

IsEnd(end, list) ==
  /\ Len(end) <= Len(list)
  /\ \A i \in 1..Len(end) : end[i] = list[Len(list) - Len(end) + i]

LEMMA NewestFacts ==
  ASSUME NEW S, NEW list \in Seq(S), NEW cap \in Nat
  PROVE  /\ NewestOnly(list, cap) \in Seq(S)
         /\ Len(NewestOnly(list, cap)) = IF Len(list) > cap THEN cap ELSE Len(list)
         /\ IsEnd(NewestOnly(list, cap), list)
  <1> DEFINE n == Len(list)
  <1>1. n \in Nat /\ \A i \in 1..n : list[i] \in S
    OBVIOUS
  <1>2. CASE n > cap
    <2>1. NewestOnly(list, cap) = SubSeq(list, n - cap + 1, n)
      BY <1>2 DEF NewestOnly
    <2>2. n - cap + 1 \in 1..n + 1
      BY <1>1, <1>2
    <2>3. /\ SubSeq(list, n - cap + 1, n) \in Seq(S)
          /\ Len(SubSeq(list, n - cap + 1, n)) = cap
          /\ \A i \in 1..cap : SubSeq(list, n - cap + 1, n)[i] = list[n - cap + i]
      BY <1>1, <1>2, <2>2
    <2> QED
      BY <1>1, <1>2, <2>1, <2>3 DEF IsEnd
  <1>3. CASE ~(n > cap)
    <2>1. NewestOnly(list, cap) = list
      BY <1>3 DEF NewestOnly
    <2> QED
      BY <1>1, <1>3, <2>1 DEF IsEnd
  <1> QED
    BY <1>2, <1>3

\* Two ends of a list of the same length are the same.
LEMMA EndsEqual ==
  ASSUME NEW S, NEW a \in Seq(S), NEW b \in Seq(S), NEW list \in Seq(S),
         IsEnd(a, list), IsEnd(b, list), Len(a) = Len(b)
  PROVE  a = b
  BY DEF IsEnd

LEMMA EndGrows ==
  ASSUME NEW S, NEW end \in Seq(S), NEW list \in Seq(S), NEW x \in S, IsEnd(end, list)
  PROVE  IsEnd(Append(end, x), Append(list, x))
  BY DEF IsEnd

LEMMA EndOfEnd ==
  ASSUME NEW S, NEW a \in Seq(S), NEW b \in Seq(S), NEW list \in Seq(S),
         IsEnd(a, b), IsEnd(b, list)
  PROVE  IsEnd(a, list)
  BY DEF IsEnd

\* Dropping the oldest before and after an entry is added, or only after it.
LEMMA NewestAppended ==
  ASSUME NEW S, NEW list \in Seq(S), NEW x \in S, NEW cap \in Nat \ {0}
  PROVE  NewestOnly(Append(NewestOnly(list, cap), x), cap) = NewestOnly(Append(list, x), cap)
  <1> DEFINE short == NewestOnly(list, cap)
             left == NewestOnly(Append(short, x), cap)
             right == NewestOnly(Append(list, x), cap)
  <1>1. /\ short \in Seq(S) /\ IsEnd(short, list)
        /\ Len(short) = IF Len(list) > cap THEN cap ELSE Len(list)
    BY NewestFacts
  <1> HIDE DEF short
  <1>2. Append(list, x) \in Seq(S) /\ Append(short, x) \in Seq(S)
    BY <1>1
  <1>3. /\ left \in Seq(S) /\ IsEnd(left, Append(short, x))
        /\ Len(left) = IF Len(Append(short, x)) > cap THEN cap ELSE Len(Append(short, x))
    BY <1>2, NewestFacts
  <1>4. /\ right \in Seq(S) /\ IsEnd(right, Append(list, x))
        /\ Len(right) = IF Len(Append(list, x)) > cap THEN cap ELSE Len(Append(list, x))
    BY <1>2, NewestFacts
  <1> HIDE DEF left, right
  <1>5. IsEnd(left, Append(list, x))
    BY <1>1, <1>2, <1>3, EndGrows, EndOfEnd
  <1>6. Len(left) = Len(right)
    BY <1>1, <1>3, <1>4
  <1>7. left = right
    BY <1>2, <1>3, <1>4, <1>5, <1>6, EndsEqual
  <1> QED
    BY <1>7 DEF left, right, short

---------------------------------------------------------------------------
(* PythonSessions: the table of sessions                                   *)

Ids == [s \in Nat |-> s]
TrackerTable(l, n, others) ==
  /\ l \in Seq(Nat) /\ \A i \in 1..Len(l) : l[i] \in 1..n
  /\ Distinct(l, Ids) /\ InOrder(l, Ids, others)

ServedOK(r) ==
  /\ r.pc \in {"asking", "given", "recording", "done"}
  /\ r.browser \in Instances /\ r.sid \in 0..Len(sessions) /\ r.stamp \in Nat
  /\ r.pc # "asking" => r.sid # 0
  /\ r.pc \in {"asking", "recording"} => r.stamp \in (trackerNow - MaxWait)..trackerNow

Sessions == [lastSeen : Nat, times : Seq(Nat)]
Entered(list) == {list[i] : i \in 1..Len(list)}
ListedInv ==
  /\ recorded \in Seq(Seq(Nat)) /\ Len(recorded) = Len(sessions)
  /\ \A s \in 1..Len(sessions) : sessions[s].times = NewestOnly(recorded[s], MaxListed)

HeapInv ==
  /\ trackerNow \in Nat
  /\ sessions \in Seq(Sessions)
  /\ newer \in Seq(SUBSET Nat) /\ Len(newer) = Len(sessions)
  /\ \A s \in 1..Len(sessions) : IsFiniteSet(newer[s])
  /\ TrackerTable(order, Len(sessions), newer)
  /\ seen \in Seq(Nat) /\ Len(seen) = Len(sessions)
  /\ \A s \in 1..Len(sessions) :
       /\ sessions[s].lastSeen <= seen[s] /\ seen[s] <= sessions[s].lastSeen + MaxWait
       /\ seen[s] <= trackerNow
  /\ cookies \in [Instances -> 0..Len(sessions)]
  /\ wronged = {}

Served == [pc : {"asking", "given", "recording", "done"}, browser : Instances, sid : Nat, stamp : Nat,
           isNew : BOOLEAN]
ServedInv ==
  /\ threads \in Seq(Served)
  /\ \A r \in 1..Len(threads) : ServedOK(threads[r])
  /\ \A s \in 1..Len(sessions) : Entered(recorded[s]) \subseteq 1..Len(threads)
  /\ \A r \in 1..Len(threads), s \in 1..Len(sessions) :
       r \in Entered(recorded[s]) <=> s = threads[r].sid /\ threads[r].pc = "done"

TrackerInv == HeapInv /\ ListedInv /\ ServedInv

LEMMA EnteredFacts ==
  /\ Entered(<<>>) = {}
  /\ \A list \in Seq(Nat), x \in Nat : Entered(Append(list, x)) = Entered(list) \cup {x}
  /\ \A list \in Seq(Nat) : \A x : PyTracker!Held(x, list) <=> x \in Entered(list)
  <1>1. Entered(<<>>) = {}
    BY DEF Entered
  <1>2. ASSUME NEW list \in Seq(Nat), NEW x \in Nat
        PROVE  Entered(Append(list, x)) = Entered(list) \cup {x}
    <2> DEFINE n == Len(list)
               all == Append(list, x)
    <2>1. n \in Nat /\ Len(all) = n + 1 /\ all[n + 1] = x
          /\ \A i \in 1..n : all[i] = list[i]
      OBVIOUS
    <2>2. \A i \in 1..n + 1 : i \in 1..n \/ i = n + 1
      BY <2>1
    <2>3. n + 1 \in 1..n + 1 /\ \A i \in 1..n : i \in 1..n + 1
      BY <2>1
    <2> HIDE DEF all, n
    <2>4. {all[i] : i \in 1..n + 1} = {list[i] : i \in 1..n} \cup {x}
      BY <2>1, <2>2, <2>3
    <2> QED
      BY <2>1, <2>4 DEF Entered, all, n
  <1>3. ASSUME NEW list \in Seq(Nat), NEW x
        PROVE  PyTracker!Held(x, list) <=> x \in Entered(list)
    BY DEF PyTracker!Held, Entered
  <1> QED
    BY <1>1, <1>2, <1>3

\* What a session lists is not disturbed by a step that records nothing.
LEMMA ListedStays ==
  ASSUME ListedInv, UNCHANGED <<sessions, recorded>>
  PROVE  ListedInv'
  BY DEF ListedInv

LEMMA SameTrackerOperators ==
  /\ \A S : PyTracker!Max(S) = Max(S)
  /\ \A S : PyTracker!Min(S) = Min(S)
  /\ \A S : PyTracker!Cardinality(S) = Cardinality(S)
  <1>1. \A S : PyTracker!Max(S) = Max(S) /\ PyTracker!Min(S) = Min(S)
    BY DEF PyTracker!Max, PyTracker!Min, Max, Min
  <1>2. \A S : PyTracker!Cardinality(S) = Cardinality(S)
    BY DEF PyTracker!Cardinality, Cardinality
  <1> QED
    BY <1>1, <1>2

LEMMA TrackerInitInv == PyTracker!TrackerInit => TrackerInv
  <1> SUFFICES ASSUME PyTracker!TrackerInit PROVE TrackerInv
    OBVIOUS
  <1>1. /\ trackerNow = 1 /\ sessions = <<>> /\ order = <<>> /\ newer = <<>> /\ seen = <<>>
        /\ recorded = <<>>
        /\ threads = <<>> /\ cookies = [b \in Instances |-> 0] /\ wronged = {}
    BY DEF PyTracker!TrackerInit
  <1>2. TrackerTable(order, Len(sessions), newer)
    BY <1>1 DEF TrackerTable, Distinct, InOrder
  <1>3. /\ Len(sessions) = 0 /\ Len(newer) = 0 /\ Len(seen) = 0 /\ Len(threads) = 0
        /\ sessions \in Seq(Sessions)
        /\ newer \in Seq(SUBSET Nat) /\ seen \in Seq(Nat)
        /\ threads \in Seq(Served)
        /\ recorded \in Seq(Seq(Nat)) /\ Len(recorded) = 0
    BY <1>1
  <1>4. cookies \in [Instances -> 0..Len(sessions)]
    BY <1>1, <1>3
  <1>5. 1..0 = {}
    OBVIOUS
  <1> QED
    BY <1>1, <1>2, <1>3, <1>4, <1>5 DEF TrackerInv, HeapInv, ListedInv, ServedInv

\* A session is taken out of the table.
TakenOut(m, s) ==
  /\ TrackerTable(m, Len(sessions), newer) /\ \A i \in 1..Len(m) : m[i] # s
  /\ \A j \in 1..Len(order) : order[j] # s => \E i \in 1..Len(m) : m[i] = order[j]

LEMMA TakenOutFacts ==
  ASSUME TrackerTable(order, Len(sessions), newer), NEW s
  PROVE  TakenOut(PyTracker!Removed(s, order), s)
  <1> DEFINE m == PyTracker!Removed(s, order)
             n == Len(sessions)
             p == CHOOSE j \in DOMAIN order : order[j] = s
  <1>1. /\ order \in Seq(Nat) /\ DOMAIN order = 1..Len(order) /\ Len(order) \in Nat
        /\ \A i \in 1..Len(order) : order[i] \in 1..n
        /\ Distinct(order, Ids) /\ InOrder(order, Ids, newer)
    BY DEF TrackerTable
  <1>2. CASE ~PyTracker!Held(s, order)
    <2>1. m = order
      BY <1>2 DEF PyTracker!Removed
    <2>2. \A i \in 1..Len(order) : order[i] # s
      BY <1>1, <1>2 DEF PyTracker!Held
    <2> QED
      BY <2>1, <2>2 DEF TakenOut
  <1>3. CASE PyTracker!Held(s, order)
    <2>1. p \in 1..Len(order) /\ order[p] = s
      BY <1>1, <1>3 DEF PyTracker!Held
    <2>2. m = Without1(order, p)
      BY <1>3 DEF PyTracker!Removed, Without1
    <2> HIDE DEF p, m
    <2>3. Ids \in [Nat -> Nat] /\ \A i \in Nat : Ids[i] = i
      BY DEF Ids
    <2>4. RemovedAs(m, order, p, Nat, Ids, newer)
      BY <1>1, <2>1, <2>2, <2>3, RemoveFacts
    <2>5. /\ m \in Seq(Nat) /\ Distinct(m, Ids) /\ InOrder(m, Ids, newer)
          /\ \A i \in 1..Len(m) : Ids[m[i]] # Ids[s] /\ \E j \in 1..Len(order) : m[i] = order[j]
          /\ \A j \in 1..Len(order) : j # p => \E i \in 1..Len(m) : m[i] = order[j]
      BY <2>1, <2>4 DEF RemovedAs
    <2>6. \A i \in 1..Len(m) : m[i] # s /\ m[i] \in 1..n
      BY <1>1, <2>5
    <2>7. \A j \in 1..Len(order) : order[j] # s => \E i \in 1..Len(m) : m[i] = order[j]
      BY <2>1, <2>5
    <2> QED
      BY <2>5, <2>6, <2>7 DEF TakenOut, TrackerTable, m
  <1> QED
    BY <1>2, <1>3

\* One comes last, and the first d leave.
LEMMA ListedLast ==
  ASSUME NEW n \in Nat, NEW m, NEW others, TrackerTable(m, n, others),
         NEW count \in Nat, n <= count, NEW e \in 1..count, NEW d \in 0..Len(m), NEW grown,
         ComesLast(m, Ids, e, others, grown)
  PROVE  TrackerTable(Added(m, d, e), count, grown)
  <1> DEFINE out == Added(m, d, e)
             r == Len(m) - d
  <1>1. m \in Seq(Nat) /\ Distinct(m, Ids) /\ InOrder(m, Ids, others)
        /\ \A i \in 1..Len(m) : m[i] \in 1..n
    BY DEF TrackerTable
  <1>2. e \in Nat /\ Ids \in [Nat -> Nat]
    BY DEF Ids
  <1>3. Distinct(out, Ids) /\ InOrder(out, Ids, grown)
    BY <1>1, <1>2, AppendFacts
  <1>4. /\ out \in Seq(Nat) /\ Len(out) = r + 1 /\ out[r + 1] = e
        /\ \A i \in 1..r : out[i] = m[i + d]
    <2>1. ASSUME NEW T, m \in Seq(T), e \in T
          PROVE  /\ Added(m, d, e) \in Seq(T) /\ Len(Added(m, d, e)) = Len(m) - d + 1
                 /\ Added(m, d, e)[Len(m) - d + 1] = e
                 /\ \A i \in 1..Len(m) - d : Added(m, d, e)[i] = m[i + d]
      BY <2>1, AddedEntries
    <2> QED
      BY <1>1, <1>2, <2>1
  <1>5. r \in Nat /\ \A i \in 1..r : i + d \in 1..Len(m)
    BY <1>1
  <1> HIDE DEF out, r
  <1>6. \A i \in 1..r + 1 : out[i] \in 1..count
    <2>1. ASSUME NEW i \in 1..r PROVE out[i] \in 1..count
      <3>1. out[i] = m[i + d] /\ m[i + d] \in 1..n
        BY <1>1, <1>4, <1>5
      <3> QED
        BY <3>1
    <2>2. \A i \in 1..r + 1 : i = r + 1 \/ i \in 1..r
      BY <1>5
    <2> QED
      BY <1>4, <2>1, <2>2
  <1> QED
    BY <1>3, <1>4, <1>6 DEF TrackerTable, out

\* A request goes on.
GoesOn(r, pc, sid, stamp) ==
  /\ threads' \in Seq(Served) /\ Len(threads') = Len(threads)
  /\ threads'[r].pc = pc /\ threads'[r].sid = sid /\ threads'[r].stamp = stamp
  /\ threads'[r].browser = threads[r].browser
  /\ \A x \in 1..Len(threads) : x # r => threads'[x] = threads[x]

LEMMA GoesOnFacts ==
  ASSUME threads \in Seq(Served), NEW r \in 1..Len(threads),
         NEW e \in Served, e.browser = threads[r].browser,
         threads' = [threads EXCEPT ![r] = e]
  PROVE  GoesOn(r, e.pc, e.sid, e.stamp)
  <1> DEFINE n == Len(threads)
  <1>1. threads' \in Seq(Served) /\ Len(threads') = n /\ threads'[r] = e
        /\ \A x \in 1..n : x # r => threads'[x] = threads[x]
    OBVIOUS
  <1> QED
    BY <1>1 DEF GoesOn

\* What goes on is still right.
GoesOnWell(pc, sid, stamp, count) ==
  /\ pc \in {"asking", "given", "recording", "done"}
  /\ sid \in 0..count /\ stamp \in Nat
  /\ pc # "asking" => sid # 0
  /\ pc \in {"asking", "recording"} => stamp \in (trackerNow - MaxWait)..trackerNow

LEMMA GoesOnKeeps ==
  ASSUME HeapInv, ServedInv, NEW r \in 1..Len(threads),
         NEW pc, NEW sid, NEW stamp, GoesOn(r, pc, sid, stamp),
         trackerNow' = trackerNow, Len(sessions') \in Nat, Len(sessions) <= Len(sessions'),
         GoesOnWell(pc, sid, stamp, Len(sessions'))
  PROVE  \A x \in 1..Len(threads') : ServedOK(threads[x])'
  <1> TAKE x \in 1..Len(threads')
  <1>1. Len(sessions) \in Nat /\ Len(threads') = Len(threads)
    BY DEF HeapInv, GoesOn
  <1>2. CASE x # r
    <2>1. threads'[x] = threads[x] /\ ServedOK(threads[x])
      BY <1>1, <1>2 DEF GoesOn, ServedInv
    <2>2. threads[x].sid \in 0..Len(sessions')
      BY <1>1, <2>1 DEF ServedOK
    <2> QED
      BY <2>1, <2>2 DEF ServedOK
  <1>3. CASE x = r
    <2>1. threads[r].browser \in Instances
      BY DEF ServedInv, ServedOK
    <2> QED
      BY <1>3, <2>1 DEF GoesOn, GoesOnWell, ServedOK
  <1> QED
    BY <1>2, <1>3

LEMMA BeginKeeps ==
  ASSUME TrackerInv, NEW b \in Instances, PyTracker!Begin(b)
  PROVE  TrackerInv'
  <1> DEFINE n == Len(threads)
             e == [pc |-> "asking", browser |-> b, sid |-> cookies[b], stamp |-> trackerNow,
                   isNew |-> FALSE]
  <1>0. MaxWait \in Nat
    BY SharedTablesAssumption DEF PyTracker!TrackerAssumption
  <1>1. HeapInv /\ ListedInv /\ ServedInv /\ trackerNow \in Nat /\ cookies[b] \in 0..Len(sessions)
        /\ Len(sessions) \in Nat
    BY DEF TrackerInv, HeapInv
  <1>2. /\ threads' = Append(threads, e)
        /\ UNCHANGED <<trackerNow, sessions, order, cookies, recorded, newer, seen, wronged>>
    BY DEF PyTracker!Begin
  <1>3. HeapInv'
    BY <1>1, <1>2 DEF HeapInv
  <1>4. e \in Served /\ e.pc = "asking" /\ e.sid = cookies[b] /\ e.stamp = trackerNow
        /\ e.browser = b
    <2>1. cookies[b] \in Nat
      BY <1>1
    <2> QED
      BY <1>1, <2>1 DEF Served
  <1> HIDE DEF e
  <1>5. /\ threads \in Seq(Served) /\ n \in Nat
        /\ threads' \in Seq(Served) /\ Len(threads') = n + 1 /\ threads'[n + 1] = e
        /\ \A x \in 1..n : threads'[x] = threads[x]
    BY <1>1, <1>2, <1>4 DEF ServedInv
  <1>6. \A x \in 1..n + 1 : x = n + 1 \/ x \in 1..n
    BY <1>5
  <1>7. \A x \in 1..n + 1 : ServedOK(threads[x])'
    <2>1. ASSUME NEW x \in 1..n PROVE ServedOK(threads[x])'
      <3>1. ServedOK(threads[x])
        BY <1>1 DEF ServedInv
      <3> QED
        BY <1>2, <1>5, <3>1 DEF ServedOK
    <2>2. ASSUME NEW x, x = n + 1 PROVE ServedOK(threads[x])'
      <3>1. trackerNow \in (trackerNow - MaxWait)..trackerNow
        BY <1>0, <1>1
      <3> QED
        BY <1>1, <1>2, <1>4, <1>5, <2>2, <3>1 DEF ServedOK
    <2> QED
      BY <1>6, <2>1, <2>2
  <1>8. \A s \in 1..Len(sessions) : Entered(recorded[s]) \subseteq 1..n + 1
    <2>1. \A s \in 1..Len(sessions) : Entered(recorded[s]) \subseteq 1..n
      BY <1>1 DEF ServedInv
    <2>2. \A x \in 1..n : x \in 1..n + 1
      BY <1>5
    <2> QED
      BY <2>1, <2>2
  <1>9. ASSUME NEW x \in 1..n + 1, NEW s \in 1..Len(sessions)
        PROVE  x \in Entered(recorded[s]) <=> s = threads'[x].sid /\ threads'[x].pc = "done"
    <2>1. CASE x \in 1..n
      BY <1>1, <1>5, <2>1 DEF ServedInv
    <2>2. CASE x = n + 1
      <3>1. x \notin 1..n
        BY <1>5, <2>2
      <3>2. x \notin Entered(recorded[s])
        BY <1>1, <3>1 DEF ServedInv
      <3> QED
        BY <1>4, <1>5, <2>2, <3>2
    <2> QED
      BY <1>6, <2>1, <2>2
  <1>10. ServedInv'
    BY <1>2, <1>5, <1>7, <1>8, <1>9 DEF ServedInv
  <1> QED
    BY <1>1, <1>2, <1>3, <1>10, ListedStays DEF TrackerInv

LEMMA ClockKeeps ==
  ASSUME TrackerInv, NEW r \in 1..Len(threads), PyTracker!Clock(r)
  PROVE  TrackerInv'
  <1>0. MaxWait \in Nat
    BY SharedTablesAssumption DEF PyTracker!TrackerAssumption
  <1>1. HeapInv /\ ListedInv /\ ServedInv /\ trackerNow \in Nat /\ threads \in Seq(Served)
        /\ Len(sessions) \in Nat /\ ServedOK(threads[r]) /\ threads[r] \in Served
    BY DEF TrackerInv, HeapInv, ServedInv
  <1>2. /\ threads[r].pc = "given"
        /\ threads' = [threads EXCEPT ![r].pc = "recording", ![r].stamp = trackerNow]
        /\ UNCHANGED <<trackerNow, sessions, order, cookies, recorded, newer, seen, wronged>>
    BY DEF PyTracker!Clock
  <1>3. HeapInv'
    BY <1>1, <1>2 DEF HeapInv
  <1>4. GoesOn(r, "recording", threads[r].sid, trackerNow)
    <2> DEFINE e == [threads[r] EXCEPT !.pc = "recording", !.stamp = trackerNow]
    <2>1. threads' = [threads EXCEPT ![r] = e]
      BY <1>1, <1>2
    <2>2. e \in Served /\ e.pc = "recording" /\ e.stamp = trackerNow
          /\ e.browser = threads[r].browser /\ e.sid = threads[r].sid
      BY <1>1 DEF Served
    <2> HIDE DEF e
    <2>3. GoesOn(r, e.pc, e.sid, e.stamp)
      BY <1>1, <2>1, <2>2, GoesOnFacts
    <2> QED
      BY <2>2, <2>3
  <1>5. GoesOnWell("recording", threads[r].sid, trackerNow, Len(sessions))
    <2>1. trackerNow \in (trackerNow - MaxWait)..trackerNow
      BY <1>0, <1>1
    <2> QED
      BY <1>1, <1>2, <2>1 DEF GoesOnWell, ServedOK
  <1>6. \A x \in 1..Len(threads') : ServedOK(threads[x])'
    <2>1. Len(sessions') = Len(sessions) /\ Len(sessions) <= Len(sessions')
      BY <1>1, <1>2
    <2> QED
      BY <1>1, <1>2, <1>4, <1>5, <2>1, GoesOnKeeps
  <1>7. ASSUME NEW x \in 1..Len(threads), NEW s \in 1..Len(sessions)
        PROVE  x \in Entered(recorded[s]) <=> s = threads'[x].sid /\ threads'[x].pc = "done"
    BY <1>1, <1>2, <1>4 DEF GoesOn, ServedInv
  <1>8. ServedInv'
    BY <1>1, <1>2, <1>4, <1>6, <1>7 DEF ServedInv, GoesOn
  <1> QED
    BY <1>1, <1>2, <1>3, <1>8, ListedStays DEF TrackerInv

LEMMA TrackerTickKeeps ==
  ASSUME TrackerInv, PyTracker!TrackerTick
  PROVE  TrackerInv'
  <1>0. MaxWait \in Nat
    BY SharedTablesAssumption DEF PyTracker!TrackerAssumption
  <1>1. HeapInv /\ ListedInv /\ ServedInv /\ trackerNow \in Nat /\ threads \in Seq(Served)
    BY DEF TrackerInv, HeapInv, ServedInv
  <1>2. /\ trackerNow' = trackerNow + 1
        /\ \A r \in 1..Len(threads) :
             threads[r].pc \in {"asking", "recording"} => trackerNow < threads[r].stamp + MaxWait
        /\ UNCHANGED <<sessions, order, threads, cookies, recorded, newer, seen, wronged>>
    BY <1>1 DEF PyTracker!TrackerTick
  <1>3. HeapInv'
    <2>1. \A s \in 1..Len(sessions) : seen[s] <= trackerNow + 1
      BY <1>1 DEF HeapInv
    <2> QED
      BY <1>1, <1>2, <2>1 DEF HeapInv
  <1>4. ASSUME NEW r \in 1..Len(threads) PROVE ServedOK(threads[r])'
    <2>1. ServedOK(threads[r])
      BY <1>1 DEF ServedInv
    <2>2. threads[r].pc \in {"asking", "recording"} =>
            threads[r].stamp \in (trackerNow' - MaxWait)..trackerNow'
      <3> SUFFICES ASSUME threads[r].pc \in {"asking", "recording"}
                   PROVE  threads[r].stamp \in (trackerNow' - MaxWait)..trackerNow'
        OBVIOUS
      <3>1. /\ threads[r].stamp \in Nat /\ threads[r].stamp \in (trackerNow - MaxWait)..trackerNow
            /\ trackerNow < threads[r].stamp + MaxWait
        BY <1>2, <2>1 DEF ServedOK
      <3> QED
        BY <1>0, <1>1, <1>2, <3>1
    <2> QED
      BY <1>2, <2>1, <2>2 DEF ServedOK
  <1>5. ServedInv'
    BY <1>1, <1>2, <1>4 DEF ServedInv
  <1> QED
    BY <1>1, <1>2, <1>3, <1>5, ListedStays DEF TrackerInv

LEMMA ResumeKeeps ==
  ASSUME TrackerInv, NEW r \in 1..Len(threads), PyTracker!Resume(r)
  PROVE  TrackerInv'
  <1> DEFINE s == threads[r].sid
             n == Len(sessions)
             m == PyTracker!Removed(s, order)
  <1>1. /\ HeapInv /\ ListedInv /\ ServedInv /\ trackerNow \in Nat /\ threads \in Seq(Served)
        /\ n \in Nat /\ ServedOK(threads[r]) /\ threads[r] \in Served
        /\ sessions \in Seq(Sessions) /\ DOMAIN sessions = 1..n
        /\ newer \in Seq(SUBSET Nat) /\ Len(newer) = n
        /\ \A x \in 1..n : IsFiniteSet(newer[x])
        /\ TrackerTable(order, n, newer)
    BY DEF TrackerInv, HeapInv, ServedInv
  <1>2. /\ threads[r].pc = "asking" /\ s # 0
        /\ order' = Append(m, s)
        /\ newer' = [x \in 1..n |-> IF x = s THEN {} ELSE newer[x] \cup {s}]
        /\ threads' = [threads EXCEPT ![r].pc = "given", ![r].sid = s, ![r].stamp = 0,
                                        ![r].isNew = FALSE]
        /\ UNCHANGED <<trackerNow, sessions, cookies, recorded, seen, wronged>>
    BY <1>1 DEF PyTracker!Resume, PyTracker!Resumable, PyTracker!Obtained, PyTracker!MovedToEnd
  <1>3. s \in 1..n
    BY <1>1, <1>2 DEF ServedOK
  <1>4. GoesOn(r, "given", s, 0)
    <2> DEFINE e == [threads[r] EXCEPT !.pc = "given", !.sid = s, !.stamp = 0, !.isNew = FALSE]
    <2>1. threads' = [threads EXCEPT ![r] = e]
      BY <1>1, <1>2
    <2>2. e \in Served /\ e.pc = "given" /\ e.stamp = 0
          /\ e.browser = threads[r].browser /\ e.sid = s
      BY <1>1 DEF Served
    <2> HIDE DEF e
    <2>3. GoesOn(r, e.pc, e.sid, e.stamp)
      BY <1>1, <2>1, <2>2, GoesOnFacts
    <2> QED
      BY <2>2, <2>3
  <1> HIDE DEF s, m, n
  <1>5. /\ newer' \in Seq(SUBSET Nat) /\ Len(newer') = n
        /\ \A x \in 1..n : IsFiniteSet(newer'[x])
        /\ \A x \in 1..n : x # s => newer'[x] = newer[x] \cup {s}
    <2>1. newer' \in [1..n -> SUBSET Nat]
      BY <1>1, <1>2, <1>3
    <2>2. newer' \in Seq(SUBSET Nat) /\ Len(newer') = n
      BY <1>1, <2>1
    <2>3. ASSUME NEW x \in 1..n PROVE IsFiniteSet(newer'[x])
      <3>1. CASE x = s
        BY <1>2, <3>1, FS_EmptySet
      <3>2. CASE x # s
        BY <1>1, <1>2, <3>2, FS_AddElement
      <3> QED
        BY <3>1, <3>2
    <2> QED
      BY <1>2, <2>2, <2>3
  <1>6. TrackerTable(order', n, newer')
    <2>1. TakenOut(m, s)
      BY <1>1, TakenOutFacts DEF m, n
    <2>2. TrackerTable(m, n, newer) /\ m \in Seq(Nat)
          /\ \A i \in 1..Len(m) : m[i] # s /\ m[i] \in 1..n
      BY <2>1 DEF TakenOut, TrackerTable, n
    <2>3. ComesLast(m, Ids, s, newer, newer')
      <3>1. \A x \in Nat : Ids[x] = x
        BY DEF Ids
      <3>2. s \in Nat /\ \A i \in 1..Len(m) : m[i] \in Nat
        BY <1>1, <1>3, <2>2
      <3> QED
        BY <1>5, <2>2, <3>1, <3>2 DEF ComesLast
    <2>4. TrackerTable(Added(m, 0, s), n, newer')
      <3>1. n <= n /\ 0 \in 0..Len(m)
        BY <1>1, <2>2
      <3> QED
        BY <1>1, <1>3, <2>2, <2>3, <3>1, ListedLast
    <2>5. m = SubSeq(m, 1, Len(m))
      BY <2>2, AllIsRest
    <2>6. Append(m, s) = Added(m, 0, s)
      BY <2>5 DEF Added
    <2> QED
      BY <1>2, <2>4, <2>6
  <1>7. HeapInv'
    <2>1. Len(sessions') = n
      BY <1>2 DEF n
    <2> QED
      BY <1>1, <1>2, <1>5, <1>6, <2>1 DEF HeapInv, n
  <1>8. \A x \in 1..Len(threads') : ServedOK(threads[x])'
    <2>1. GoesOnWell("given", s, 0, n)
      BY <1>1, <1>3 DEF GoesOnWell
    <2>2. Len(sessions') = n /\ Len(sessions) <= Len(sessions')
      BY <1>1, <1>2 DEF n
    <2> QED
      BY <1>1, <1>2, <1>4, <2>1, <2>2, GoesOnKeeps
  <1>9. ASSUME NEW x \in 1..Len(threads), NEW y \in 1..Len(sessions)
        PROVE  x \in Entered(recorded[y]) <=> y = threads'[x].sid /\ threads'[x].pc = "done"
    BY <1>1, <1>2, <1>4 DEF GoesOn, ServedInv
  <1>10. ServedInv'
    BY <1>1, <1>2, <1>4, <1>8, <1>9 DEF ServedInv, GoesOn
  <1> QED
    BY <1>1, <1>2, <1>7, <1>10, ListedStays DEF TrackerInv

\* A few expired sessions leave the front, then the oldest beyond the cap.
LEMMA EvictedFacts ==
  ASSUME NEW m \in Seq(Nat), NEW stamp
  PROVE  \E d \in 0..Len(m) :
           /\ PyTracker!Evicted(m, stamp) = SubSeq(m, d + 1, Len(m))
           /\ \A i \in 1..d : \/ stamp - sessions[m[i]].lastSeen > MaxAge
                              \/ Len(m) - i >= MaxSessions - 1
  <1> DEFINE n == Len(m)
             Old(i) == stamp - sessions[m[i]].lastSeen > MaxAge
             X == {i \in 1..n : Old(i)}
             b == Min({MaxDrops, n})
             D1 == {j \in 0..b : \A i \in 1..j : Old(i)}
             D2 == {j \in 0..b : \A i \in 1..j : i \in X}
             d == Max(D2) + Max({0, n - Max(D2) - MaxSessions + 1})
  <1>0. MaxDrops \in Nat /\ MaxSessions \in Nat \ {0}
    BY SharedTablesAssumption DEF PyTracker!TrackerAssumption
  <1>1. n \in Nat
    OBVIOUS
  <1>2. PyTracker!Evicted(m, stamp)
          = SubSeq(m, Max(D1) + Max({0, n - Max(D1) - MaxSessions + 1}) + 1, n)
    BY SameTrackerOperators DEF PyTracker!Evicted
  <1> HIDE DEF Old
  <1>3. D1 = D2
    <2>1. b \in 0..n
      BY <1>0, <1>1, MinOfTwo
    <2> HIDE DEF b, n
    <2>2. \A j \in 0..b : \A i \in 1..j : i \in 1..n
      BY <1>1, <2>1
    <2>3. \A j \in 0..b : (\A i \in 1..j : Old(i)) <=> (\A i \in 1..j : i \in X)
      BY <2>2
    <2> QED
      BY <2>3
  <1>4. PyTracker!Evicted(m, stamp) = SubSeq(m, d + 1, n)
    BY <1>2, <1>3
  <1> HIDE DEF X, n
  <1>5. /\ d \in 0..n
        /\ \A i \in 1..d : i \in X \/ n - i >= MaxSessions - 1
    BY <1>0, <1>1, RoomFacts
  <1> HIDE DEF d
  <1>6. \A i \in 1..d : Old(i) \/ n - i >= MaxSessions - 1
    BY <1>5 DEF X
  <1> QED
    BY <1>4, <1>5, <1>6 DEF n, Old

\* A session that has expired was idle.
LEMMA ExpiredIsIdle ==
  ASSUME HeapInv, NEW s \in 1..Len(sessions), NEW stamp \in Nat,
         stamp - sessions[s].lastSeen > MaxAge
  PROVE  PyTracker!Idle(s, stamp)
  <1>0. MaxWait \in Nat /\ MaxAge \in Nat
    BY SharedTablesAssumption DEF PyTracker!TrackerAssumption
  <1>1. sessions[s] \in Sessions /\ s \in 1..Len(seen)
        /\ seen \in Seq(Nat) /\ seen[s] <= sessions[s].lastSeen + MaxWait
    <2>1. sessions \in Seq(Sessions) /\ Len(seen) = Len(sessions)
          /\ seen \in Seq(Nat) /\ seen[s] <= sessions[s].lastSeen + MaxWait
      BY DEF HeapInv
    <2> QED
      BY <2>1
  <1>2. sessions[s].lastSeen \in Nat /\ seen[s] \in Nat
    BY <1>1 DEF Sessions
  <1>3. stamp - seen[s] > MaxAge - MaxWait
    <2>1. \A a, b \in Nat : b <= a + MaxWait /\ stamp - a > MaxAge =>
                              stamp - b > MaxAge - MaxWait
      BY <1>0
    <2> QED
      BY <1>1, <1>2, <2>1
  <1> QED
    BY <1>3 DEF PyTracker!Idle

\* A session that is dropped was idle, or others were obtained after it.
LEMMA NoneWronged ==
  ASSUME HeapInv, NEW s, NEW stamp \in Nat, NEW m, TakenOut(m, s),
         s \in 1..Len(sessions) => stamp - sessions[s].lastSeen > MaxAge,
         NEW e \in Nat, NEW grown, ComesLast(m, Ids, e, newer, grown),
         \A x \in 1..Len(sessions) : IsFiniteSet(grown[x]),
         PyTracker!Dropped(PyTracker!Evicted(m, stamp), grown, stamp)
  PROVE  wronged' = {}
  <1> DEFINE n == Len(sessions)
             kept == PyTracker!Evicted(m, stamp)
  <1>0. MaxSessions \in Nat \ {0}
    BY SharedTablesAssumption DEF PyTracker!TrackerAssumption
  <1>1. /\ wronged = {} /\ n \in Nat
        /\ order \in Seq(Nat) /\ DOMAIN order = 1..Len(order)
        /\ \A j \in 1..Len(order) : order[j] \in 1..n
    BY DEF HeapInv, TrackerTable
  <1>2. /\ m \in Seq(Nat) /\ \A i \in 1..Len(m) : m[i] \in 1..n
        /\ Distinct(m, Ids) /\ InOrder(m, Ids, newer)
        /\ \A j \in 1..Len(order) : order[j] # s => \E i \in 1..Len(m) : m[i] = order[j]
    BY DEF TakenOut, TrackerTable
  <1>3. PICK d \in 0..Len(m) :
          /\ kept = SubSeq(m, d + 1, Len(m))
          /\ \A i \in 1..d : \/ stamp - sessions[m[i]].lastSeen > MaxAge
                             \/ Len(m) - i >= MaxSessions - 1
    BY <1>2, EvictedFacts
  <1>4. /\ kept \in Seq(Nat) /\ Len(kept) = Len(m) - d
        /\ \A i \in 1..Len(m) - d : kept[i] = m[i + d]
    BY <1>2, <1>3, RestFacts, SMTT(30)
  <1>5. wronged' = wronged \cup
          {x \in {order[i] : i \in 1..Len(order)} :
             ~PyTracker!Held(x, kept) /\ ~PyTracker!Idle(x, stamp) /\ ~PyTracker!Crowded(x, grown)}
    BY <1>1 DEF PyTracker!Dropped
  <1> HIDE DEF kept, n
  <1>6. ASSUME NEW j \in 1..Len(order),
               ~PyTracker!Held(order[j], kept), ~PyTracker!Idle(order[j], stamp)
        PROVE  PyTracker!Crowded(order[j], grown)
    <2>1. order[j] \in 1..n
      BY <1>1
    <2>2. order[j] # s
      BY <1>6, <2>1, ExpiredIsIdle DEF n
    <2>3. PICK i \in 1..Len(m) : m[i] = order[j]
      BY <1>2, <2>2
    <2>4. i \in 1..d
      <3> SUFFICES ASSUME i \notin 1..d PROVE FALSE
        OBVIOUS
      <3>1. i - d \in 1..Len(m) - d /\ (i - d) + d = i
        BY <1>2, <1>3
      <3>2. kept[i - d] = order[j] /\ i - d \in DOMAIN kept
        BY <1>4, <2>3, <3>1, SMTT(30)
      <3> QED
        BY <1>6, <3>2 DEF PyTracker!Held
    <2>5. Len(m) - i >= MaxSessions - 1
      BY <1>3, <1>6, <2>1, <2>3, <2>4, ExpiredIsIdle DEF n
    <2>6. /\ Ids \in [Nat -> Nat] /\ \A x \in Nat : Ids[x] = x
          /\ m[i] \in Nat
      BY <1>2 DEF Ids
    <2>7. IsFiniteSet(grown[Ids[m[i]]])
      BY <2>1, <2>3, <2>6 DEF n
    <2>8. Cardinality(grown[Ids[m[i]]]) >= MaxSessions
      BY <1>0, <1>2, <2>5, <2>6, <2>7, CrowdedOut
    <2> QED
      BY <2>3, <2>6, <2>8, SameTrackerOperators DEF PyTracker!Crowded
  <1> QED
    BY <1>1, <1>5, <1>6

LEMMA CreateKeeps ==
  ASSUME TrackerInv, NEW r \in 1..Len(threads), PyTracker!Create(r)
  PROVE  TrackerInv'
  <1> DEFINE s == threads[r].sid
             stamp == threads[r].stamp
             n == Len(sessions)
             fresh == n + 1
             m == PyTracker!Removed(s, order)
             kept == PyTracker!Evicted(m, stamp)
             opened == [lastSeen |-> stamp, times |-> <<>>]
             more == [x \in 1..n |-> newer[x] \cup {fresh}]
  <1>0. MaxWait \in Nat
    BY SharedTablesAssumption DEF PyTracker!TrackerAssumption
  <1>1. /\ HeapInv /\ ListedInv /\ ServedInv /\ trackerNow \in Nat /\ threads \in Seq(Served)
        /\ n \in Nat /\ ServedOK(threads[r]) /\ threads[r] \in Served
        /\ sessions \in Seq(Sessions) /\ DOMAIN sessions = 1..n
        /\ newer \in Seq(SUBSET Nat) /\ Len(newer) = n
        /\ \A x \in 1..n : IsFiniteSet(newer[x])
        /\ TrackerTable(order, n, newer)
        /\ DOMAIN order = 1..Len(order)
        /\ seen \in Seq(Nat) /\ Len(seen) = n
    BY DEF TrackerInv, HeapInv, ServedInv, TrackerTable
  <1>2. /\ threads[r].pc = "asking" /\ ~PyTracker!Resumable(r)
        /\ sessions' = Append(sessions, opened)
        /\ order' = Append(kept, fresh)
        /\ recorded' = Append(recorded, <<>>)
        /\ newer' = Append(more, {})
        /\ seen' = Append(seen, stamp)
        /\ PyTracker!Dropped(kept, newer', stamp)
        /\ threads' = [threads EXCEPT ![r].pc = "given", ![r].sid = fresh, ![r].stamp = 0,
                                        ![r].isNew = TRUE]
        /\ UNCHANGED <<trackerNow, cookies>>
    BY <1>1 DEF PyTracker!Create, PyTracker!Obtained
  <1>3. stamp \in Nat /\ stamp <= trackerNow
    BY <1>1, <1>2 DEF ServedOK
  <1>4. GoesOn(r, "given", fresh, 0)
    <2> DEFINE e == [threads[r] EXCEPT !.pc = "given", !.sid = fresh, !.stamp = 0,
                                !.isNew = TRUE]
    <2>1. threads' = [threads EXCEPT ![r] = e]
      BY <1>1, <1>2
    <2>2. e \in Served /\ e.pc = "given" /\ e.stamp = 0
          /\ e.browser = threads[r].browser /\ e.sid = fresh
      <3>1. fresh \in Nat
        BY <1>1
      <3> HIDE DEF fresh
      <3> QED
        BY <1>1, <3>1 DEF Served
    <2> HIDE DEF e
    <2>3. GoesOn(r, e.pc, e.sid, e.stamp)
      BY <1>1, <2>1, <2>2, GoesOnFacts
    <2> QED
      BY <2>2, <2>3
  <1>5. s \in 1..n => stamp - sessions[s].lastSeen > MaxAge \/ \A i \in 1..Len(order) : order[i] # s
    <2> SUFFICES ASSUME s \in 1..n, ~(stamp - sessions[s].lastSeen > MaxAge)
                 PROVE  \A i \in 1..Len(order) : order[i] # s
      OBVIOUS
    <2>1. MaxAge \in Nat /\ sessions[s].lastSeen \in Nat
      <3>1. sessions[s] \in Sessions
        BY <1>1
      <3>2. MaxAge \in Nat
        BY SharedTablesAssumption DEF PyTracker!TrackerAssumption
      <3> QED
        BY <3>1, <3>2 DEF Sessions
    <2>2. stamp - sessions[s].lastSeen <= MaxAge
      BY <1>3, <2>1
    <2>3. s # 0
      BY <1>1
    <2>4. ~PyTracker!Tracked(s)
      BY <1>2, <2>2, <2>3 DEF PyTracker!Resumable
    <2> QED
      BY <1>1, <2>4 DEF PyTracker!Tracked
  <1>6. opened \in Sessions /\ opened.lastSeen = stamp /\ opened.times = <<>>
    BY <1>3 DEF Sessions
  <1> HIDE DEF s, stamp, m, n, kept, opened
  <1>7. /\ sessions' \in Seq(Sessions) /\ Len(sessions') = n + 1 /\ sessions'[n + 1] = opened
        /\ \A x \in 1..n : sessions'[x] = sessions[x]
    BY <1>1, <1>2, <1>6 DEF n
  <1>l. /\ recorded' \in Seq(Seq(Nat)) /\ Len(recorded') = n + 1 /\ recorded'[n + 1] = <<>>
        /\ \A x \in 1..n : recorded'[x] = recorded[x]
    BY <1>1, <1>2 DEF ListedInv, n
  <1>8. /\ newer' \in Seq(SUBSET Nat) /\ Len(newer') = n + 1 /\ newer'[n + 1] = {}
        /\ \A x \in 1..n : newer'[x] = newer[x] \cup {fresh}
        /\ \A x \in 1..n + 1 : IsFiniteSet(newer'[x])
    <2>1. more \in [1..n -> SUBSET Nat]
      <3>1. \A x \in 1..n : newer[x] \cup {fresh} \in SUBSET Nat
        BY <1>1
      <3> QED
        BY <3>1
    <2>2. /\ more \in Seq(SUBSET Nat) /\ Len(more) = n
          /\ \A x \in 1..n : more[x] = newer[x] \cup {fresh}
      BY <1>1, <2>1
    <2> HIDE DEF more, fresh
    <2>3. /\ newer' \in Seq(SUBSET Nat) /\ Len(newer') = n + 1 /\ newer'[n + 1] = {}
          /\ \A x \in 1..n : newer'[x] = newer[x] \cup {fresh}
      BY SMTT(30), <1>1, <1>2, <2>2
    <2>4. ASSUME NEW x \in 1..n + 1 PROVE IsFiniteSet(newer'[x])
      <3>1. CASE x = n + 1
        BY <2>3, <3>1, FS_EmptySet
      <3>2. CASE x \in 1..n
        <4>1. IsFiniteSet(newer[x]) /\ newer'[x] = newer[x] \cup {fresh}
          BY <1>1, <2>3, <3>2
        <4> QED
          BY <4>1, FS_AddElement
      <3> QED
        BY <1>1, <3>1, <3>2
    <2> QED
      BY <2>3, <2>4
  <1>9. /\ seen' \in Seq(Nat) /\ Len(seen') = n + 1 /\ seen'[n + 1] = stamp
        /\ \A x \in 1..n : seen'[x] = seen[x]
    BY <1>1, <1>2, <1>3
  <1>10. TakenOut(m, s)
    BY <1>1, TakenOutFacts DEF m, n
  <1>11. /\ TrackerTable(m, n, newer) /\ m \in Seq(Nat)
         /\ \A i \in 1..Len(m) : m[i] \in 1..n
    BY <1>10 DEF TakenOut, TrackerTable, n
  <1>12. ComesLast(m, Ids, fresh, newer, newer')
    <2>1. \A x \in Nat : Ids[x] = x
      BY DEF Ids
    <2>2. fresh \in Nat /\ fresh \notin 1..n /\ \A i \in 1..Len(m) : m[i] \in Nat
      BY <1>1, <1>11
    <2> HIDE DEF fresh
    <2> QED
      BY <1>8, <1>11, <2>1, <2>2 DEF ComesLast
  <1>13. TrackerTable(order', n + 1, newer')
    <2>1. PICK d \in 0..Len(m) : kept = SubSeq(m, d + 1, Len(m))
      BY <1>11, EvictedFacts DEF kept
    <2>2. n <= n + 1 /\ n + 1 \in Nat /\ fresh \in 1..n + 1
      BY <1>1
    <2>3. TrackerTable(Added(m, d, fresh), n + 1, newer')
      <3> HIDE DEF fresh
      <3> QED
        BY <1>1, <1>11, <1>12, <2>2, ListedLast
    <2> QED
      BY <1>2, <2>1, <2>3 DEF Added
  <1>14. wronged' = {}
    <2>1. fresh \in Nat /\ \A x \in 1..n : IsFiniteSet(newer'[x])
      BY <1>1, <1>8
    <2> HIDE DEF fresh
    <2>2. CASE s \in 1..n => stamp - sessions[s].lastSeen > MaxAge
      BY <1>1, <1>2, <1>3, <1>10, <1>12, <2>1, <2>2, NoneWronged DEF n, kept
    <2>3. CASE \A i \in 1..Len(order) : order[i] # s
      <3>1. TakenOut(m, 0)
        <4>1. 0 \notin 1..n
          BY <1>1
        <4> QED
          BY <1>10, <1>11, <2>3, <4>1 DEF TakenOut
      <3>2. 0 \in 1..n => stamp - sessions[0].lastSeen > MaxAge
        BY <1>1
      <3> QED
        BY <1>1, <1>2, <1>3, <1>12, <2>1, <3>1, <3>2, NoneWronged DEF n, kept
    <2> QED
      BY <1>5, <2>2, <2>3
  <1>15. \A x \in 1..n + 1 : x = n + 1 \/ x \in 1..n
    BY <1>1
  <1>16. HeapInv'
    <2>1. ASSUME NEW x \in 1..n + 1
          PROVE  /\ sessions'[x].lastSeen <= seen'[x]
                 /\ seen'[x] <= sessions'[x].lastSeen + MaxWait
                 /\ seen'[x] <= trackerNow
      <3>1. CASE x \in 1..n
        BY <1>1, <1>7, <1>9, <3>1 DEF HeapInv, n
      <3>2. CASE x = n + 1
        BY <1>0, <1>3, <1>6, <1>7, <1>9, <3>2
      <3> QED
        BY <1>15, <3>1, <3>2
    <2>2. cookies \in [Instances -> 0..n + 1]
      <3>1. cookies \in [Instances -> 0..n]
        BY <1>1 DEF HeapInv, n
      <3>2. \A x \in 0..n : x \in 0..n + 1
        BY <1>1
      <3> QED
        BY <3>1, <3>2
    <2> QED
      BY <1>1, <1>2, <1>7, <1>8, <1>9, <1>13, <1>14, <2>1, <2>2 DEF HeapInv
  <1>17. \A x \in 1..Len(threads') : ServedOK(threads[x])'
    <2>1. GoesOnWell("given", fresh, 0, Len(sessions'))
      BY <1>1, <1>7 DEF GoesOnWell
    <2>2. Len(sessions') \in Nat /\ Len(sessions) <= Len(sessions')
      BY <1>1, <1>7 DEF n
    <2> HIDE DEF fresh
    <2> QED
      BY <1>1, <1>2, <1>4, <2>1, <2>2, GoesOnKeeps
  <1>18. \A y \in 1..n + 1 : Entered(recorded'[y]) \subseteq 1..Len(threads)
    <2>1. \A y \in 1..n : Entered(recorded[y]) \subseteq 1..Len(threads)
      BY <1>1 DEF ServedInv, n
    <2> QED
      BY <1>l, <1>15, <2>1, EnteredFacts
  <1>19. ASSUME NEW x \in 1..Len(threads), NEW y \in 1..n + 1
         PROVE  x \in Entered(recorded'[y]) <=> y = threads'[x].sid /\ threads'[x].pc = "done"
    <2>1. CASE y \in 1..n
      <3>1. Entered(recorded'[y]) = Entered(recorded[y])
        BY <1>l, <2>1
      <3>2. x \in Entered(recorded[y]) <=> y = threads[x].sid /\ threads[x].pc = "done"
        BY <1>1, <2>1 DEF ServedInv, n
      <3>3. CASE x = r
        BY <1>2, <1>4, <3>1, <3>2, <3>3 DEF GoesOn
      <3>4. CASE x # r
        BY <1>4, <3>1, <3>2, <3>4 DEF GoesOn
      <3> QED
        BY <3>3, <3>4
    <2>2. CASE y = n + 1
      <3>1. x \notin Entered(recorded'[y])
        BY <1>l, <2>2, EnteredFacts
      <3>2. CASE x = r
        BY <1>4, <3>1, <3>2 DEF GoesOn
      <3>3. CASE x # r
        <4>1. threads'[x] = threads[x] /\ threads[x].sid \in 0..n
          BY <1>1, <1>4, <3>3 DEF GoesOn, ServedInv, ServedOK, n
        <4>2. y \notin 0..n
          BY <1>1, <2>2
        <4> QED
          BY <3>1, <4>1, <4>2
      <3> QED
        BY <3>2, <3>3
    <2> QED
      BY <1>15, <2>1, <2>2
  <1>20. ServedInv'
    BY <1>1, <1>4, <1>7, <1>17, <1>18, <1>19 DEF ServedInv, GoesOn
  <1>21. ListedInv'
    <2>1. NewestOnly(<<>>, MaxListed) = <<>>
      <3>1. MaxListed \in Nat /\ Len(<<>>) = 0
        BY SharedTablesAssumption DEF PyTracker!TrackerAssumption
      <3>2. ~(Len(<<>>) > MaxListed)
        BY <3>1
      <3> QED
        BY <3>2 DEF NewestOnly
    <2>2. \A x \in 1..n : sessions[x].times = NewestOnly(recorded[x], MaxListed)
      BY <1>1 DEF ListedInv, n
    <2> QED
      BY <1>6, <1>7, <1>l, <1>15, <2>1, <2>2 DEF ListedInv
  <1> QED
    BY <1>16, <1>20, <1>21 DEF TrackerInv

LEMMA RecordKeeps ==
  ASSUME TrackerInv, NEW r \in 1..Len(threads), PyTracker!RecordRequest(r)
  PROVE  TrackerInv'
  <1> DEFINE s == threads[r].sid
             stamp == threads[r].stamp
             n == Len(sessions)
             times == NewestOnly(Append(sessions[s].times, r), MaxListed)
             e == [lastSeen |-> stamp, times |-> times]
             latest == Max({seen[s], stamp})
  <1>0. MaxWait \in Nat
    BY SharedTablesAssumption DEF PyTracker!TrackerAssumption
  <1>1. /\ HeapInv /\ ListedInv /\ ServedInv /\ trackerNow \in Nat /\ threads \in Seq(Served)
        /\ n \in Nat /\ ServedOK(threads[r]) /\ threads[r] \in Served
        /\ sessions \in Seq(Sessions)
        /\ seen \in Seq(Nat) /\ Len(seen) = n
        /\ cookies \in [Instances -> 0..n]
    BY DEF TrackerInv, HeapInv, ServedInv
  <1>2. /\ threads[r].pc = "recording"
        /\ sessions' = [sessions EXCEPT ![s] = e]
        /\ seen' = [seen EXCEPT ![s] = latest]
        /\ threads' = [threads EXCEPT ![r].pc = "done", ![r].stamp = 0]
        /\ recorded' = [recorded EXCEPT ![s] = Append(@, r)]
        /\ cookies' = IF threads[r].isNew THEN [cookies EXCEPT ![threads[r].browser] = s]
                      ELSE cookies
        /\ UNCHANGED <<trackerNow, order, newer, wronged>>
    BY SameTrackerOperators DEF PyTracker!RecordRequest, PyTracker!NewestOnly, NewestOnly
  <1>3. /\ s \in 1..n /\ threads[r].browser \in Instances
        /\ stamp \in Nat /\ stamp \in (trackerNow - MaxWait)..trackerNow
    BY <1>1, <1>2 DEF ServedOK
  <1>4. GoesOn(r, "done", s, 0)
    <2> DEFINE f == [threads[r] EXCEPT !.pc = "done", !.stamp = 0]
    <2>1. threads' = [threads EXCEPT ![r] = f]
      BY <1>1, <1>2
    <2>2. f \in Served /\ f.pc = "done" /\ f.stamp = 0
          /\ f.browser = threads[r].browser /\ f.sid = s
      BY <1>1 DEF Served
    <2> HIDE DEF f
    <2>3. GoesOn(r, f.pc, f.sid, f.stamp)
      BY <1>1, <2>1, <2>2, GoesOnFacts
    <2> QED
      BY <2>2, <2>3
  <1>5. sessions[s].times \in Seq(Nat) /\ r \in Nat
    <2>1. sessions[s] \in Sessions
      BY <1>1, <1>3
    <2> QED
      BY <1>1, <2>1 DEF Sessions
  <1>c. MaxListed \in Nat \ {0}
    BY SharedTablesAssumption DEF PyTracker!TrackerAssumption
  <1> HIDE DEF s, stamp, n, latest
  <1>6. e \in Sessions /\ e.lastSeen = stamp /\ e.times = times
    <2>1. times \in Seq(Nat)
      <3>1. Append(sessions[s].times, r) \in Seq(Nat) /\ MaxListed \in Nat
        BY <1>5, <1>c
      <3> QED
        BY <3>1, NewestFacts
    <2> HIDE DEF times
    <2> QED
      BY <1>3, <2>1 DEF Sessions
  <1> HIDE DEF e
  <1>7. /\ sessions' \in Seq(Sessions) /\ Len(sessions') = n /\ sessions'[s] = e
        /\ \A x \in 1..n : x # s => sessions'[x] = sessions[x]
    BY <1>1, <1>2, <1>3, <1>6 DEF n
  <1>l. /\ recorded \in Seq(Seq(Nat)) /\ Len(recorded) = n /\ recorded[s] \in Seq(Nat)
        /\ recorded' \in Seq(Seq(Nat)) /\ Len(recorded') = n
        /\ recorded'[s] = Append(recorded[s], r)
        /\ \A x \in 1..n : x # s => recorded'[x] = recorded[x]
    <2>1. recorded \in Seq(Seq(Nat)) /\ Len(recorded) = n
      BY <1>1 DEF ListedInv, n
    <2>2. recorded[s] \in Seq(Nat) /\ Append(recorded[s], r) \in Seq(Nat)
      BY <1>3, <1>5, <2>1
    <2> QED
      BY <1>2, <1>3, <2>1, <2>2
  <1>t. ListedInv'
    <2>1. sessions[s].times = NewestOnly(recorded[s], MaxListed)
      BY <1>1, <1>3 DEF ListedInv, n
    <2>2. times = NewestOnly(Append(recorded[s], r), MaxListed)
      BY <1>5, <1>c, <1>l, <2>1, NewestAppended
    <2>3. \A x \in 1..n : x # s => sessions'[x].times = NewestOnly(recorded'[x], MaxListed)
      BY <1>1, <1>7, <1>l DEF ListedInv, n
    <2>4. sessions'[s].times = NewestOnly(recorded'[s], MaxListed)
      BY <1>6, <1>7, <1>l, <2>2
    <2> HIDE DEF times
    <2> QED
      BY <1>7, <1>l, <2>3, <2>4 DEF ListedInv
  <1>8. latest \in Nat /\ latest >= stamp /\ latest <= trackerNow
    <2>1. seen[s] \in Nat /\ seen[s] <= trackerNow
      BY <1>1, <1>3 DEF HeapInv, n
    <2>2. latest = IF seen[s] <= stamp THEN stamp ELSE seen[s]
      BY <1>3, <2>1, MaxOfTwo DEF latest
    <2> QED
      BY <1>1, <1>3, <2>1, <2>2
  <1>9. /\ seen' \in Seq(Nat) /\ Len(seen') = n /\ seen'[s] = latest
        /\ \A x \in 1..n : x # s => seen'[x] = seen[x]
    BY <1>1, <1>2, <1>3, <1>8
  <1>10. HeapInv'
    <2>1. ASSUME NEW x \in 1..n
          PROVE  /\ sessions'[x].lastSeen <= seen'[x]
                 /\ seen'[x] <= sessions'[x].lastSeen + MaxWait
                 /\ seen'[x] <= trackerNow
      <3>1. CASE x # s
        BY <1>1, <1>7, <1>9, <3>1 DEF HeapInv, n
      <3>2. CASE x = s
        BY SMTT(30), <1>0, <1>1, <1>3, <1>6, <1>7, <1>8, <1>9, <3>2
      <3> QED
        BY <3>1, <3>2
    <2>2. cookies' \in [Instances -> 0..n]
      BY <1>1, <1>2, <1>3
    <2> QED
      BY <1>1, <1>2, <1>7, <1>9, <2>1, <2>2 DEF HeapInv, n
  <1>11. \A x \in 1..Len(threads') : ServedOK(threads[x])'
    <2>1. GoesOnWell("done", s, 0, n)
      BY <1>1, <1>3 DEF GoesOnWell
    <2>2. Len(sessions') = n /\ Len(sessions) <= Len(sessions')
      BY <1>1, <1>7 DEF n
    <2> QED
      BY <1>1, <1>2, <1>4, <2>1, <2>2, GoesOnKeeps
  <1>e. Entered(recorded'[s]) = Entered(recorded[s]) \cup {r}
    BY <1>5, <1>l, EnteredFacts
  <1>12. \A y \in 1..n : Entered(recorded'[y]) \subseteq 1..Len(threads)
    <2>1. \A y \in 1..n : Entered(recorded[y]) \subseteq 1..Len(threads)
      BY <1>1 DEF ServedInv, n
    <2> QED
      BY <1>3, <1>e, <1>l, <2>1
  <1>13. ASSUME NEW x \in 1..Len(threads), NEW y \in 1..n
         PROVE  x \in Entered(recorded'[y]) <=> y = threads'[x].sid /\ threads'[x].pc = "done"
    <2>1. x \in Entered(recorded'[y]) <=> x \in Entered(recorded[y]) \/ (y = s /\ x = r)
      BY <1>e, <1>l
    <2>2. x \in Entered(recorded[y]) <=> y = threads[x].sid /\ threads[x].pc = "done"
      BY <1>1 DEF ServedInv, n
    <2>3. CASE x = r
      BY <1>2, <1>4, <2>1, <2>2, <2>3 DEF GoesOn, s
    <2>4. CASE x # r
      BY <1>4, <2>1, <2>2, <2>4 DEF GoesOn
    <2> QED
      BY <2>3, <2>4
  <1>14. ServedInv'
    BY <1>1, <1>4, <1>7, <1>11, <1>12, <1>13 DEF ServedInv, GoesOn
  <1> QED
    BY <1>10, <1>14, <1>t DEF TrackerInv

\* A step of the tracker
LEMMA TrackerStep == TrackerInv /\ PyTracker!TrackerNext => TrackerInv'
  <1> SUFFICES ASSUME TrackerInv, PyTracker!TrackerNext PROVE TrackerInv'
    OBVIOUS
  <1>1. DOMAIN threads = 1..Len(threads)
    BY DEF TrackerInv, ServedInv
  <1>2. ASSUME NEW b \in Instances, PyTracker!Begin(b) PROVE TrackerInv'
    BY <1>2, BeginKeeps
  <1>3. ASSUME NEW r \in 1..Len(threads), PyTracker!Resume(r) PROVE TrackerInv'
    BY <1>3, ResumeKeeps
  <1>4. ASSUME NEW r \in 1..Len(threads), PyTracker!Create(r) PROVE TrackerInv'
    BY <1>4, CreateKeeps
  <1>5. ASSUME NEW r \in 1..Len(threads), PyTracker!Clock(r) PROVE TrackerInv'
    BY <1>5, ClockKeeps
  <1>6. ASSUME NEW r \in 1..Len(threads), PyTracker!RecordRequest(r) PROVE TrackerInv'
    BY <1>6, RecordKeeps
  <1>7. CASE PyTracker!TrackerTick
    BY <1>7, TrackerTickKeeps
  <1> QED
    BY <1>1, <1>2, <1>3, <1>4, <1>5, <1>6, <1>7 DEF PyTracker!TrackerNext

LEMMA TrackerHolds == TrackerInv => PyTracker!SessionsKept
  <1> SUFFICES ASSUME TrackerInv PROVE PyTracker!SessionsKept
    OBVIOUS
  <1>1. DOMAIN threads = 1..Len(threads) /\ DOMAIN sessions = 1..Len(sessions)
    BY DEF TrackerInv, ServedInv, HeapInv
  <1>2. \A s \in 1..Len(sessions) : /\ recorded[s] \in Seq(Nat)
                                    /\ sessions[s].times = PyTracker!NewestOnly(recorded[s], MaxListed)
    BY DEF TrackerInv, ListedInv, PyTracker!NewestOnly, NewestOnly
  <1>3. \A r \in 1..Len(threads), s \in 1..Len(sessions) :
          PyTracker!Held(r, recorded[s]) <=> s = threads[r].sid /\ threads[r].pc = "done"
    BY <1>2, EnteredFacts DEF TrackerInv, ServedInv
  <1> QED
    BY <1>1, <1>2, <1>3 DEF TrackerInv, HeapInv, PyTracker!SessionsKept

---------------------------------------------------------------------------
(* The windows of a store, for any span and cap.  hits are what is left of *)
(* a sequence of times when the first d are gone.                          *)
NewestOf(hits, times, d) ==
  /\ hits \in Seq(Nat) /\ d \in 0..Len(times) /\ Len(hits) = Len(times) - d
  /\ \A i \in 1..Len(hits) : hits[i] = times[i + d]

\* Times in the order of a clock that shows t.
InOrderUpTo(times, t) ==
  /\ times \in Seq(Nat) /\ \A i \in 1..Len(times) : times[i] <= t
  /\ \A i, j \in 1..Len(times) : i <= j => times[i] <= times[j]

LEMMA NewestOfIs ==
  ASSUME NEW a \in Seq(Nat), NEW b, NEW d, NewestOf(b, a, d)
  PROVE  /\ Len(a) \in Nat /\ b \in Seq(Nat) /\ d \in 0..Len(a) /\ Len(b) = Len(a) - d
         /\ \A i \in 1..Len(b) : b[i] = a[i + d]
  <1>1. Len(a) \in Nat
    OBVIOUS
  <1>2. /\ b \in Seq(Nat) /\ d \in 0..Len(a) /\ Len(b) = Len(a) - d
        /\ \A i \in 1..Len(b) : b[i] = a[i + d]
    BY Zenon DEF NewestOf
  <1> QED
    BY <1>1, <1>2, Zenon

LEMMA NewestOfNewest ==
  ASSUME NEW a \in Seq(Nat), NEW b, NEW c, NEW d, NEW e,
         NewestOf(b, a, d), NewestOf(c, b, e)
  PROVE  NewestOf(c, a, d + e)
  <1>1. /\ Len(a) \in Nat /\ b \in Seq(Nat) /\ d \in 0..Len(a) /\ Len(b) = Len(a) - d
        /\ \A i \in 1..Len(b) : b[i] = a[i + d]
    BY NewestOfIs
  <1>2. /\ c \in Seq(Nat) /\ e \in 0..Len(b) /\ Len(c) = Len(b) - e
        /\ \A i \in 1..Len(c) : c[i] = b[i + e]
    BY <1>1, NewestOfIs
  <1>3. d + e \in 0..Len(a) /\ Len(c) = Len(a) - (d + e)
    BY <1>1, <1>2
  <1>4. ASSUME NEW i \in 1..Len(c)
        PROVE  c[i] = a[i + (d + e)]
    <2>1. i + e \in 1..Len(b) /\ (i + e) + d = i + (d + e)
      BY <1>1, <1>2
    <2> QED
      BY <1>1, <1>2, <2>1
  <1> QED
    BY <1>2, <1>3, <1>4 DEF NewestOf

LEMMA NewestOfAppended ==
  ASSUME NEW a \in Seq(Nat), NEW b, NEW d, NewestOf(b, a, d), NEW t \in Nat
  PROVE  NewestOf(Append(b, t), Append(a, t), d)
  <1>1. /\ Len(a) \in Nat /\ b \in Seq(Nat) /\ d \in 0..Len(a) /\ Len(b) = Len(a) - d
        /\ \A i \in 1..Len(b) : b[i] = a[i + d]
    BY DEF NewestOf
  <1> DEFINE a2 == Append(a, t)
             b2 == Append(b, t)
  <1>2. /\ Len(a2) = Len(a) + 1 /\ a2[Len(a) + 1] = t
        /\ \A i \in 1..Len(a) : a2[i] = a[i]
    OBVIOUS
  <1>3. /\ b2 \in Seq(Nat) /\ Len(b2) = Len(b) + 1 /\ b2[Len(b) + 1] = t
        /\ \A i \in 1..Len(b) : b2[i] = b[i]
    BY <1>1
  <1> HIDE DEF a2, b2
  <1>4. ASSUME NEW i \in 1..Len(b2)
        PROVE  b2[i] = a2[i + d]
    <2>1. CASE i \in 1..Len(b)
      <3>1. i + d \in 1..Len(a)
        BY <1>1, <2>1
      <3> QED
        BY <1>1, <1>2, <1>3, <2>1, <3>1
    <2>2. CASE i \notin 1..Len(b)
      <3>1. i = Len(b) + 1 /\ i + d = Len(a) + 1
        BY <1>1, <1>3, <2>2
      <3> QED
        BY <1>2, <1>3, <3>1
    <2> QED
      BY <2>1, <2>2
  <1>5. d \in 0..Len(a2) /\ Len(b2) = Len(a2) - d
    BY <1>1, <1>2, <1>3
  <1>6. NewestOf(b2, a2, d)
    BY <1>3, <1>4, <1>5 DEF NewestOf
  <1> QED
    BY <1>6 DEF a2, b2

\* What the while loop drops is what has left the window.
LEMMA InWindowFacts ==
  ASSUME NEW t \in Nat, NEW hits, InOrderUpTo(hits, t), NEW span \in Nat
  PROVE  \E d : /\ NewestOf(Shared!InWindow(hits, t, span), hits, d)
                /\ \A i \in 1..d : hits[i] <= t - span
                /\ \A i \in d + 1..Len(hits) : hits[i] > t - span
  <1> DEFINE live == {i \in DOMAIN hits : hits[i] > t - span}
             w == Shared!InWindow(hits, t, span)
             L == Len(hits)
  <1>1. /\ L \in Nat /\ hits \in Seq(Nat) /\ DOMAIN hits = 1..L
        /\ \A i \in 1..L : hits[i] \in Nat
        /\ \A i, j \in 1..L : i <= j => hits[i] <= hits[j]
    BY DEF InOrderUpTo
  <1>2. CASE live = {}
    <2>1. w = <<>>
      BY <1>2 DEF Shared!InWindow
    <2>2. NewestOf(<<>>, hits, L)
      BY <1>1 DEF NewestOf
    <2>3. \A i \in 1..L : hits[i] <= t - span
      BY <1>1, <1>2
    <2>4. \A i \in L + 1..L : hits[i] > t - span
      BY <1>1
    <2> QED
      BY <2>1, <2>2, <2>3, <2>4
  <1>3. CASE live # {}
    <2> DEFINE first == CHOOSE i \in live : \A j \in live : i <= j
    <2>1. first \in live /\ \A j \in live : first <= j
      <3>1. live \subseteq Nat
        BY <1>1
      <3>2. \E i \in live : \A j \in live : i <= j
        BY <1>3, <3>1, LeastOf
      <3> QED
        BY <3>2
    <2>2. w = SubSeq(hits, first, L)
      BY <1>3 DEF Shared!InWindow
    <2>3. first \in 1..L /\ hits[first] > t - span
      BY <1>1, <2>1
    <2>4. ASSUME NEW i \in first - 1 + 1..L
          PROVE  hits[i] > t - span
      <3>1. i \in 1..L /\ hits[first] <= hits[i] /\ hits[i] \in Nat /\ hits[first] \in Nat
        BY <1>1, <2>3
      <3> QED
        BY <2>3, <3>1
    <2>5. ASSUME NEW i \in 1..first - 1
          PROVE  hits[i] <= t - span
      <3>1. i \in 1..L /\ ~(first <= i) /\ hits[i] \in Nat
        BY <1>1, <2>3
      <3>2. i \notin live
        BY <2>1, <3>1
      <3> QED
        BY <1>1, <3>1, <3>2
    <2> HIDE DEF first, live
    <2>6. /\ w \in Seq(Nat) /\ Len(w) = L - first + 1
          /\ \A i \in 1..L - first + 1 : w[i] = hits[first + i - 1]
      BY <1>1, <2>2, <2>3
    <2> HIDE DEF w
    <2>7. NewestOf(w, hits, first - 1)
      <3>1. first - 1 \in 0..L /\ Len(w) = L - (first - 1)
        BY <1>1, <2>3, <2>6
      <3>2. ASSUME NEW i \in 1..Len(w)
            PROVE  w[i] = hits[i + (first - 1)]
        <4>1. i \in 1..L - first + 1 /\ first + i - 1 = i + (first - 1)
          BY <1>1, <2>3, <2>6
        <4> QED
          BY <2>6, <4>1
      <3> QED
        BY <2>6, <3>1, <3>2 DEF NewestOf
    <2> QED
      BY <2>4, <2>5, <2>7 DEF w
  <1> QED
    BY <1>2, <1>3

LEMMA NewestOnlyFacts ==
  ASSUME NEW hits \in Seq(Nat), NEW cap \in Nat
  PROVE  \E d : /\ NewestOf(Shared!NewestOnly(hits, cap), hits, d)
                /\ IF Len(hits) > cap THEN Len(Shared!NewestOnly(hits, cap)) = cap ELSE d = 0
  <1> DEFINE L == Len(hits)
             n == Shared!NewestOnly(hits, cap)
  <1>1. L \in Nat
    OBVIOUS
  <1>2. CASE ~(L > cap)
    <2>1. n = hits
      BY <1>2 DEF Shared!NewestOnly
    <2>2. NewestOf(hits, hits, 0)
      BY <1>1 DEF NewestOf
    <2> QED
      BY <1>2, <2>1, <2>2
  <1>3. CASE L > cap
    <2>1. n = SubSeq(hits, L - cap + 1, L)
      BY <1>3 DEF Shared!NewestOnly
    <2>2. L - cap + 1 \in 1..L + 1 /\ L - cap \in 0..L /\ L - (L - cap + 1) + 1 = cap
      BY <1>1, <1>3
    <2>3. /\ n \in Seq(Nat) /\ Len(n) = cap
          /\ \A i \in 1..cap : n[i] = hits[i + (L - cap)]
      <3>1. \A i \in L - cap + 1..L : hits[i] \in Nat
        BY <1>1, <2>2
      <3>2. /\ n \in Seq(Nat)
            /\ Len(n) = IF L - cap + 1 <= L THEN L - (L - cap + 1) + 1 ELSE 0
            /\ \A i \in 1..L - (L - cap + 1) + 1 : n[i] = hits[(L - cap + 1) + i - 1]
        BY <1>1, <2>1, <2>2, <3>1, SubSeqProperties
      <3>3. \A i \in 1..cap : (L - cap + 1) + i - 1 = i + (L - cap)
        BY <1>1
      <3>4. Len(n) = cap
        BY <1>1, <2>2, <3>2
      <3> QED
        BY <2>2, <3>2, <3>3, <3>4
    <2> HIDE DEF n
    <2>4. NewestOf(n, hits, L - cap)
      BY <1>1, <2>2, <2>3 DEF NewestOf
    <2> QED
      BY <1>3, <2>3, <2>4 DEF n
  <1> QED
    BY <1>2, <1>3

-----------------------------------------------------------------------------
(* A window is what is left of all the times its limit was hit: as many as *)
(* the cap, or those that have not left the span.                          *)
LeftOf(hits, a, t, span, cap) ==
  \E d \in Nat : /\ NewestOf(hits, a, d)
                /\ (d = 0 \/ Len(hits) >= cap \/ a[d] <= t - span)

\* Among a, hit i found more than most hits in its span, itself included.
Over(a, i, most, span) == i > most /\ a[i - most] > a[i] - span

\* What a hit at t leaves of a window, and its verdict.
HitAs(n, a, t, span, cap, most) ==
  /\ LeftOf(n, Append(a, t), t, span, cap)
  /\ (Len(n) > most) <=> Over(Append(a, t), Len(a) + 1, most, span)

LEMMA WindowHit ==
  ASSUME NEW t \in Nat, NEW a, InOrderUpTo(a, t), NEW span \in Nat,
         NEW cap \in Nat, NEW most \in 1..cap - 1,
         NEW hits, LeftOf(hits, a, t, span, cap)
  PROVE  HitAs(Shared!NewestOnly(Append(Shared!InWindow(hits, t, span), t), cap),
               a, t, span, cap, most)
  <1> DEFINE L == Len(a)
             a2 == Append(a, t)
             w == Shared!InWindow(hits, t, span)
             v == Append(w, t)
             n == Shared!NewestOnly(v, cap)
  <1>1. /\ L \in Nat /\ a \in Seq(Nat) /\ \A i \in 1..L : a[i] \in Nat /\ a[i] <= t
        /\ \A i, j \in 1..L : i <= j => a[i] <= a[j]
    BY DEF InOrderUpTo
  <1>2. PICK d \in Nat : /\ NewestOf(hits, a, d)
                        /\ (d = 0 \/ Len(hits) >= cap \/ a[d] <= t - span)
    BY DEF LeftOf
  <1>3. /\ hits \in Seq(Nat) /\ d \in 0..L /\ Len(hits) = L - d /\ Len(hits) \in Nat
        /\ \A i \in 1..Len(hits) : hits[i] = a[i + d]
    BY <1>1, <1>2 DEF NewestOf
  <1>4. InOrderUpTo(hits, t)
    <2>1. \A i \in 1..Len(hits) : i + d \in 1..L
      BY <1>1, <1>3
    <2>2. \A i, j \in 1..Len(hits) : i <= j => i + d <= j + d
      BY <1>3
    <2> QED
      BY <1>1, <1>3, <2>1, <2>2 DEF InOrderUpTo
  <1>5. PICK e : /\ NewestOf(w, hits, e)
                 /\ \A i \in 1..e : hits[i] <= t - span
                 /\ \A i \in e + 1..Len(hits) : hits[i] > t - span
    BY <1>4, InWindowFacts
  <1>6. /\ e \in 0..Len(hits) /\ w \in Seq(Nat) /\ Len(w) = Len(hits) - e
    BY <1>3, <1>5 DEF NewestOf
  <1>16. PICK D \in Nat : D = d + e
    BY <1>3, <1>6
  <1>17. most \in Nat /\ 1 <= most /\ most < cap
    OBVIOUS
  <1> HIDE DEF L, a2, w, v, n
  <1>7. NewestOf(w, a, D) /\ D \in 0..L /\ Len(w) = L - D
    <2>1. NewestOf(w, a, d + e)
      BY <1>1, <1>2, <1>5, NewestOfNewest
    <2> QED
      BY <1>1, <1>3, <1>6, <1>16, <2>1
  <1>8. /\ NewestOf(v, a2, D) /\ v \in Seq(Nat) /\ Len(v) = L + 1 - D
        /\ a2 \in Seq(Nat) /\ Len(a2) = L + 1 /\ a2[L + 1] = t
        /\ \A i \in 1..L : a2[i] = a[i]
    <2>1. NewestOf(v, a2, D)
      BY <1>1, <1>7, NewestOfAppended DEF v, a2
    <2>2. v \in Seq(Nat) /\ Len(v) = Len(w) + 1
      BY <1>6 DEF v
    <2>3. /\ a2 \in Seq(Nat) /\ Len(a2) = L + 1 /\ a2[L + 1] = t
          /\ \A i \in 1..L : a2[i] = a[i]
      BY <1>1 DEF a2, L
    <2>4. Len(w) + 1 = L + 1 - D
      BY <1>1, <1>7
    <2> QED
      BY <2>1, <2>2, <2>3, <2>4
  <1>9. \A i \in D + 1..L : a[i] > t - span
    <2> SUFFICES ASSUME NEW i \in D + 1..L PROVE a[i] > t - span
      OBVIOUS
    <2>1. i - d \in e + 1..Len(hits) /\ i - d \in 1..Len(hits) /\ (i - d) + d = i
      BY <1>3, <1>6, <1>1, <1>16
    <2> QED
      BY <1>3, <1>5, <2>1
  <1>10. PICK f : /\ NewestOf(n, v, f)
                  /\ IF Len(v) > cap THEN Len(n) = cap ELSE f = 0
    BY <1>8, NewestOnlyFacts DEF n
  <1>11. f \in 0..Len(v) /\ n \in Seq(Nat) /\ Len(n) = Len(v) - f
    BY <1>8, <1>10 DEF NewestOf
  <1>12. NewestOf(n, a2, D + f) /\ D + f \in Nat
    <2>1. NewestOf(n, a2, D + f)
      BY <1>8, <1>10, NewestOfNewest
    <2> QED
      BY <1>8, <1>11, <2>1
  <1>13. Len(v) <= cap => D = 0 \/ a[D] <= t - span
    <2> SUFFICES ASSUME Len(v) <= cap, D # 0 PROVE a[D] <= t - span
      OBVIOUS
    <2>1. CASE e = 0
      <3>1. D = d /\ Len(v) = Len(hits) + 1
        BY <1>1, <1>3, <1>6, <1>8, <1>16, <2>1
      <3> QED
        BY <1>2, <1>3, <3>1
    <2>2. CASE e # 0
      <3>1. e \in 1..e /\ e \in 1..Len(hits) /\ e + d = D
        BY <1>3, <1>6, <1>16, <2>2
      <3> QED
        BY <1>3, <1>5, <3>1
    <2> QED
      BY <2>1, <2>2
  <1>14. LeftOf(n, a2, t, span, cap)
    <2>1. CASE Len(v) > cap
      <3>1. Len(n) >= cap
        BY <1>10, <2>1
      <3> QED
        BY <1>12, <3>1 DEF LeftOf
    <2>2. CASE ~(Len(v) > cap)
      <3>1. D + f = D
        BY <1>10, <2>2, <1>7
      <3>2. D # 0 => a2[D] = a[D]
        BY <1>7, <1>8, <1>1
      <3>3. D = 0 \/ a2[D] <= t - span
        BY <1>13, <2>2, <3>2, <1>8, <1>7, <1>1
      <3> QED
        BY <1>12, <3>1, <3>3 DEF LeftOf
    <2> QED
      BY <2>1, <2>2
  <1>15. (Len(n) > most) <=> Over(a2, L + 1, most, span)
    <2> DEFINE p == (L + 1) - most
    <2>1. p \in Int /\ p <= L
      BY <1>1, <1>17
    <2>4. p = (L + 1) - most
      OBVIOUS
    <2> HIDE DEF p
    <2>2. CASE L + 1 - D > most
      <3>1. p \in D + 1..L /\ p \in 1..L /\ L + 1 > most
        BY <1>1, <1>7, <1>17, <2>2, <2>4
      <3>2. a2[p] > a2[L + 1] - span
        BY <1>8, <1>9, <3>1
      <3>3. Len(n) > most
        BY <1>8, <1>10, <1>11, <2>2, <1>7, <1>1, <1>17
      <3> QED
        BY <2>4, <3>1, <3>2, <3>3 DEF Over
    <2>3. CASE ~(L + 1 - D > most)
      <3>1. Len(v) <= most /\ Len(v) <= cap
        BY <1>1, <1>7, <1>8, <1>17, <2>3
      <3>2. ~(Len(n) > most)
        BY <3>1, <1>11, <1>8, <1>7, <1>1, <1>17
      <3>3. ASSUME Over(a2, L + 1, most, span) PROVE FALSE
        <4>1. L + 1 > most /\ a2[p] > t - span
          <5>1. L + 1 > most /\ a2[(L + 1) - most] > a2[L + 1] - span
            BY <3>3 DEF Over
          <5> QED
            BY <1>8, <2>4, <5>1
        <4>2. p \in 1..L /\ p <= D /\ D # 0 /\ D \in 1..L
          BY <1>1, <1>7, <2>1, <2>3, <2>4, <4>1
        <4>3. a[p] <= a[D] /\ a[D] <= t - span /\ a[p] > t - span
          BY <1>1, <1>8, <1>13, <3>1, <4>1, <4>2
        <4> QED
          BY <4>2, <4>3, <1>1
      <3> QED
        BY <3>2, <3>3
    <2> QED
      BY <2>2, <2>3
  <1> QED
    BY <1>14, <1>15 DEF HitAs, a2, w, v, n, L

-----------------------------------------------------------------------------
(* The inductive invariant of the shared limits: for every limit there is  *)
(* an order in which its hits were counted, whose times only grow, that    *)
(* explains the store's window and every verdict.                          *)
CheckKind ==
  [path : Limits \cup {"none"}, asked : SUBSET Limits, exceeded : SUBSET Limits,
   failed : BOOLEAN, at : [Limits -> Nat]]

RequestOK(c) ==
  /\ c \in CheckKind
  /\ c.path = "none" => /\ c.asked = {} /\ c.exceeded = {}
                        /\ \A l \in Limits : c.at[l] = 0
  /\ \A l \in c.asked : c.at[l] = 0
  /\ \A l \in c.exceeded : c.at[l] > 0

\* A verdict says what the count was, unless the answer was lost.
Explained(c, l, over) ==
  /\ l \in c.exceeded => over
  /\ over => l \in c.exceeded \/ c.failed

\* A step that leaves what c says of limit l as it is.
SaysTheSame(new, c, l) ==
  /\ new.at[l] = c.at[l]
  /\ l \in new.exceeded <=> l \in c.exceeded
  /\ c.failed => new.failed

HitsInOrder(l, seq, times) ==
  /\ Len(times) = Len(seq) /\ InOrderUpTo(times, time)
  /\ \A i \in 1..Len(seq) : times[i] = checks[seq[i]].at[l] /\ times[i] > 0
  /\ \A i, j \in 1..Len(seq) : seq[i] = seq[j] => i = j
  /\ \A r \in Requests :
       checks[r].at[l] > 0 => \E i \in 1..Len(seq) : seq[i] = r
  /\ \A i \in 1..Len(seq) :
       Explained(checks[seq[i]], l, Over(times, i, LimitMost[l], LimitSpan[l]))
  /\ LeftOf(Shared!HitsOf(windows, l), times, time, LimitSpan[l], MaxHits)

LimitsInv ==
  /\ time \in Nat /\ time > 0
  /\ checks \in [Requests -> CheckKind] /\ \A r \in Requests : RequestOK(checks[r])
  /\ \A l \in Limits :
       \E seq \in Seq(Requests), times \in Seq(Nat) : HitsInOrder(l, seq, times)

LEMMA LimitFacts ==
  /\ MaxHits \in Nat /\ "none" \notin Limits /\ "window" \in Limits
  /\ \A l \in Limits : /\ LimitMost[l] \in 1..MaxHits - 1 /\ LimitMost[l] \in Nat
                       /\ LimitSpan[l] \in Nat /\ LimitSpan[l] > 0
  <1>1. Shared!LimitsAssumption
    BY SharedTablesAssumption
  <1> QED
    BY <1>1 DEF Shared!LimitsAssumption

\* A window is as good later.
LEMMA LeftOfLater ==
  ASSUME NEW a \in Seq(Nat), NEW t \in Nat, NEW u \in Nat, t <= u,
         NEW span \in Nat, NEW cap \in Nat, NEW hits, LeftOf(hits, a, t, span, cap)
  PROVE  LeftOf(hits, a, u, span, cap)
  <1>1. PICK d \in Nat : /\ NewestOf(hits, a, d)
                         /\ (d = 0 \/ Len(hits) >= cap \/ a[d] <= t - span)
    BY DEF LeftOf
  <1>2. ASSUME d # 0, a[d] <= t - span PROVE a[d] <= u - span
    <2>1. d \in 1..Len(a)
      BY <1>1, <1>2 DEF NewestOf
    <2>2. a[d] \in Nat
      BY <2>1
    <2> QED
      BY <1>2, <2>2
  <1> QED
    BY <1>1, <1>2 DEF LeftOf

\* A limit whose hits a step leaves alone.
LEMMA LimitUnchanged ==
  ASSUME NEW l \in Limits, time \in Nat, time' \in Nat, time <= time',
         NEW seq \in Seq(Requests), NEW times \in Seq(Nat), HitsInOrder(l, seq, times),
         \A r \in Requests : SaysTheSame(checks'[r], checks[r], l),
         Shared!HitsOf(windows', l) = Shared!HitsOf(windows, l)
  PROVE  HitsInOrder(l, seq, times)'
  <1> USE DEF HitsInOrder
  <1>1. \A i \in 1..Len(seq) : seq[i] \in Requests
    OBVIOUS
  <1>2. InOrderUpTo(times, time')
    <2>1. \A i \in 1..Len(times) : times[i] \in Nat
      OBVIOUS
    <2> QED
      BY <2>1 DEF InOrderUpTo
  <1>3. LeftOf(Shared!HitsOf(windows', l), times, time', LimitSpan[l], MaxHits)
    BY LimitFacts, LeftOfLater
  <1>4. \A i \in 1..Len(seq) : times[i] = checks'[seq[i]].at[l] /\ times[i] > 0
    BY <1>1 DEF SaysTheSame
  <1>5. \A r \in Requests :
          checks'[r].at[l] > 0 => \E i \in 1..Len(seq) : seq[i] = r
    BY DEF SaysTheSame
  <1>6. \A i \in 1..Len(seq) :
          Explained(checks'[seq[i]], l, Over(times, i, LimitMost[l], LimitSpan[l]))
    BY <1>1 DEF SaysTheSame, Explained
  <1> QED
    BY <1>2, <1>3, <1>4, <1>5, <1>6

LEMMA LimitsInitInv == Shared!LimitsInit => LimitsInv
  <1> SUFFICES ASSUME Shared!LimitsInit PROVE LimitsInv
    OBVIOUS
  <1>1. /\ time = 1 /\ windows = Shared!NoEntries
        /\ checks = [r \in Requests |-> Shared!NewCheck]
    BY DEF Shared!LimitsInit
  <1>2. RequestOK(Shared!NewCheck)
    BY DEF RequestOK, CheckKind, Shared!NewCheck
  <1>3. \A l \in Limits : Shared!HitsOf(windows, l) = <<>>
    BY <1>1 DEF Shared!HitsOf, Shared!NoEntries
  <1>4. \A l \in Limits : HitsInOrder(l, <<>>, <<>>)
    <2> SUFFICES ASSUME NEW l \in Limits PROVE HitsInOrder(l, <<>>, <<>>)
      OBVIOUS
    <2>1. NewestOf(<<>>, <<>>, 0)
      BY DEF NewestOf
    <2>2. LeftOf(Shared!HitsOf(windows, l), <<>>, time, LimitSpan[l], MaxHits)
      BY <1>3, <2>1 DEF LeftOf
    <2>3. \A r \in Requests : ~(checks[r].at[l] > 0)
      BY <1>1 DEF Shared!NewCheck
    <2>4. InOrderUpTo(<<>>, time)
      BY DEF InOrderUpTo
    <2> QED
      BY <2>2, <2>3, <2>4 DEF HitsInOrder
  <1>5. <<>> \in Seq(Requests) /\ <<>> \in Seq(Nat)
    OBVIOUS
  <1>6. \A r \in Requests : checks[r] = Shared!NewCheck
    BY <1>1
  <1>7. Shared!NewCheck \in CheckKind
    BY <1>2 DEF RequestOK
  <1>8. checks \in [Requests -> CheckKind]
    BY <1>1, <1>7
  <1>9. \A l \in Limits :
       \E seq \in Seq(Requests), times \in Seq(Nat) : HitsInOrder(l, seq, times)
    BY <1>4, <1>5
  <1> QED
    BY <1>1, <1>2, <1>6, <1>8, <1>9 DEF LimitsInv

\* Steps that count nothing.
LEMMA NotCounted ==
  ASSUME LimitsInv, time' \in Nat, time <= time', UNCHANGED windows,
         checks' \in [Requests -> CheckKind],
         \A r \in Requests : /\ RequestOK(checks'[r])
                             /\ checks'[r].at = checks[r].at
                             /\ checks'[r].exceeded = checks[r].exceeded
                             /\ checks[r].failed => checks'[r].failed
  PROVE  LimitsInv'
  <1>1. time \in Nat /\ time > 0
    BY DEF LimitsInv
  <1>2. ASSUME NEW l \in Limits
        PROVE  (\E seq \in Seq(Requests), times \in Seq(Nat) : HitsInOrder(l, seq, times))'
    <2>1. PICK seq \in Seq(Requests), times \in Seq(Nat) : HitsInOrder(l, seq, times)
      BY DEF LimitsInv
    <2>2. HitsInOrder(l, seq, times)'
      BY <1>1, <2>1, LimitUnchanged DEF SaysTheSame
    <2> QED
      BY <2>2
  <1>3. time' > 0
    BY <1>1
  <1> QED
    BY <1>2, <1>3 DEF LimitsInv

LEMMA AskKeeps ==
  ASSUME LimitsInv, NEW r \in Requests, NEW path \in Limits, Shared!Ask(r, path)
  PROVE  LimitsInv'
  <1>1. /\ checks[r].path = "none" /\ UNCHANGED <<time, windows>>
        /\ checks' = [checks EXCEPT ![r].path = path, ![r].asked = Shared!Applying(path)]
    BY DEF Shared!Ask, Shared!Started
  <1>2. /\ time \in Nat /\ checks \in [Requests -> CheckKind]
        /\ \A x \in Requests : checks[x] \in CheckKind /\ RequestOK(checks[x])
    BY DEF LimitsInv
  <1>3. Shared!Applying(path) \in SUBSET Limits
    BY LimitFacts DEF Shared!Applying
  <1> DEFINE c == [checks[r] EXCEPT !.path = path, !.asked = Shared!Applying(path)]
  <1>4. checks' = [checks EXCEPT ![r] = c]
    BY <1>1
  <1>5. /\ c \in CheckKind /\ c.path = path /\ c.asked = Shared!Applying(path)
        /\ c.at = checks[r].at /\ c.exceeded = checks[r].exceeded
        /\ c.failed = checks[r].failed
    BY <1>2, <1>3 DEF CheckKind
  <1> HIDE DEF c
  <1>6. checks[r].exceeded = {} /\ \A l \in Limits : checks[r].at[l] = 0
    BY <1>1, <1>2 DEF RequestOK
  <1>7. RequestOK(c)
    BY <1>3, <1>5, <1>6, LimitFacts DEF RequestOK
  <1>8. /\ checks' \in [Requests -> CheckKind]
        /\ \A x \in Requests : checks'[x] = IF x = r THEN c ELSE checks[x]
    BY <1>2, <1>4, <1>5
  <1>9. \A x \in Requests : /\ RequestOK(checks'[x])
                            /\ checks'[x].at = checks[x].at
                            /\ checks'[x].exceeded = checks[x].exceeded
                            /\ checks[x].failed => checks'[x].failed
    BY <1>2, <1>5, <1>7, <1>8
  <1> QED
    BY <1>1, <1>2, <1>8, <1>9, NotCounted

LEMMA HitFailsKeeps ==
  ASSUME LimitsInv, NEW r \in Requests, NEW l \in Limits, Shared!HitFails(r, l)
  PROVE  LimitsInv'
  <1>1. /\ l \in checks[r].asked /\ UNCHANGED <<time, windows>>
        /\ checks' = [checks EXCEPT ![r].asked = @ \ {l}, ![r].failed = TRUE]
    BY DEF Shared!HitFails
  <1>2. /\ time \in Nat /\ checks \in [Requests -> CheckKind]
        /\ \A x \in Requests : checks[x] \in CheckKind /\ RequestOK(checks[x])
    BY DEF LimitsInv
  <1> DEFINE c == [checks[r] EXCEPT !.asked = checks[r].asked \ {l}, !.failed = TRUE]
  <1>3. checks' = [checks EXCEPT ![r] = c]
    BY <1>1
  <1>4. /\ c \in CheckKind /\ c.path = checks[r].path /\ c.asked = checks[r].asked \ {l}
        /\ c.at = checks[r].at /\ c.exceeded = checks[r].exceeded /\ c.failed
    BY <1>2 DEF CheckKind
  <1> HIDE DEF c
  <1>5. RequestOK(c)
    BY <1>2, <1>4 DEF RequestOK
  <1>6. /\ checks' \in [Requests -> CheckKind]
        /\ \A x \in Requests : checks'[x] = IF x = r THEN c ELSE checks[x]
    BY <1>2, <1>3, <1>4
  <1>7. \A x \in Requests : /\ RequestOK(checks'[x])
                            /\ checks'[x].at = checks[x].at
                            /\ checks'[x].exceeded = checks[x].exceeded
                            /\ checks[x].failed => checks'[x].failed
    BY <1>2, <1>4, <1>5, <1>6
  <1> QED
    BY <1>1, <1>2, <1>6, <1>7, NotCounted

LEMMA LimitsTickKeeps == LimitsInv /\ Shared!LimitsTick => LimitsInv'
  <1> SUFFICES ASSUME LimitsInv, Shared!LimitsTick PROVE LimitsInv'
    OBVIOUS
  <1>1. time' = time + 1 /\ UNCHANGED <<windows, checks>>
    BY DEF Shared!LimitsTick
  <1>2. /\ time \in Nat /\ checks \in [Requests -> CheckKind]
        /\ \A x \in Requests : RequestOK(checks[x])
    BY DEF LimitsInv
  <1> QED
    BY <1>1, <1>2, NotCounted

\* A request whose hit is counted joins the end of the order.
LEMMA HitJoins ==
  ASSUME LimitsInv, NEW r \in Requests, NEW l \in Limits, UNCHANGED time,
         checks[r].at[l] = 0,
         NEW seq \in Seq(Requests), NEW times \in Seq(Nat), HitsInOrder(l, seq, times),
         \A x \in Requests : x # r => SaysTheSame(checks'[x], checks[x], l),
         checks'[r].at[l] = time,
         HitAs(Shared!HitsOf(windows', l), times, time, LimitSpan[l], MaxHits, LimitMost[l]),
         Explained(checks'[r], l, Len(Shared!HitsOf(windows', l)) > LimitMost[l])
  PROVE  HitsInOrder(l, Append(seq, r), Append(times, time))'
  <1> DEFINE s2 == Append(seq, r)
             t2 == Append(times, time)
             n == Len(seq)
  <1>1. /\ time \in Nat /\ time > 0
    BY DEF LimitsInv
  <1>2. /\ n \in Nat /\ Len(times) = n /\ InOrderUpTo(times, time)
        /\ \A i \in 1..n : seq[i] \in Requests /\ times[i] \in Nat
        /\ \A i \in 1..n : times[i] = checks[seq[i]].at[l] /\ times[i] > 0
        /\ \A i, j \in 1..n : seq[i] = seq[j] => i = j
        /\ \A x \in Requests : checks[x].at[l] > 0 => \E i \in 1..n : seq[i] = x
        /\ \A i \in 1..n :
             Explained(checks[seq[i]], l, Over(times, i, LimitMost[l], LimitSpan[l]))
    BY DEF HitsInOrder
  <1>3. \A i \in 1..n : seq[i] # r
    BY <1>2
  <1>4. /\ s2 \in Seq(Requests) /\ Len(s2) = n + 1 /\ s2[n + 1] = r
        /\ \A i \in 1..n : s2[i] = seq[i]
    OBVIOUS
  <1>5. /\ t2 \in Seq(Nat) /\ Len(t2) = n + 1 /\ t2[n + 1] = time
        /\ \A i \in 1..n : t2[i] = times[i]
    BY <1>1, <1>2
  <1> HIDE DEF s2, t2, n
  <1>6. \A i \in 1..n + 1 : i \in 1..n \/ i = n + 1
    BY <1>2
  <1>7. InOrderUpTo(t2, time')
    <2>1. \A i \in 1..n : times[i] <= time
      BY <1>2 DEF InOrderUpTo
    <2>2. \A i, j \in 1..n : i <= j => times[i] <= times[j]
      BY <1>2 DEF InOrderUpTo
    <2>3. \A i \in 1..n + 1 : t2[i] <= time
      BY <1>1, <1>5, <1>6, <2>1
    <2>4. ASSUME NEW i \in 1..n + 1, NEW j \in 1..n + 1, i <= j PROVE t2[i] <= t2[j]
      <3>1. CASE j = n + 1
        BY <1>5, <2>3, <3>1
      <3>2. CASE j \in 1..n
        <4>1. i \in 1..n
          BY <1>2, <2>4, <3>2
        <4> QED
          BY <1>5, <2>2, <2>4, <3>2, <4>1
      <3> QED
        BY <1>6, <3>1, <3>2
    <2> QED
      BY <1>5, <2>3, <2>4 DEF InOrderUpTo
  <1>8. \A i \in 1..n + 1 : t2[i] = checks'[s2[i]].at[l] /\ t2[i] > 0
    <2>1. \A i \in 1..n : t2[i] = checks'[s2[i]].at[l] /\ t2[i] > 0
      <3> SUFFICES ASSUME NEW i \in 1..n
                   PROVE  t2[i] = checks'[s2[i]].at[l] /\ t2[i] > 0
        OBVIOUS
      <3>1. seq[i] \in Requests /\ seq[i] # r
        BY <1>2, <1>3
      <3>2. checks'[seq[i]].at[l] = checks[seq[i]].at[l]
        BY <3>1 DEF SaysTheSame
      <3>3. times[i] = checks[seq[i]].at[l] /\ times[i] > 0
        BY <1>2
      <3> QED
        BY <1>4, <1>5, <3>2, <3>3
    <2>2. t2[n + 1] = checks'[s2[n + 1]].at[l] /\ t2[n + 1] > 0
      BY <1>1, <1>4, <1>5
    <2> QED
      BY <1>6, <2>1, <2>2
  <1>9. \A i, j \in 1..n + 1 : s2[i] = s2[j] => i = j
    <2> SUFFICES ASSUME NEW i \in 1..n + 1, NEW j \in 1..n + 1, s2[i] = s2[j]
                 PROVE  i = j
      OBVIOUS
    <2>1. CASE i \in 1..n /\ j \in 1..n
      BY <1>2, <1>4, <2>1
    <2>2. CASE i = n + 1 \/ j = n + 1
      BY <1>3, <1>4, <1>6, <2>2
    <2> QED
      BY <1>6, <2>1, <2>2
  <1>10. \A x \in Requests : checks'[x].at[l] > 0 => \E i \in 1..n + 1 : s2[i] = x
    <2> SUFFICES ASSUME NEW x \in Requests, checks'[x].at[l] > 0
                 PROVE  \E i \in 1..n + 1 : s2[i] = x
      OBVIOUS
    <2>1. CASE x = r
      <3>1. n + 1 \in 1..n + 1
        BY <1>2
      <3> QED
        BY <1>4, <2>1, <3>1
    <2>2. CASE x # r
      <3>1. PICK i \in 1..n : seq[i] = x
        BY <1>2, <2>2 DEF SaysTheSame
      <3>2. i \in 1..n + 1 /\ s2[i] = x
        BY <1>2, <1>4, <3>1
      <3> QED
        BY <3>2
    <2> QED
      BY <2>1, <2>2
  <1>11. \A i \in 1..n + 1 :
           Explained(checks'[s2[i]], l, Over(t2, i, LimitMost[l], LimitSpan[l]))
    <2>1. ASSUME NEW i \in 1..n
          PROVE  Explained(checks'[s2[i]], l, Over(t2, i, LimitMost[l], LimitSpan[l]))
      <3>1. Explained(checks'[s2[i]], l, Over(times, i, LimitMost[l], LimitSpan[l]))
        <4>1. /\ seq[i] \in Requests /\ s2[i] = seq[i]
              /\ Explained(checks[seq[i]], l, Over(times, i, LimitMost[l], LimitSpan[l]))
          BY <1>2, <1>4
        <4>2. SaysTheSame(checks'[seq[i]], checks[seq[i]], l)
          BY <1>3, <4>1
        <4> QED
          BY <4>1, <4>2 DEF Explained, SaysTheSame
      <3>2. t2[i] = times[i]
        BY <1>5
      <3>3. i > LimitMost[l] => t2[i - LimitMost[l]] = times[i - LimitMost[l]]
        <4> SUFFICES ASSUME i > LimitMost[l]
                     PROVE  t2[i - LimitMost[l]] = times[i - LimitMost[l]]
          OBVIOUS
        <4>1. i - LimitMost[l] \in 1..n
          BY <1>2, LimitFacts, SMTT(30)
        <4> QED
          BY <1>5, <4>1
      <3> QED
        BY <3>1, <3>2, <3>3 DEF Over
    <2>2. Explained(checks'[s2[n + 1]], l, Over(t2, n + 1, LimitMost[l], LimitSpan[l]))
      <3>1. Len(Shared!HitsOf(windows', l)) > LimitMost[l]
              <=> Over(t2, n + 1, LimitMost[l], LimitSpan[l])
        BY <1>2 DEF HitAs, t2
      <3> QED
        BY <1>4, <3>1 DEF Explained
    <2> QED
      BY <1>6, <2>1, <2>2
  <1>12. LeftOf(Shared!HitsOf(windows', l), t2, time, LimitSpan[l], MaxHits)
    BY DEF HitAs, t2
  <1>13. HitsInOrder(l, s2, t2)'
    <2>1. Len(s2) = n + 1 /\ Len(t2) = Len(s2)
      BY <1>4, <1>5
    <2>2. LeftOf(Shared!HitsOf(windows', l), t2, time', LimitSpan[l], MaxHits)
      BY <1>12
    <2> QED
      BY <1>7, <1>8, <1>9, <1>10, <1>11, <2>1, <2>2 DEF HitsInOrder, s2, t2
  <1> QED
    BY <1>13 DEF s2, t2

\* The store counts a hit of a request, which becomes c.
LEMMA CountedKeeps ==
  ASSUME LimitsInv, NEW r \in Requests, NEW l \in Limits, NEW c,
         l \in checks[r].asked, UNCHANGED time,
         windows' = Shared!AfterHit(windows, l, time, LimitSpan[l], MaxHits),
         checks' = [checks EXCEPT ![r] = c],
         c \in CheckKind, c.path = checks[r].path, c.asked = checks[r].asked \ {l},
         c.at = [checks[r].at EXCEPT ![l] = time],
         c.exceeded \in {checks[r].exceeded, checks[r].exceeded \cup {l}},
         checks[r].failed => c.failed,
         Explained(c, l, Len(windows'[l]) > LimitMost[l])
  PROVE  LimitsInv'
  <1> DEFINE w == Shared!HitsOf(windows', l)
  <1>2. /\ time \in Nat /\ time > 0 /\ checks \in [Requests -> CheckKind]
        /\ \A x \in Requests : checks[x] \in CheckKind /\ RequestOK(checks[x])
    BY DEF LimitsInv
  <1>4. checks[r].at \in [Limits -> Nat] /\ checks[r].at[l] = 0 /\ l \notin checks[r].exceeded
    BY <1>2 DEF RequestOK, CheckKind
  <1>5. /\ checks' \in [Requests -> CheckKind]
        /\ \A x \in Requests : checks'[x] = IF x = r THEN c ELSE checks[x]
    BY <1>2
  <1>6. RequestOK(c)
    <2>1. checks[r].path # "none"
      BY <1>2 DEF RequestOK
    <2>2. \A m \in Limits : c.at[m] = IF m = l THEN time ELSE checks[r].at[m]
      BY <1>4
    <2>3. checks[r].asked \in SUBSET Limits /\ checks[r].exceeded \in SUBSET Limits
      BY <1>2 DEF CheckKind
    <2>4. \A m \in c.asked : c.at[m] = 0
      BY <1>2, <2>2, <2>3 DEF RequestOK
    <2>5. \A m \in c.exceeded : c.at[m] > 0
      BY <1>2, <2>2, <2>3 DEF RequestOK
    <2> QED
      BY <2>1, <2>4, <2>5 DEF RequestOK
  <1>7. /\ windows'[l] = w
        /\ w = Shared!NewestOnly(
                 Append(Shared!InWindow(Shared!HitsOf(windows, l), time, LimitSpan[l]), time),
                 MaxHits)
        /\ \A m \in Limits : m # l => Shared!HitsOf(windows', m) = Shared!HitsOf(windows, m)
    BY DEF Shared!AfterHit, Shared!Put, Shared!HitsOf
  <1> HIDE DEF w
  <1>8. ASSUME NEW m \in Limits
        PROVE  (\E seq \in Seq(Requests), times \in Seq(Nat) : HitsInOrder(m, seq, times))'
    <2>1. PICK seq \in Seq(Requests), times \in Seq(Nat) : HitsInOrder(m, seq, times)
      BY DEF LimitsInv
    <2>2. CASE m # l
      <3>1. \A x \in Requests : SaysTheSame(checks'[x], checks[x], m)
        BY <1>4, <1>5, <2>2 DEF SaysTheSame
      <3>2. HitsInOrder(m, seq, times)'
        BY <1>2, <1>7, <2>1, <2>2, <3>1, LimitUnchanged
      <3> QED
        BY <3>2
    <2>3. CASE m = l
      <3>1. InOrderUpTo(times, time) /\
            LeftOf(Shared!HitsOf(windows, l), times, time, LimitSpan[l], MaxHits)
        BY <2>1, <2>3 DEF HitsInOrder
      <3>2. HitAs(w, times, time, LimitSpan[l], MaxHits, LimitMost[l])
        BY <1>2, <1>7, <3>1, LimitFacts, WindowHit
      <3>3. \A x \in Requests : x # r => SaysTheSame(checks'[x], checks[x], l)
        BY <1>5 DEF SaysTheSame
      <3>4. checks'[r].at[l] = time
        BY <1>4, <1>5
      <3>5. Explained(checks'[r], l, Len(w) > LimitMost[l])
        BY <1>5, <1>7
      <3>6. HitsInOrder(l, Append(seq, r), Append(times, time))'
        BY <1>4, <2>1, <2>3, <3>2, <3>3, <3>4, <3>5, HitJoins DEF w
      <3>7. Append(seq, r) \in Seq(Requests) /\ Append(times, time) \in Seq(Nat)
        BY <1>2
      <3> QED
        BY <2>3, <3>6, <3>7
    <2> QED
      BY <2>2, <2>3
  <1>9. \A x \in Requests : RequestOK(checks'[x])
    BY <1>2, <1>5, <1>6
  <1> QED
    BY <1>2, <1>5, <1>8, <1>9 DEF LimitsInv

LEMMA SharedHitKeeps ==
  ASSUME LimitsInv, NEW r \in Requests, NEW l \in Limits, Shared!Hit(r, l)
  PROVE  LimitsInv'
  <1> DEFINE over == Len(windows'[l]) > LimitMost[l]
             c == [checks[r] EXCEPT
                     !.asked = checks[r].asked \ {l}, !.at[l] = time,
                     !.exceeded = IF over THEN checks[r].exceeded \cup {l}
                                  ELSE checks[r].exceeded]
  <1>1. /\ l \in checks[r].asked /\ UNCHANGED time
        /\ windows' = Shared!AfterHit(windows, l, time, LimitSpan[l], MaxHits)
        /\ checks' = [checks EXCEPT ![r] = c]
    <2>1. Shared!Exceeds(Len(windows'[l]), l) <=> over
      BY DEF Shared!Exceeds
    <2> QED
      BY <2>1 DEF Shared!Hit
  <1>2. time \in Nat /\ checks[r] \in CheckKind /\ RequestOK(checks[r])
    BY DEF LimitsInv
  <1> HIDE DEF over
  <1>3. /\ c \in CheckKind /\ c.path = checks[r].path /\ c.asked = checks[r].asked \ {l}
        /\ c.at = [checks[r].at EXCEPT ![l] = time] /\ c.failed = checks[r].failed
        /\ c.exceeded = IF over THEN checks[r].exceeded \cup {l} ELSE checks[r].exceeded
    BY <1>2 DEF CheckKind
  <1>4. l \notin checks[r].exceeded
    BY <1>1, <1>2 DEF RequestOK
  <1> HIDE DEF c
  <1>5. Explained(c, l, over)
    BY <1>3, <1>4 DEF Explained
  <1> QED
    BY <1>1, <1>3, <1>5, CountedKeeps DEF over

LEMMA HitLostKeeps ==
  ASSUME LimitsInv, NEW r \in Requests, NEW l \in Limits, Shared!HitLost(r, l)
  PROVE  LimitsInv'
  <1> DEFINE c == [checks[r] EXCEPT !.asked = checks[r].asked \ {l}, !.at[l] = time,
                                    !.failed = TRUE]
  <1>1. /\ l \in checks[r].asked /\ UNCHANGED time
        /\ windows' = Shared!AfterHit(windows, l, time, LimitSpan[l], MaxHits)
        /\ checks' = [checks EXCEPT ![r] = c]
    BY DEF Shared!HitLost
  <1>2. time \in Nat /\ checks[r] \in CheckKind /\ RequestOK(checks[r])
    BY DEF LimitsInv
  <1>3. /\ c \in CheckKind /\ c.path = checks[r].path /\ c.asked = checks[r].asked \ {l}
        /\ c.at = [checks[r].at EXCEPT ![l] = time] /\ c.failed
        /\ c.exceeded = checks[r].exceeded
    BY <1>2 DEF CheckKind
  <1>4. l \notin checks[r].exceeded
    BY <1>1, <1>2 DEF RequestOK
  <1> HIDE DEF c
  <1>5. Explained(c, l, Len(windows'[l]) > LimitMost[l])
    BY <1>3, <1>4 DEF Explained
  <1> QED
    BY <1>1, <1>3, <1>5, CountedKeeps

LEMMA LimitsStep == LimitsInv /\ Shared!LimitsNext => LimitsInv'
  <1> SUFFICES ASSUME LimitsInv, Shared!LimitsNext PROVE LimitsInv'
    OBVIOUS
  <1>1. ASSUME NEW r \in Requests, NEW path \in Limits, Shared!Ask(r, path) PROVE LimitsInv'
    BY <1>1, AskKeeps
  <1>2. ASSUME NEW r \in Requests, NEW l \in Limits, Shared!Hit(r, l) PROVE LimitsInv'
    BY <1>2, SharedHitKeeps
  <1>3. ASSUME NEW r \in Requests, NEW l \in Limits, Shared!HitFails(r, l) PROVE LimitsInv'
    BY <1>3, HitFailsKeeps
  <1>4. ASSUME NEW r \in Requests, NEW l \in Limits, Shared!HitLost(r, l) PROVE LimitsInv'
    BY <1>4, HitLostKeeps
  <1>5. CASE Shared!LimitsTick
    BY <1>5, LimitsTickKeeps
  <1> QED
    BY <1>1, <1>2, <1>3, <1>4, <1>5 DEF Shared!LimitsNext

\* What the order of its hits says of a limit: at most Most requests whose hits
\* found room were counted in any one span, ...
LEMMA LetThroughAtMost ==
  ASSUME LimitsInv, NEW l \in Limits, NEW t \in Nat, NEW R \in SUBSET Requests,
         \A r \in R : /\ checks[r].at[l] \in (t - LimitSpan[l] + 1)..t
                      /\ checks[r].at[l] > 0
                      /\ l \notin checks[r].exceeded /\ ~checks[r].failed
  PROVE  Cardinality(R) <= LimitMost[l]
  <1> DEFINE most == LimitMost[l]
             span == LimitSpan[l]
  <1>1. PICK seq \in Seq(Requests), times \in Seq(Nat) : HitsInOrder(l, seq, times)
    BY DEF LimitsInv
  <1>2. /\ Len(seq) \in Nat /\ Len(times) = Len(seq)
        /\ \A i \in 1..Len(seq) : seq[i] \in Requests /\ times[i] \in Nat
        /\ \A i, j \in 1..Len(seq) : i <= j => times[i] <= times[j]
        /\ \A i \in 1..Len(seq) : times[i] = checks[seq[i]].at[l]
        /\ \A i, j \in 1..Len(seq) : seq[i] = seq[j] => i = j
        /\ \A r \in Requests : checks[r].at[l] > 0 => \E i \in 1..Len(seq) : seq[i] = r
        /\ \A i \in 1..Len(seq) :
             Over(times, i, most, span) =>
               l \in checks[seq[i]].exceeded \/ checks[seq[i]].failed
    BY <1>1 DEF HitsInOrder, InOrderUpTo, Explained
  <1>3. most \in Nat /\ span \in Nat /\ most >= 1
    BY LimitFacts
  <1> DEFINE J == {i \in 1..Len(seq) : seq[i] \in R}
             place == [r \in R |-> CHOOSE i \in 1..Len(seq) : seq[i] = r]
  <1>4. \A r \in R : place[r] \in J /\ seq[place[r]] = r
    <2> SUFFICES ASSUME NEW r \in R PROVE place[r] \in J /\ seq[place[r]] = r
      OBVIOUS
    <2>1. \E i \in 1..Len(seq) : seq[i] = r
      BY <1>2
    <2> QED
      BY <2>1
  <1>5. CASE J = {}
    <2>1. R = {}
      BY <1>4, <1>5
    <2> QED
      BY <1>3, <2>1, FS_EmptySet
  <1>6. CASE J # {}
    <2> HIDE DEF most, span
    <2>1. J \in SUBSET Nat
      BY <1>2
    <2>2. PICK m \in J : \A i \in J : m <= i
      BY <1>6, <2>1, LeastOf
    <2>3. ASSUME NEW i \in J PROVE i \in m..m + most - 1
      <3>1. /\ i \in 1..Len(seq) /\ m \in 1..Len(seq) /\ m <= i
            /\ times[i] \in t - span + 1..t /\ times[m] \in t - span + 1..t
            /\ l \notin checks[seq[i]].exceeded /\ ~checks[seq[i]].failed
            /\ times[i] \in Nat /\ times[m] \in Nat
        BY <1>2, <2>2 DEF span
      <3>2. ASSUME m + most <= i PROVE FALSE
        <4>1. i - most \in 1..Len(seq) /\ m <= i - most /\ i > most
          BY <1>2, <1>3, <3>1, <3>2
        <4>2. times[m] <= times[i - most] /\ times[i - most] \in Nat
          BY <1>2, <3>1, <4>1
        <4>3. times[i - most] > times[i] - span
          <5>1. PICK p \in Nat, q \in Nat : p = times[i] /\ q = times[m]
            BY <3>1
          <5>2. PICK o \in Nat : o = times[i - most]
            BY <4>2
          <5>3. p <= t /\ t - span + 1 <= q /\ q <= o
            BY <1>3, <3>1, <4>2, <5>1, <5>2, SMTT(30)
          <5>4. o > p - span
            BY <1>3, <5>3
          <5> QED
            BY <5>1, <5>2, <5>4
        <4>4. Over(times, i, most, span)
          BY <4>1, <4>3 DEF Over
        <4> QED
          BY <1>2, <3>1, <4>4
      <3> QED
        BY <1>3, <3>1, <3>2
    <2>4. IsFiniteSet(m..m + most - 1) /\ Cardinality(m..m + most - 1) = most
      <3>1. m \in Int /\ m + most - 1 \in Int /\ ~(m > m + most - 1)
            /\ (m + most - 1) - m + 1 = most
        BY <1>3, <2>1, <2>2
      <3> QED
        BY <3>1, FS_Interval
    <2>5. place \in Injection(R, m..m + most - 1)
      <3>1. place \in [R -> m..m + most - 1]
        BY <1>4, <2>3
      <3>2. \A x, y \in R : place[x] = place[y] => x = y
        BY <1>4
      <3> HIDE DEF place
      <3> QED
        BY <3>1, <3>2 DEF Injection, IsInjective
    <2> HIDE DEF place
    <2>6. Cardinality(R) <= Cardinality(m..m + most - 1)
      BY <2>4, <2>5, FS_Injection
    <2> QED
      BY <2>4, <2>6 DEF most
  <1> QED
    BY <1>5, <1>6

\* ... and one whose hit found none was counted with more than Most in a span.
LEMMA MoreThanMost ==
  ASSUME LimitsInv, NEW l \in Limits, NEW r \in Requests, l \in checks[r].exceeded,
         NEW C, C = {x \in Requests :
                       /\ checks[x].at[l] > 0
                       /\ checks[x].at[l] \in (checks[r].at[l] - LimitSpan[l] + 1)..checks[r].at[l]}
  PROVE  Cardinality(C) > LimitMost[l]
  <1> DEFINE most == LimitMost[l]
             span == LimitSpan[l]
  <1>1. PICK seq \in Seq(Requests), times \in Seq(Nat) : HitsInOrder(l, seq, times)
    BY DEF LimitsInv
  <1>2. /\ Len(seq) \in Nat /\ Len(times) = Len(seq)
        /\ \A i \in 1..Len(seq) : seq[i] \in Requests /\ times[i] \in Nat
        /\ \A i, j \in 1..Len(seq) : i <= j => times[i] <= times[j]
        /\ \A i \in 1..Len(seq) : times[i] = checks[seq[i]].at[l] /\ times[i] > 0
        /\ \A i, j \in 1..Len(seq) : seq[i] = seq[j] => i = j
        /\ \A x \in Requests : checks[x].at[l] > 0 => \E i \in 1..Len(seq) : seq[i] = x
        /\ \A i \in 1..Len(seq) :
             l \in checks[seq[i]].exceeded => Over(times, i, most, span)
    <2>1. ASSUME NEW i \in 1..Len(seq), l \in checks[seq[i]].exceeded
          PROVE  Over(times, i, most, span)
      BY <1>1, <2>1 DEF HitsInOrder, Explained
    <2> HIDE DEF most, span
    <2> QED
      BY <1>1, <2>1 DEF HitsInOrder, InOrderUpTo
  <1>3. most \in Nat /\ span \in Nat
    BY LimitFacts
  <1>4. checks[r].at[l] > 0
    BY DEF LimitsInv, RequestOK
  <1>5. PICK i \in 1..Len(seq) : seq[i] = r
    BY <1>2, <1>4
  <1> HIDE DEF most, span
  <1>6. i > most /\ times[i - most] > times[i] - span /\ times[i] = checks[r].at[l]
    BY <1>2, <1>5 DEF Over
  <1> DEFINE J == (i - most)..i
             chosen == [j \in J |-> seq[j]]
  <1>7. ASSUME NEW j \in J PROVE seq[j] \in C /\ j \in 1..Len(seq)
    <2>1. j \in 1..Len(seq) /\ i - most \in 1..Len(seq) /\ i - most <= j /\ j <= i
      BY SMTT(30), <1>2, <1>3, <1>6
    <2>2. /\ times[i - most] <= times[j] /\ times[j] <= times[i]
          /\ times[j] \in Nat /\ times[i] \in Nat /\ times[i - most] \in Nat
      BY <1>2, <2>1
    <2>3. times[j] \in times[i] - span + 1..times[i]
      <3>1. PICK p \in Nat, q \in Nat : p = times[i] /\ q = times[j]
        BY <2>2
      <3>2. PICK o \in Nat : o = times[i - most]
        BY <2>2
      <3>3. q <= p /\ o <= q /\ o > p - span
        BY <1>6, <2>2, <3>1, <3>2
      <3>4. q \in p - span + 1..p
        BY <1>3, <3>3
      <3> QED
        BY <3>1, <3>4
    <2>4. seq[j] \in Requests /\ checks[seq[j]].at[l] = times[j] /\ times[j] > 0
      BY <1>2, <2>1
    <2> QED
      BY <1>6, <2>1, <2>3, <2>4 DEF span
  <1>8. chosen \in Injection(J, C)
    <2>1. chosen \in [J -> C]
      BY <1>7
    <2>2. \A x, y \in J : chosen[x] = chosen[y] => x = y
      BY <1>2, <1>7
    <2> HIDE DEF chosen, J
    <2> QED
      BY <2>1, <2>2 DEF Injection, IsInjective
  <1>9. Cardinality(J) = most + 1
    <2>1. i - most \in Int /\ i \in Int /\ ~(i - most > i) /\ i - (i - most) + 1 = most + 1
      BY <1>3
    <2> QED
      BY <2>1, FS_Interval
  <1>10. IsFiniteSet(C)
    <2> DEFINE counted == {seq[j] : j \in 1..Len(seq)}
               all == [j \in 1..Len(seq) |-> seq[j]]
    <2>1. all \in Surjection(1..Len(seq), counted)
      BY DEF Surjection
    <2>2. IsFiniteSet(1..Len(seq))
      <3>1. 1 \in Int /\ Len(seq) \in Int
        BY <1>2
      <3> QED
        BY <3>1, FS_Interval
    <2>3. C \in SUBSET counted
      <3> SUFFICES ASSUME NEW x \in C PROVE x \in counted
        OBVIOUS
      <3>1. \E j \in 1..Len(seq) : seq[j] = x
        BY <1>2
      <3> QED
        BY <3>1
    <2> HIDE DEF counted, all
    <2>4. IsFiniteSet(counted)
      BY <2>1, <2>2, FS_Surjection
    <2> QED
      BY <2>3, <2>4, FS_Subset
  <1> HIDE DEF J, chosen
  <1>11. Cardinality(J) <= Cardinality(C) /\ Cardinality(C) \in Nat
    BY <1>8, <1>10, FS_Injection, FS_CardinalityType
  <1> QED
    BY <1>3, <1>9, <1>11 DEF most

LEMMA LimitsHold == LimitsInv => Shared!SharedLimitsHold
  <1> SUFFICES ASSUME LimitsInv PROVE Shared!SharedLimitsHold
    OBVIOUS
  <1>1. \A S : Shared!Cardinality(S) = Cardinality(S)
    BY DEF Shared!Cardinality, Cardinality
  <1>2. ASSUME NEW l \in Limits, NEW t \in 1..LimitTime
        PROVE  Shared!Cardinality({r \in Shared!Counted(l, t) : Shared!Unlimited(r)})
                 <= LimitMost[l]
    <2> DEFINE R == {r \in Shared!Counted(l, t) : Shared!Unlimited(r)}
    <2>1. R \in SUBSET Requests /\ t \in Nat
      BY DEF Shared!Counted
    <2>2. \A r \in R : /\ checks[r].at[l] \in (t - LimitSpan[l] + 1)..t
                       /\ checks[r].at[l] > 0
                       /\ l \notin checks[r].exceeded /\ ~checks[r].failed
      BY DEF Shared!Counted, Shared!Unlimited
    <2> HIDE DEF R
    <2>3. Cardinality(R) <= LimitMost[l]
      BY <2>1, <2>2, LetThroughAtMost
    <2> QED
      BY <1>1, <2>3 DEF R
  <1>3. ASSUME NEW r \in Requests, Shared!Limited(r)
        PROVE  \E l \in checks[r].exceeded :
                 Shared!Cardinality(Shared!Counted(l, checks[r].at[l])) > LimitMost[l]
    <2>1. PICK l : l \in checks[r].exceeded
      BY <1>3 DEF Shared!Limited
    <2>2. l \in Limits
      BY <2>1 DEF LimitsInv, CheckKind
    <2> DEFINE C == Shared!Counted(l, checks[r].at[l])
    <2>3. C = {x \in Requests :
                 /\ checks[x].at[l] > 0
                 /\ checks[x].at[l] \in (checks[r].at[l] - LimitSpan[l] + 1)..checks[r].at[l]}
      BY DEF Shared!Counted
    <2> HIDE DEF C
    <2>4. Cardinality(C) > LimitMost[l]
      BY <2>1, <2>2, <2>3, MoreThanMost
    <2> QED
      BY <1>1, <2>1, <2>4 DEF C
  <1> QED
    BY <1>2, <1>3 DEF Shared!SharedLimitsHold

-----------------------------------------------------------------------------
(* All the tables.                                                         *)
TablesInv ==
  /\ part = "limits" => LimitsInv
  /\ part = "isolate" /\ MaxCalls > 0 => CallersInv
  /\ part = "store" => StoreInv
  /\ part = "tracker" => TrackerInv

LEMMA IsolateStep ==
  ASSUME MaxCalls > 0, CallersInv, IsolateNext
  PROVE  CallersInv'
  <1>1. ASSUME NEW k \in Clients, Allow(k) PROVE CallersInv'
    BY <1>1, AllowKeeps
  <1>2. CASE IsolateTick
    BY <1>2, IsolateTickKeeps
  <1> QED
    BY <1>1, <1>2 DEF IsolateNext

LEMMA LimitsStutter == LimitsInv /\ UNCHANGED limitVars => LimitsInv'
  <1> SUFFICES ASSUME LimitsInv, UNCHANGED <<time, windows, checks>> PROVE LimitsInv'
    BY DEF limitVars
  <1> QED
    BY DEF LimitsInv, HitsInOrder

LEMMA IsolateStutter == CallersInv /\ UNCHANGED isolateVars => CallersInv'
  <1> SUFFICES ASSUME CallersInv, UNCHANGED <<at, recent, log, later, answered>>
               PROVE  CallersInv'
    BY DEF isolateVars
  <1>1. \A k \in Clients : /\ Times(k)' = Times(k) /\ Since(k)' = Since(k)
                           /\ Known(k)' <=> Known(k)
    BY DEF Times, Since, Forgotten, Known
  <1> QED
    BY <1>1 DEF CallersInv

LEMMA StoreStutter == StoreInv /\ UNCHANGED storeVars => StoreInv'
  <1> SUFFICES ASSUME StoreInv,
                      UNCHANGED <<storeNow, kind, table, calls, answer, storeLog, since>>
               PROVE  StoreInv'
    BY DEF storeVars
  <1>1. StoreBase'
    BY DEF StoreInv, StoreBase, CallOK, PyStore!Idle
  <1>2. (kind = "once" => OnceInv)'
    BY DEF StoreInv, OnceInv
  <1>3. (kind = "windows" => WindowsInv)'
    BY DEF StoreInv, WindowsInv
  <1>4. (kind = "values" => ValuesInv)'
    BY DEF StoreInv, ValuesInv
  <1> QED
    BY <1>1, <1>2, <1>3, <1>4 DEF StoreInv

LEMMA TrackerStutter == TrackerInv /\ UNCHANGED trackerVars => TrackerInv'
  <1> SUFFICES ASSUME TrackerInv,
                      UNCHANGED <<trackerNow, sessions, order, threads, cookies,
                                  recorded, newer, seen, wronged>>
               PROVE  TrackerInv'
    BY DEF trackerVars
  <1>1. HeapInv'
    BY DEF TrackerInv, HeapInv
  <1>2. ServedInv'
    BY DEF TrackerInv, ServedInv, ServedOK
  <1>3. ListedInv'
    BY DEF TrackerInv, ListedInv
  <1> QED
    BY <1>1, <1>2, <1>3 DEF TrackerInv

\* The tables in which calls are counted keep what they promise: overlapping
\* requests to several instances get at most max through a shared limit and are
\* denied only over it (AegisNode.checkSharedLimits, Store.hit); the edge worker
\* counts like one that forgets nothing (aegis-edge-worker.js allow()); the
\* Python store answers as one that drops nothing but what it must (store.py);
\* no live session of the Python server is dropped for an older one
\* (session.py) - for any number of requests, keys, sessions and threads.
THEOREM TablesExactAlways == SpecAny => []TablesExact
  <1>1. InitAny => TablesInv
    <2> SUFFICES ASSUME InitAny PROVE TablesInv
      OBVIOUS
    <2>1. /\ Shared!LimitsInit /\ IsolateInit
          /\ PyStore!PythonInit /\ PyTracker!TrackerInit
      BY DEF InitAny
    <2> QED
      BY <2>1, LimitsInitInv, CallersInit, StoreInitInv, TrackerInitInv DEF TablesInv
  <1>2. TablesInv /\ [NextAny]_<<part, nodeVars, otherVars>> => TablesInv'
    <2> SUFFICES ASSUME TablesInv, [NextAny]_<<part, nodeVars, otherVars>>
                 PROVE  TablesInv'
      OBVIOUS
    <2>1. CASE NextLimits /\ UNCHANGED part
      BY <2>1, LimitsStep DEF NextLimits, TablesInv
    <2>2. CASE NextStore /\ UNCHANGED part
      BY <2>2, StoreStep DEF NextStore, TablesInv
    <2>3. CASE NextTracker /\ UNCHANGED part
      BY <2>3, TrackerStep DEF NextTracker, TablesInv
    <2>4. CASE NextIsolate /\ UNCHANGED part
      BY <2>4, IsolateStep DEF NextIsolate, TablesInv
    <2>5. CASE /\ NextSessions \/ NextFlow \/ NextRecords \/ NextVisits \/ NextEdge
               /\ UNCHANGED part
      BY <2>5 DEF NextSessions, NextFlow, NextRecords, NextVisits, NextEdge, TablesInv
    <2>6. CASE UNCHANGED <<part, nodeVars, otherVars>>
      <3>1. UNCHANGED <<part, limitVars, storeVars, trackerVars, isolateVars>>
        BY <2>6 DEF nodeVars, otherVars, pythonVars
      <3> QED
        BY <3>1, LimitsStutter, IsolateStutter, StoreStutter, TrackerStutter DEF TablesInv
    <2> QED
      BY <2>1, <2>2, <2>3, <2>4, <2>5, <2>6 DEF NextAny
  <1>3. TablesInv => TablesExact
    <2> SUFFICES ASSUME TablesInv PROVE TablesExact
      OBVIOUS
    <2>1. part = "limits" => Shared!SharedLimitsHold
      BY LimitsHold DEF TablesInv
    <2>2. part = "isolate" => IsolateLimitHolds
      BY DEF TablesInv, CallersInv, IsolateLimitHolds
    <2>3. part = "store" => PyStore!PromiseKept
      BY DEF TablesInv, StoreInv, StoreBase, PyStore!PromiseKept
    <2>4. part = "tracker" => PyTracker!SessionsKept
      BY TrackerHolds DEF TablesInv
    <2> QED
      BY <2>1, <2>2, <2>3, <2>4 DEF TablesExact
  <1> QED
    BY <1>1, <1>2, <1>3, PTL DEF SpecAny

=============================================================================
