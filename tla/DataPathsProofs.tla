--------------------------- MODULE DataPathsProofs ---------------------------
(***************************************************************************)
(* Proofs about where data is kept and how it gets to a viewer, for all    *)
(* keys, values, sizes, times, viewers and events: the bounded map keeps   *)
(* what was used last and implements the lossy map, both stores answer as  *)
(* their interface promises, the feed tells every viewer what it drops,    *)
(* and the dashboard's page is never left without a source of data.        *)
(***************************************************************************)
EXTENDS BoundedMapSpec, StoreSpec, Dashboard,
        FiniteSetTheorems, SequenceTheorems, WellFoundedInduction, TLAPS

-----------------------------------------------------------------------------
(* BoundedMapSpec                                                           *)

(* floor(maxSize / 2) is at least one, and two generations fit in maxSize. *)
LEMMA GenerationSizeFacts ==
  GenerationSize \in Nat /\ GenerationSize >= 1 /\ 2 * GenerationSize <= MaxSize
BY MaxSizeAssumption DEF GenerationSize

(* A generation is a function whose keys and values are in the right sets. *)
LEMMA GenerationsChar ==
  ASSUME NEW f
  PROVE  f \in Generations <=>
           /\ f = [x \in DOMAIN f |-> f[x]]
           /\ DOMAIN f \subseteq Keys
           /\ \A x \in DOMAIN f : f[x] \in Values
<1>1. ASSUME f \in Generations
      PROVE  /\ f = [x \in DOMAIN f |-> f[x]]
             /\ DOMAIN f \subseteq Keys
             /\ \A x \in DOMAIN f : f[x] \in Values
  <2>1. PICK D \in SUBSET Keys : f \in [D -> Values]
    BY <1>1 DEF Generations
  <2>2. QED BY <2>1
<1>2. ASSUME f = [x \in DOMAIN f |-> f[x]],
             DOMAIN f \subseteq Keys,
             \A x \in DOMAIN f : f[x] \in Values
      PROVE  f \in Generations
  <2>1. f \in [DOMAIN f -> Values]
    BY <1>2
  <2>2. QED BY <2>1, <1>2 DEF Generations
<1>3. QED BY <1>1, <1>2

(* What Put returns: one more key, that key's value, the others' values.   *)
LEMMA PutFacts ==
  ASSUME NEW f \in Generations, NEW k \in Keys, NEW v \in Values
  PROVE  /\ Put(f, k, v) \in Generations
         /\ DOMAIN Put(f, k, v) = DOMAIN f \cup {k}
         /\ Put(f, k, v)[k] = v
         /\ \A x \in DOMAIN f \ {k} : Put(f, k, v)[x] = f[x]
BY GenerationsChar DEF Put

(* What Without returns: the other keys with their values.                 *)
LEMMA WithoutFacts ==
  ASSUME NEW f \in Generations, NEW S
  PROVE  /\ Without(f, S) \in Generations
         /\ DOMAIN Without(f, S) = DOMAIN f \ S
         /\ \A x \in DOMAIN f \ S : Without(f, S)[x] = f[x]
BY GenerationsChar DEF Without

LEMMA NoEntriesFacts == NoEntries \in Generations /\ DOMAIN NoEntries = {}
BY GenerationsChar DEF NoEntries

(* Every generation is finite, because the keys are.                       *)
LEMMA GenerationsFinite ==
  ASSUME NEW f \in Generations
  PROVE  IsFiniteSet(DOMAIN f) /\ Cardinality(DOMAIN f) \in Nat
BY GenerationsChar, KeysAssumption, FS_Subset, FS_CardinalityType
-----------------------------------------------------------------------------
(* The inductive invariant holds initially.                                *)
LEMMA InitIInv == Init => IInv
<1> SUFFICES ASSUME Init PROVE IInv
  OBVIOUS
<1>1. /\ DOMAIN m.current = {}
      /\ DOMAIN m.previous = {}
      /\ m \in [current : Generations, previous : Generations]
  BY NoEntriesFacts DEF Init, EmptyMap
<1>2. Cardinality(DOMAIN m.current) = 0 /\ Cardinality(DOMAIN m.previous) = 0
  BY <1>1, FS_EmptySet
<1>3. TypeOK
  BY <1>1, GenerationSizeFacts DEF Init, TypeOK, CallOK, Calls, Forgotten
<1>4. QED
  BY <1>1, <1>2, <1>3, GenerationSizeFacts
  DEF Init, IInv, Disjoint, RecentKept, PreviousIsOlder, Forgotten

(* An insertion makes every other key one insertion older.                 *)
LEMMA AgedFacts ==
  ASSUME TypeOK, NEW k \in Keys
  PROVE  /\ AgedByInsert(k) \in [Keys -> 0..Forgotten]
         /\ AgedByInsert(k)[k] = 0
         /\ \A j \in Keys \ {k} :
              \/ age[j] = Forgotten /\ AgedByInsert(k)[j] = Forgotten
              \/ age[j] < Forgotten /\ AgedByInsert(k)[j] = age[j] + 1
BY GenerationSizeFacts DEF AgedByInsert, TypeOK, Forgotten

(* A key of the current generation is used: nothing moves.                 *)
LEMMA TouchIInv ==
  ASSUME IInv, NEW k \in Keys, k \in DOMAIN m.current,
         m'.previous = m.previous,
         DOMAIN m'.current = DOMAIN m.current,
         m' \in [current : Generations, previous : Generations],
         age' = Renewed(k), CallOK'
  PROVE  IInv'
<1> USE DEF IInv
<1>1. /\ age' \in [Keys -> 0..Forgotten]
      /\ age'[k] = 0
      /\ \A j \in Keys \ {k} : age'[j] = age[j]
  BY GenerationSizeFacts DEF Renewed, TypeOK, Forgotten
<1>2. TypeOK'
  BY <1>1 DEF TypeOK
<1>3. Disjoint'
  BY DEF Disjoint
<1>4. RecentKept'
  BY <1>1 DEF RecentKept, Has, KeysOf
<1>5. PreviousIsOlder'
  <2>1. \A j \in DOMAIN m.previous : j \in Keys /\ j # k
    BY GenerationsChar DEF TypeOK, Disjoint
  <2>2. QED
    BY <1>1, <2>1 DEF PreviousIsOlder
<1>6. QED
  BY <1>2, <1>3, <1>4, <1>5

(* A key outside the current generation is inserted: the generations       *)
(* rotate when the current one is full, and every key that is dropped has  *)
(* seen more than GenerationSize insertions.                               *)
LEMMA InsertIInv ==
  ASSUME IInv, NEW k \in Keys, NEW v \in Values, k \notin DOMAIN m.current,
         m' = Insert(Demote(m, k), k, v),
         age' = AgedByInsert(k), CallOK'
  PROVE  IInv'
<1> USE DEF IInv
<1> DEFINE d == Demote(m, k)
<1>1. /\ m.current \in Generations
      /\ m.previous \in Generations
      /\ m = [current |-> m.current, previous |-> m.previous]
  BY DEF TypeOK
<1>2. /\ d = [current |-> m.current, previous |-> d.previous]
      /\ d.current = m.current
      /\ d.previous \in Generations
      /\ DOMAIN d.previous = DOMAIN m.previous \ {k}
  <2>1. d = [current |-> m.current, previous |-> Without(m.previous, {k})]
    BY <1>1 DEF Demote
  <2>2. /\ Without(m.previous, {k}) \in Generations
        /\ DOMAIN Without(m.previous, {k}) = DOMAIN m.previous \ {k}
    BY <1>1, WithoutFacts
  <2>3. QED
    BY <2>1, <2>2
<1>3. /\ age' \in [Keys -> 0..Forgotten]
      /\ age'[k] = 0
      /\ \A j \in Keys \ {k} :
           \/ age[j] = Forgotten /\ age'[j] = Forgotten
           \/ age[j] < Forgotten /\ age'[j] = age[j] + 1
  BY AgedFacts
<1>4. /\ Cardinality(DOMAIN m.current) \in Nat
      /\ Cardinality(DOMAIN m.previous) \in Nat
      /\ IsFiniteSet(DOMAIN m.current)
      /\ IsFiniteSet(DOMAIN m.previous)
  BY <1>1, GenerationsFinite
<1>5. DOMAIN m.current \subseteq Keys /\ DOMAIN m.previous \subseteq Keys
  BY <1>1, GenerationsChar
<1> DEFINE G == GenerationSize
<1>9. /\ G \in Nat /\ G >= 1
      /\ \A j \in Keys : age[j] \in Nat /\ age[j] <= G + 1
      /\ \A j \in Keys \ {k} :
           \/ age[j] = G + 1 /\ age'[j] = G + 1
           \/ age[j] <= G /\ age'[j] = age[j] + 1
  <2>1. G \in Nat /\ G >= 1 /\ Forgotten = G + 1
    BY GenerationSizeFacts DEF Forgotten
  <2>2. age \in [Keys -> 0..Forgotten]
    BY DEF TypeOK
  <2> HIDE DEF G
  <2>3. \A j \in Keys : age[j] \in Nat /\ age[j] <= G + 1
    BY <2>1, <2>2
  <2>4. ASSUME NEW j \in Keys \ {k}
        PROVE  \/ age[j] = G + 1 /\ age'[j] = G + 1
               \/ age[j] <= G /\ age'[j] = age[j] + 1
    <3>1. age[j] \in Nat
      BY <2>3
    <3>2. \/ age[j] = Forgotten /\ age'[j] = Forgotten
          \/ age[j] < Forgotten /\ age'[j] = age[j] + 1
      BY <1>3
    <3>3. QED
      BY <2>1, <3>1, <3>2
  <2>5. QED
    BY <2>1, <2>3, <2>4
<1> HIDE DEF G
<1>10. G = GenerationSize
  BY DEF G
<1>6. CASE IsFull(d)
  <2>1. /\ m'.previous = m.current
        /\ m'.current = Put(NoEntries, k, v)
        /\ m' = [current |-> m'.current, previous |-> m'.previous]
    BY <1>2, <1>6 DEF Insert
  <2>2. m'.current \in Generations /\ DOMAIN m'.current = {k}
    <3>1. NoEntries \in Generations /\ DOMAIN NoEntries \cup {k} = {k}
      BY NoEntriesFacts
    <3>2. /\ Put(NoEntries, k, v) \in Generations
          /\ DOMAIN Put(NoEntries, k, v) = DOMAIN NoEntries \cup {k}
      BY <3>1, PutFacts
    <3>3. QED
      BY <2>1, <3>1, <3>2
  <2>3. Cardinality(DOMAIN m'.current) = 1
    BY <2>2, FS_Singleton
  <2>4. \A j \in DOMAIN m.previous : age[j] >= GenerationSize
    BY <1>2, <1>4, <1>6, GenerationSizeFacts DEF PreviousIsOlder, IsFull
  <2>5. TypeOK'
    BY <1>1, <1>3, <2>1, <2>2 DEF TypeOK
  <2>6. Disjoint'
    BY <2>1, <2>2 DEF Disjoint
  <2>7. RecentKept'
    <3> SUFFICES ASSUME NEW j \in Keys, age'[j] <= G
                 PROVE  j = k \/ j \in DOMAIN m.current
      BY <1>10, <2>1, <2>2 DEF RecentKept, Has, KeysOf
    <3>1. CASE j # k
      <4>1. age[j] < G
        BY <1>9, <3>1
      <4>2. j \in DOMAIN m.current \/ j \in DOMAIN m.previous
        BY <1>9, <1>10, <4>1 DEF RecentKept, Has, KeysOf
      <4>3. QED
        BY <1>9, <1>10, <2>4, <4>1, <4>2
    <3>2. QED BY <3>1
  <2>8. PreviousIsOlder'
    <3>1. \A j \in DOMAIN m'.previous : age'[j] >= 1
      BY <1>5, <1>9, <2>1
    <3>2. QED
      BY <2>1, <2>3, <3>1, GenerationSizeFacts DEF PreviousIsOlder
  <2>9. QED
    BY <2>5, <2>6, <2>7, <2>8
<1>7. CASE ~IsFull(d)
  <2>1. /\ m'.previous = d.previous
        /\ m'.current = Put(m.current, k, v)
        /\ m' = [current |-> m'.current, previous |-> m'.previous]
    BY <1>2, <1>7 DEF Insert
  <2>2. m'.current \in Generations /\ DOMAIN m'.current = DOMAIN m.current \cup {k}
    <3>1. /\ Put(m.current, k, v) \in Generations
          /\ DOMAIN Put(m.current, k, v) = DOMAIN m.current \cup {k}
      BY <1>1, PutFacts
    <3>2. QED
      BY <2>1, <3>1
  <2>3. /\ Cardinality(DOMAIN m'.current) = Cardinality(DOMAIN m.current) + 1
        /\ Cardinality(DOMAIN m'.previous) <= Cardinality(DOMAIN m.previous)
        /\ Cardinality(DOMAIN m'.previous) \in Nat
    BY <1>2, <1>4, <2>1, <2>2, FS_AddElement, FS_Subset, FS_CardinalityType
  <2>4. Cardinality(DOMAIN m.current) < G
    BY <1>2, <1>4, <1>7, <1>9, <1>10 DEF IsFull
  <2>5. TypeOK'
    BY <1>2, <1>3, <2>1, <2>2 DEF TypeOK
  <2>6. Disjoint'
    BY <1>2, <2>1, <2>2 DEF Disjoint
  <2>7. RecentKept'
    <3> SUFFICES ASSUME NEW j \in Keys, age'[j] <= G, j # k
                 PROVE  j \in DOMAIN m.current \/ j \in DOMAIN d.previous
      BY <1>10, <2>1, <2>2 DEF RecentKept, Has, KeysOf
    <3>1. age[j] <= G
      BY <1>9
    <3>2. QED
      BY <1>2, <1>10, <3>1 DEF RecentKept, Has, KeysOf
  <2>8. PreviousIsOlder'
    <3>1. ASSUME NEW j \in DOMAIN m'.previous
          PROVE  age'[j] >= Cardinality(DOMAIN m'.current)
      <4>1. j \in DOMAIN m.previous /\ j # k /\ j \in Keys
        BY <1>2, <1>5, <2>1
      <4>2. age[j] >= Cardinality(DOMAIN m.current)
        BY <4>1 DEF PreviousIsOlder
      <4>3. QED
        BY <1>4, <1>9, <2>3, <2>4, <4>1, <4>2
    <3>2. Cardinality(DOMAIN m'.previous) <= GenerationSize
      BY <1>4, <2>3, GenerationSizeFacts DEF PreviousIsOlder
    <3>3. QED
      <4>1. Cardinality(DOMAIN m'.current) <= G
        BY <1>4, <1>9, <2>3, <2>4
      <4>2. QED
        BY <1>10, <3>1, <3>2, <4>1 DEF PreviousIsOlder
  <2>9. QED
    BY <2>5, <2>6, <2>7, <2>8
<1>8. QED
  BY <1>6, <1>7

(* A deletion takes one key out of the generation that holds it.           *)
LEMMA DeleteIInv ==
  ASSUME IInv, NEW k \in Keys, Delete(k)
  PROVE  IInv'
<1> USE DEF IInv
<1>1. /\ m.current \in Generations
      /\ m.previous \in Generations
      /\ m = [current |-> m.current, previous |-> m.previous]
  BY DEF TypeOK
<1>2. /\ m'.current \in Generations
      /\ m'.previous \in Generations
      /\ m' = [current |-> m'.current, previous |-> m'.previous]
      /\ DOMAIN m'.current = DOMAIN m.current \ {k}
      /\ DOMAIN m'.previous \subseteq DOMAIN m.previous
      /\ DOMAIN m.previous \ {k} \subseteq DOMAIN m'.previous
  <2>1. CASE k \in DOMAIN m.current
    <3>1. m' = [current |-> Without(m.current, {k}), previous |-> m.previous]
      BY <1>1, <2>1 DEF Delete, AfterDelete
    <3>2. /\ Without(m.current, {k}) \in Generations
          /\ DOMAIN Without(m.current, {k}) = DOMAIN m.current \ {k}
      BY <1>1, WithoutFacts
    <3>3. QED
      BY <1>1, <3>1, <3>2
  <2>2. CASE k \notin DOMAIN m.current
    <3>1. m' = [current |-> m.current, previous |-> Without(m.previous, {k})]
      BY <1>1, <2>2 DEF Delete, AfterDelete, Demote
    <3>2. /\ Without(m.previous, {k}) \in Generations
          /\ DOMAIN Without(m.previous, {k}) = DOMAIN m.previous \ {k}
      BY <1>1, WithoutFacts
    <3>3. QED
      BY <1>1, <2>2, <3>1, <3>2
  <2>3. QED
    BY <2>1, <2>2
<1>3. /\ age' \in [Keys -> 0..Forgotten]
      /\ age'[k] = Forgotten
      /\ \A j \in Keys \ {k} : age'[j] = age[j]
  BY GenerationSizeFacts DEF Delete, TypeOK, Forgotten
<1>4. /\ Cardinality(DOMAIN m.current) \in Nat
      /\ Cardinality(DOMAIN m.previous) \in Nat
      /\ Cardinality(DOMAIN m'.current) \in Nat
      /\ Cardinality(DOMAIN m'.previous) \in Nat
      /\ Cardinality(DOMAIN m'.current) <= Cardinality(DOMAIN m.current)
      /\ Cardinality(DOMAIN m'.previous) <= Cardinality(DOMAIN m.previous)
  BY <1>1, <1>2, GenerationsFinite, FS_Subset
<1>5. TypeOK'
  BY <1>2, <1>3 DEF TypeOK, CallOK, Calls, Delete
<1>6. Disjoint'
  BY <1>2 DEF Disjoint
<1>7. RecentKept'
  <2> SUFFICES ASSUME NEW j \in Keys, age'[j] <= GenerationSize
               PROVE  j \in DOMAIN m'.current \/ j \in DOMAIN m'.previous
    BY DEF RecentKept, Has, KeysOf
  <2>1. j # k
    BY <1>3, GenerationSizeFacts DEF Forgotten
  <2>2. QED
    BY <1>2, <1>3, <2>1 DEF RecentKept, Has, KeysOf
<1>8. PreviousIsOlder'
  <2>1. /\ Cardinality(DOMAIN m'.current) <= GenerationSize
        /\ Cardinality(DOMAIN m'.previous) <= GenerationSize
    BY <1>4, GenerationSizeFacts DEF PreviousIsOlder
  <2>2. ASSUME NEW j \in DOMAIN m'.previous
        PROVE  age'[j] >= Cardinality(DOMAIN m'.current)
    <3>1. j \in Keys /\ age[j] \in Nat
      BY <1>1, <1>2, GenerationsChar DEF TypeOK
    <3>2. CASE j = k
      BY <1>3, <2>1, <3>2, <1>4, GenerationSizeFacts DEF Forgotten
    <3>3. CASE j # k
      <4>1. age[j] >= Cardinality(DOMAIN m.current) /\ age'[j] = age[j]
        BY <1>2, <1>3, <3>1, <3>3 DEF PreviousIsOlder
      <4>2. QED
        BY <1>4, <3>1, <4>1
    <3>4. QED
      BY <3>2, <3>3
  <2>3. QED
    BY <2>1, <2>2 DEF PreviousIsOlder
<1>9. QED
  BY <1>5, <1>6, <1>7, <1>8

LEMMA SetIInv ==
  ASSUME IInv, NEW k \in Keys, NEW v \in Values, Set(k, v)
  PROVE  IInv'
<1>1. CallOK'
  BY DEF Set, CallOK, Calls
<1>2. /\ m.current \in Generations
      /\ m.previous \in Generations
      /\ m = [current |-> m.current, previous |-> m.previous]
  BY DEF IInv, TypeOK
<1>3. CASE k \in DOMAIN m.current
  <2>1. /\ m' = [current |-> Put(m.current, k, v), previous |-> m.previous]
        /\ age' = Renewed(k)
    BY <1>2, <1>3 DEF Set, AfterSet
  <2>2. /\ Put(m.current, k, v) \in Generations
        /\ DOMAIN Put(m.current, k, v) = DOMAIN m.current
    <3>1. /\ Put(m.current, k, v) \in Generations
          /\ DOMAIN Put(m.current, k, v) = DOMAIN m.current \cup {k}
      BY <1>2, PutFacts
    <3>2. QED
      BY <1>3, <3>1
  <2>3. /\ m'.previous = m.previous
        /\ DOMAIN m'.current = DOMAIN m.current
        /\ m' \in [current : Generations, previous : Generations]
    BY <1>2, <2>1, <2>2
  <2>4. QED
    BY <1>1, <1>3, <2>1, <2>3, TouchIInv
<1>4. CASE k \notin DOMAIN m.current
  <2>1. m' = Insert(Demote(m, k), k, v) /\ age' = AgedByInsert(k)
    BY <1>4 DEF Set, AfterSet
  <2>2. QED
    BY <1>1, <1>4, <2>1, InsertIInv
<1>5. QED
  BY <1>3, <1>4

LEMMA GetIInv ==
  ASSUME IInv, NEW k \in Keys, Get(k)
  PROVE  IInv'
<1>1. /\ m.current \in Generations
      /\ m.previous \in Generations
      /\ m = [current |-> m.current, previous |-> m.previous]
  BY DEF IInv, TypeOK
<1>2. /\ k \in DOMAIN m.current => m.current[k] \in Values
      /\ k \in DOMAIN m.previous => m.previous[k] \in Values
  BY <1>1, GenerationsChar
<1>3. CallOK'
  BY <1>2 DEF Get, Has, KeysOf, ValueOf, CallOK, Calls
<1>4. CASE Promotes(m, k)
  <2>1. /\ m' = Insert(Demote(m, k), k, m.previous[k])
        /\ age' = AgedByInsert(k)
        /\ k \notin DOMAIN m.current
        /\ m.previous[k] \in Values
    BY <1>2, <1>4 DEF Get, AfterGet, Promotes
  <2>2. QED
    BY <1>3, <2>1, InsertIInv
<1>5. CASE Has(m, k) /\ ~Promotes(m, k)
  <2>1. m' = m /\ age' = Renewed(k) /\ k \in DOMAIN m.current
    BY <1>5 DEF Get, AfterGet, Promotes, Has, KeysOf
  <2>2. QED
    BY <1>1, <1>3, <2>1, TouchIInv
<1>6. CASE ~Has(m, k)
  <2>1. m' = m /\ age' = age
    BY <1>6 DEF Get, AfterGet, Promotes, Has, KeysOf
  <2>2. QED
    BY <1>3, <2>1 DEF IInv, TypeOK, Disjoint, RecentKept, PreviousIsOlder, Has, KeysOf
<1>7. QED
  BY <1>4, <1>5, <1>6

LEMMA ClearIInv == IInv /\ Clear => IInv'
<1> SUFFICES ASSUME IInv, Clear PROVE IInv'
  OBVIOUS
<1>1. /\ DOMAIN m'.current = {}
      /\ DOMAIN m'.previous = {}
      /\ m' \in [current : Generations, previous : Generations]
  BY NoEntriesFacts DEF Clear, EmptyMap
<1>2. Cardinality(DOMAIN m'.current) = 0 /\ Cardinality(DOMAIN m'.previous) = 0
  BY <1>1, FS_EmptySet
<1>3. TypeOK'
  BY <1>1, GenerationSizeFacts DEF Clear, IInv, TypeOK, CallOK, Calls, Forgotten
<1>4. QED
  BY <1>1, <1>2, <1>3, GenerationSizeFacts
  DEF Clear, IInv, Disjoint, RecentKept, PreviousIsOlder, Forgotten
-----------------------------------------------------------------------------
(* The whole invariant: types, disjoint generations, the recency promise   *)
(* and the reason for it hold in every state of every execution.           *)
THEOREM Invariance == Spec => []IInv
<1>1. Init => IInv
  BY InitIInv
<1>2. IInv /\ [Next]_vars => IInv'
  <2> SUFFICES ASSUME IInv, [Next]_vars PROVE IInv'
    OBVIOUS
  <2>1. ASSUME NEW k \in Keys, NEW v \in Values, Set(k, v) PROVE IInv'
    BY <2>1, SetIInv
  <2>2. ASSUME NEW k \in Keys, Get(k) PROVE IInv'
    BY <2>2, GetIInv
  <2>3. ASSUME NEW k \in Keys, Delete(k) PROVE IInv'
    BY <2>3, DeleteIInv
  <2>4. CASE Clear
    BY <2>4, ClearIInv
  <2>5. CASE UNCHANGED vars
    BY <2>5 DEF vars, IInv, TypeOK, CallOK, Disjoint, RecentKept, PreviousIsOlder, Has, KeysOf
  <2>6. QED
    BY <2>1, <2>2, <2>3, <2>4, <2>5 DEF Next
<1>3. QED
  BY <1>1, <1>2, PTL DEF Spec

(* The variables keep their types in every state of every execution.       *)
THEOREM TypeCorrect == Spec => []TypeOK
BY Invariance, PTL DEF IInv

(* A key set or read within the last maxSize / 2 insertions is still there: *)
(* the doc comment of BoundedMap, for every bound and every set of keys.    *)
THEOREM Recency == Spec => []RecentKept
BY Invariance, PTL DEF IInv

(* The map never holds more than maxSize keys.                              *)
THEOREM SizeBound == Spec => []SizeBounded
<1>1. IInv => SizeBounded
  <2> SUFFICES ASSUME IInv PROVE SizeBounded
    OBVIOUS
  <2>1. /\ Cardinality(DOMAIN m.current) \in Nat
        /\ Cardinality(DOMAIN m.previous) \in Nat
    BY GenerationsFinite DEF IInv, TypeOK
  <2>2. QED
    BY <2>1, GenerationSizeFacts, MaxSizeAssumption
    DEF IInv, PreviousIsOlder, SizeBounded, SizeOf
<1>2. QED
  BY <1>1, Invariance, PTL
-----------------------------------------------------------------------------
(* What a caller sees of an insertion: the key with its value, and of the  *)
(* other keys a part, each with the value it had.                          *)
LEMMA InsertView ==
  ASSUME IInv, NEW k \in Keys, NEW v \in Values, k \notin DOMAIN m.current,
         m' = Insert(Demote(m, k), k, v)
  PROVE  /\ k \in KeysOf(m')
         /\ KeysOf(m') \subseteq KeysOf(m) \cup {k}
         /\ ValueOf(m', k) = v
         /\ \A j \in KeysOf(m') \ {k} : ValueOf(m', j) = ValueOf(m, j)
<1> DEFINE d == Demote(m, k)
<1>1. /\ m.current \in Generations
      /\ m.previous \in Generations
      /\ m = [current |-> m.current, previous |-> m.previous]
  BY DEF IInv, TypeOK
<1>2. d = [current |-> m.current, previous |-> Without(m.previous, {k})]
  BY <1>1 DEF Demote
<1>3. /\ DOMAIN Without(m.previous, {k}) = DOMAIN m.previous \ {k}
      /\ \A j \in DOMAIN m.previous \ {k} : Without(m.previous, {k})[j] = m.previous[j]
  BY <1>1, WithoutFacts
<1>4. CASE IsFull(d)
  <2>1. m' = [current |-> Put(NoEntries, k, v), previous |-> m.current]
    BY <1>2, <1>4 DEF Insert
  <2>2. DOMAIN Put(NoEntries, k, v) = {k} /\ Put(NoEntries, k, v)[k] = v
    <3>1. NoEntries \in Generations /\ DOMAIN NoEntries \cup {k} = {k}
      BY NoEntriesFacts
    <3>2. /\ DOMAIN Put(NoEntries, k, v) = DOMAIN NoEntries \cup {k}
          /\ Put(NoEntries, k, v)[k] = v
      BY ZenonT(40), <3>1, PutFacts
    <3>3. QED
      BY <3>1, <3>2
  <2>3. QED
    BY <2>1, <2>2 DEF KeysOf, ValueOf
<1>5. CASE ~IsFull(d)
  <2>1. m' = [current |-> Put(m.current, k, v), previous |-> Without(m.previous, {k})]
    BY <1>2, <1>5 DEF Insert
  <2>2. /\ DOMAIN Put(m.current, k, v) = DOMAIN m.current \cup {k}
        /\ Put(m.current, k, v)[k] = v
        /\ \A j \in DOMAIN m.current \ {k} : Put(m.current, k, v)[j] = m.current[j]
    <3>1. m.current \in Generations
      BY <1>1
    <3>2. QED
      BY <3>1, PutFacts, Zenon
  <2>3. QED
    BY <1>3, <2>1, <2>2 DEF KeysOf, ValueOf
<1>6. QED
  BY <1>4, <1>5

(* Setting or promoting a key is a lossy step on the caller's view.        *)
LEMMA SetView ==
  ASSUME IInv, IInv', NEW k \in Keys, NEW v \in Values, Set(k, v)
  PROVE  Lossy!Set(k, v)
<1>1. /\ m.current \in Generations
      /\ m = [current |-> m.current, previous |-> m.previous]
  BY DEF IInv, TypeOK
<1>2. /\ k \in KeysOf(m')
      /\ KeysOf(m') \subseteq KeysOf(m) \cup {k}
      /\ ValueOf(m', k) = v
      /\ \A j \in KeysOf(m') \ {k} : ValueOf(m', j) = ValueOf(m, j)
  <2>1. CASE k \in DOMAIN m.current
    <3>1. m' = [current |-> Put(m.current, k, v), previous |-> m.previous]
      BY <1>1, <2>1 DEF Set, AfterSet
    <3>2. /\ DOMAIN Put(m.current, k, v) = DOMAIN m.current \cup {k}
          /\ Put(m.current, k, v)[k] = v
          /\ \A j \in DOMAIN m.current \ {k} : Put(m.current, k, v)[j] = m.current[j]
      BY <1>1, PutFacts
    <3>3. QED
      BY <2>1, <3>1, <3>2 DEF KeysOf, ValueOf
  <2>2. CASE k \notin DOMAIN m.current
    BY <2>2, InsertView DEF Set, AfterSet
  <2>3. QED
    BY <2>1, <2>2
<1> DEFINE S == KeysOf(m) \ (KeysOf(m') \cup {k})
<1>3. S \in SUBSET (DOMAIN View \ {k})
  BY DEF View
<1>4. DOMAIN View' = (DOMAIN View \ S) \cup {k}
  BY <1>2 DEF View
<1>5. View' = [x \in (DOMAIN View \ S) \cup {k} |-> IF x = k THEN v ELSE View[x]]
  BY <1>2, <1>4 DEF View
<1>7. QED
  BY <1>3, <1>5 DEF Lossy!Set, View, Set

(* Reading answers with the value of the view, or with nothing.            *)
LEMMA GetView ==
  ASSUME IInv, IInv', NEW k \in Keys, Get(k)
  PROVE  Lossy!Get(k)
<1>1. /\ m.current \in Generations
      /\ m.previous \in Generations
      /\ m = [current |-> m.current, previous |-> m.previous]
  BY DEF IInv, TypeOK
<1>2. answer' = IF k \in DOMAIN View THEN View[k] ELSE NoValue
  BY DEF Get, Has, View
<1>3. CASE Promotes(m, k)
  <2>1. m.previous[k] \in Values /\ ValueOf(m, k) = m.previous[k] /\ k \in KeysOf(m)
    BY <1>1, <1>3, GenerationsChar DEF Promotes, ValueOf, KeysOf
  <2>2. /\ k \in KeysOf(m')
        /\ KeysOf(m') \subseteq KeysOf(m) \cup {k}
        /\ ValueOf(m', k) = m.previous[k]
        /\ \A j \in KeysOf(m') \ {k} : ValueOf(m', j) = ValueOf(m, j)
    BY <1>3, <2>1, InsertView DEF Get, AfterGet, Promotes
  <2> DEFINE S == KeysOf(m) \ KeysOf(m')
  <2>3. S \in SUBSET (DOMAIN View \ {k})
    BY <2>2 DEF View
  <2>4. DOMAIN View' = DOMAIN View \ S
    BY <2>1, <2>2 DEF View
  <2>5. View' = [x \in DOMAIN View \ S |-> View[x]]
    BY <2>1, <2>2, <2>4 DEF View
  <2>6. k \in DOMAIN View
    BY <2>1 DEF View
  <2>7. QED
    BY <1>2, <2>3, <2>5, <2>6 DEF Get, Lossy!Get, Lossy!Forgetting, View
<1>4. CASE ~Promotes(m, k)
  <2>1. View' = View
    BY <1>4 DEF Get, AfterGet, View
  <2>2. View' = [x \in DOMAIN View \ {} |-> View[x]]
    BY <2>1 DEF View
  <2>3. {} \in SUBSET (DOMAIN View \ {k})
    OBVIOUS
  <2>4. QED
    BY <1>2, <2>1, <2>2, <2>3 DEF Get, Lossy!Get, Lossy!Forgetting, View
<1>5. QED
  BY <1>3, <1>4

(* Deleting really removes the key: no older value comes back.             *)
LEMMA DeleteView ==
  ASSUME IInv, NEW k \in Keys, Delete(k)
  PROVE  Lossy!Delete(k)
<1>1. /\ m.current \in Generations
      /\ m.previous \in Generations
      /\ m = [current |-> m.current, previous |-> m.previous]
  BY DEF IInv, TypeOK
<1>2. /\ KeysOf(m') = KeysOf(m) \ {k}
      /\ \A j \in KeysOf(m) \ {k} : ValueOf(m', j) = ValueOf(m, j)
  <2>1. CASE k \in DOMAIN m.current
    <3>1. m' = [current |-> Without(m.current, {k}), previous |-> m.previous]
      BY <1>1, <2>1 DEF Delete, AfterDelete
    <3>2. /\ DOMAIN Without(m.current, {k}) = DOMAIN m.current \ {k}
          /\ \A j \in DOMAIN m.current \ {k} :
               Without(m.current, {k})[j] = m.current[j]
      BY <1>1, WithoutFacts
    <3>3. k \notin DOMAIN m.previous
      BY <2>1 DEF IInv, Disjoint
    <3>4. QED
      BY <3>1, <3>2, <3>3 DEF KeysOf, ValueOf
  <2>2. CASE k \notin DOMAIN m.current
    <3>1. m' = [current |-> m.current, previous |-> Without(m.previous, {k})]
      BY <1>1, <2>2 DEF Delete, AfterDelete, Demote
    <3>2. /\ DOMAIN Without(m.previous, {k}) = DOMAIN m.previous \ {k}
          /\ \A j \in DOMAIN m.previous \ {k} :
               Without(m.previous, {k})[j] = m.previous[j]
      BY <1>1, WithoutFacts
    <3>3. QED
      BY <2>2, <3>1, <3>2 DEF KeysOf, ValueOf
  <2>3. QED
    BY <2>1, <2>2
<1>3. DOMAIN View' = DOMAIN View \ {k}
  BY <1>2 DEF View
<1>4. View' = [x \in DOMAIN View \ {k} |-> View[x]]
  BY <1>2, <1>3 DEF View
<1>5. QED
  BY <1>4 DEF Lossy!Delete, Lossy!Forgetting, View, Delete

(* The two-generation map implements the lossy map: every execution of it, *)
(* seen through the union of its generations, is one of the lossy map's.   *)
THEOREM Refinement == Spec => ImplementsLossyMap
<1>1. Init => Lossy!Init
  <2> SUFFICES ASSUME Init PROVE Lossy!Init
    OBVIOUS
  <2>1. KeysOf(m) = {}
    BY NoEntriesFacts DEF Init, EmptyMap, KeysOf
  <2>2. View = [k \in {} |-> NoValue]
    BY <2>1 DEF View
  <2>3. QED
    BY <2>2 DEF Lossy!Init, View, Init
<1>2. IInv /\ IInv' /\ [Next]_vars => [Lossy!Next]_(Lossy!lossyVars)
  <2> SUFFICES ASSUME IInv, IInv', [Next]_vars
               PROVE  Lossy!Next \/ UNCHANGED Lossy!lossyVars
    OBVIOUS
  <2>1. ASSUME NEW k \in Keys, NEW v \in Values, Set(k, v) PROVE Lossy!Next
    BY <2>1, SetView DEF Lossy!Next
  <2>2. ASSUME NEW k \in Keys, Get(k) PROVE Lossy!Next
    BY <2>2, GetView DEF Lossy!Next
  <2>3. ASSUME NEW k \in Keys, Delete(k) PROVE Lossy!Next
    BY <2>3, DeleteView DEF Lossy!Next
  <2>4. CASE Clear
    <3>1. KeysOf(m') = {}
      BY <2>4, NoEntriesFacts DEF Clear, EmptyMap, KeysOf
    <3>2. View' = [k \in {} |-> NoValue]
      BY <3>1 DEF View
    <3>3. Lossy!Clear
      BY <2>4, <3>2 DEF Lossy!Clear, View, Clear
    <3>4. QED
      BY <3>3 DEF Lossy!Next
  <2>5. CASE UNCHANGED vars
    BY <2>5 DEF vars, Lossy!lossyVars, View
  <2>6. QED
    BY <2>1, <2>2, <2>3, <2>4, <2>5 DEF Next
<1>3. QED
  BY <1>1, <1>2, Invariance, PTL DEF Spec, Lossy!Spec, ImplementsLossyMap

-----------------------------------------------------------------------------
\* A set of natural numbers that is not empty has a least element.
LEMMA LeastOf ==
  ASSUME NEW T \in SUBSET Nat, T # {}
  PROVE  \E x \in T : \A y \in T : x <= y
  <1>1. PICK x \in T : \A y \in T : <<y, x>> \notin OpToRel(<, Nat)
    BY NatLessThanWellFounded, WFMin
  <1>2. \A y \in T : ~(y < x)
    BY <1>1 DEF OpToRel
  <1> QED
    BY <1>2

-----------------------------------------------------------------------------
(* The windows of a store, for any span and cap.  hits are what is left of *)
(* a sequence of times when the first d are gone.                          *)
NewestOf(hits, times, d) ==
  /\ hits \in Seq(Nat) /\ d \in 0..Len(times) /\ Len(hits) = Len(times) - d
  /\ \A i \in 1..Len(hits) : hits[i] = times[i + d]

\* Times in the order of a clock that shows t.
InOrderUpTo(times, t) ==
  /\ times \in Seq(Nat) /\ \A i \in 1..Len(times) : times[i] <= t
  /\ \A i, j \in 1..Len(times) : i <= j => times[i] <= times[j]

LEMMA NewestOfNewest ==
  ASSUME NEW a \in Seq(Nat), NEW b, NEW c, NEW d, NEW e,
         NewestOf(b, a, d), NewestOf(c, b, e)
  PROVE  NewestOf(c, a, d + e)
  <1>1. /\ Len(a) \in Nat /\ b \in Seq(Nat) /\ d \in 0..Len(a) /\ Len(b) = Len(a) - d
        /\ \A i \in 1..Len(b) : b[i] = a[i + d]
    BY DEF NewestOf
  <1>2. /\ c \in Seq(Nat) /\ e \in 0..Len(b) /\ Len(c) = Len(b) - e
        /\ \A i \in 1..Len(c) : c[i] = b[i + e]
    BY DEF NewestOf
  <1>3. d + e \in 0..Len(a) /\ Len(c) = Len(a) - (d + e)
    BY <1>1, <1>2
  <1>4. ASSUME NEW i \in 1..Len(c)
        PROVE  c[i] = a[i + (d + e)]
    <2>1. i + e \in 1..Len(b) /\ (i + e) + d = i + (d + e)
      BY <1>1, <1>2
    <2> QED
      BY <1>1, <1>2, <2>1
  <1> QED
    BY <1>2, <1>3, <1>4 DEF NewestOf

LEMMA NewestOfAppended ==
  ASSUME NEW a \in Seq(Nat), NEW b, NEW d, NewestOf(b, a, d), NEW t \in Nat
  PROVE  NewestOf(Append(b, t), Append(a, t), d)
  <1>1. /\ Len(a) \in Nat /\ b \in Seq(Nat) /\ d \in 0..Len(a) /\ Len(b) = Len(a) - d
        /\ \A i \in 1..Len(b) : b[i] = a[i + d]
    BY DEF NewestOf
  <1> DEFINE a2 == Append(a, t)
             b2 == Append(b, t)
  <1>2. /\ Len(a2) = Len(a) + 1 /\ a2[Len(a) + 1] = t
        /\ \A i \in 1..Len(a) : a2[i] = a[i]
    OBVIOUS
  <1>3. /\ b2 \in Seq(Nat) /\ Len(b2) = Len(b) + 1 /\ b2[Len(b) + 1] = t
        /\ \A i \in 1..Len(b) : b2[i] = b[i]
    BY <1>1
  <1> HIDE DEF a2, b2
  <1>4. ASSUME NEW i \in 1..Len(b2)
        PROVE  b2[i] = a2[i + d]
    <2>1. CASE i \in 1..Len(b)
      <3>1. i + d \in 1..Len(a)
        BY <1>1, <2>1
      <3> QED
        BY <1>1, <1>2, <1>3, <2>1, <3>1
    <2>2. CASE i \notin 1..Len(b)
      <3>1. i = Len(b) + 1 /\ i + d = Len(a) + 1
        BY SMTT(30), <1>1, <1>3, <2>2
      <3> QED
        BY <1>2, <1>3, <3>1
    <2> QED
      BY <2>1, <2>2
  <1>5. d \in 0..Len(a2) /\ Len(b2) = Len(a2) - d
    BY <1>1, <1>2, <1>3
  <1>6. NewestOf(b2, a2, d)
    BY <1>3, <1>4, <1>5 DEF NewestOf
  <1> QED
    BY <1>6 DEF a2, b2

\* What the while loop drops is what has left the window.
LEMMA InWindowFacts ==
  ASSUME NEW t \in Nat, NEW hits, InOrderUpTo(hits, t), NEW span \in Nat
  PROVE  \E d : /\ NewestOf(InWindow(hits, t, span), hits, d)
                /\ \A i \in 1..d : hits[i] <= t - span
                /\ \A i \in d + 1..Len(hits) : hits[i] > t - span
  <1> DEFINE live == {i \in DOMAIN hits : hits[i] > t - span}
             w == InWindow(hits, t, span)
             L == Len(hits)
  <1>1. /\ L \in Nat /\ hits \in Seq(Nat) /\ DOMAIN hits = 1..L
        /\ \A i \in 1..L : hits[i] \in Nat
        /\ \A i, j \in 1..L : i <= j => hits[i] <= hits[j]
    BY DEF InOrderUpTo
  <1>2. CASE live = {}
    <2>1. w = <<>>
      BY <1>2 DEF InWindow
    <2>2. NewestOf(<<>>, hits, L)
      BY <1>1 DEF NewestOf
    <2>3. \A i \in 1..L : hits[i] <= t - span
      BY <1>1, <1>2
    <2>4. \A i \in L + 1..L : hits[i] > t - span
      BY <1>1
    <2> QED
      BY <2>1, <2>2, <2>3, <2>4
  <1>3. CASE live # {}
    <2> DEFINE first == CHOOSE i \in live : \A j \in live : i <= j
    <2>1. first \in live /\ \A j \in live : first <= j
      <3>1. live \subseteq Nat
        BY <1>1
      <3>2. \E i \in live : \A j \in live : i <= j
        BY <1>3, <3>1, LeastOf
      <3> QED
        BY <3>2
    <2>2. w = SubSeq(hits, first, L)
      BY <1>3 DEF InWindow
    <2>3. first \in 1..L /\ hits[first] > t - span
      BY <1>1, <2>1
    <2>4. ASSUME NEW i \in first - 1 + 1..L
          PROVE  hits[i] > t - span
      <3>1. i \in 1..L /\ hits[first] <= hits[i] /\ hits[i] \in Nat /\ hits[first] \in Nat
        BY <1>1, <2>3
      <3> QED
        BY <2>3, <3>1
    <2>5. ASSUME NEW i \in 1..first - 1
          PROVE  hits[i] <= t - span
      <3>1. i \in 1..L /\ ~(first <= i) /\ hits[i] \in Nat
        BY <1>1, <2>3
      <3>2. i \notin live
        BY <2>1, <3>1
      <3> QED
        BY <1>1, <3>1, <3>2
    <2> HIDE DEF first, live
    <2>6. /\ w \in Seq(Nat) /\ Len(w) = L - first + 1
          /\ \A i \in 1..L - first + 1 : w[i] = hits[first + i - 1]
      BY <1>1, <2>2, <2>3
    <2> HIDE DEF w
    <2>7. NewestOf(w, hits, first - 1)
      <3>1. first - 1 \in 0..L /\ Len(w) = L - (first - 1)
        BY <1>1, <2>3, <2>6
      <3>2. ASSUME NEW i \in 1..Len(w)
            PROVE  w[i] = hits[i + (first - 1)]
        <4>1. i \in 1..L - first + 1 /\ first + i - 1 = i + (first - 1)
          BY <1>1, <2>3, <2>6
        <4> QED
          BY <2>6, <4>1
      <3> QED
        BY <2>6, <3>1, <3>2 DEF NewestOf
    <2> QED
      BY <2>4, <2>5, <2>7 DEF w
  <1> QED
    BY <1>2, <1>3

LEMMA NewestOnlyFacts ==
  ASSUME NEW hits \in Seq(Nat), NEW cap \in Nat
  PROVE  \E d : /\ NewestOf(NewestOnly(hits, cap), hits, d)
                /\ IF Len(hits) > cap THEN Len(NewestOnly(hits, cap)) = cap ELSE d = 0
  <1> DEFINE L == Len(hits)
             n == NewestOnly(hits, cap)
  <1>1. L \in Nat
    OBVIOUS
  <1>2. CASE ~(L > cap)
    <2>1. n = hits
      BY <1>2 DEF NewestOnly
    <2>2. NewestOf(hits, hits, 0)
      BY <1>1 DEF NewestOf
    <2> QED
      BY <1>2, <2>1, <2>2
  <1>3. CASE L > cap
    <2>1. n = SubSeq(hits, L - cap + 1, L)
      BY <1>3 DEF NewestOnly
    <2>2. L - cap + 1 \in 1..L + 1 /\ L - cap \in 0..L /\ L - (L - cap + 1) + 1 = cap
      BY <1>1, <1>3
    <2>3. /\ n \in Seq(Nat) /\ Len(n) = cap
          /\ \A i \in 1..cap : n[i] = hits[i + (L - cap)]
      <3>1. \A i \in L - cap + 1..L : hits[i] \in Nat
        BY <1>1, <2>2
      <3>2. /\ n \in Seq(Nat)
            /\ Len(n) = IF L - cap + 1 <= L THEN L - (L - cap + 1) + 1 ELSE 0
            /\ \A i \in 1..L - (L - cap + 1) + 1 : n[i] = hits[(L - cap + 1) + i - 1]
        BY <1>1, <2>1, <2>2, <3>1, SubSeqProperties
      <3>3. \A i \in 1..cap : (L - cap + 1) + i - 1 = i + (L - cap)
        BY <1>1
      <3>4. Len(n) = cap
        BY <1>1, <2>2, <3>2
      <3> QED
        BY <2>2, <3>2, <3>3, <3>4
    <2> HIDE DEF n
    <2>4. NewestOf(n, hits, L - cap)
      BY <1>1, <2>2, <2>3 DEF NewestOf
    <2> QED
      BY <1>3, <2>3, <2>4 DEF n
  <1> QED
    BY <1>2, <1>3

\* The number of times after a moment, once the first d are not.
LEMMA CountFacts ==
  ASSUME NEW times \in Seq(Nat), NEW c \in Int, NEW d \in 0..Len(times),
         \A i \in 1..d : times[i] <= c,
         \A i \in d + 1..Len(times) : times[i] > c
  PROVE  Cardinality({i \in DOMAIN times : times[i] > c}) = Len(times) - d
  <1> DEFINE L == Len(times)
  <1>1. L \in Nat /\ DOMAIN times = 1..L /\ \A i \in 1..L : times[i] \in Nat
    OBVIOUS
  <1>2. {i \in DOMAIN times : times[i] > c} = (d + 1)..L
    <2>1. ASSUME NEW i \in 1..L
          PROVE  times[i] > c <=> i \in (d + 1)..L
      <3>1. i \in 1..d \/ i \in d + 1..L
        BY <1>1
      <3>2. i \in 1..d => ~(i \in d + 1..L) /\ ~(times[i] > c)
        BY <1>1
      <3> QED
        BY <3>1, <3>2
    <2>2. (d + 1)..L \subseteq 1..L
      BY <1>1
    <2> QED
      BY <1>1, <2>1, <2>2
  <1>3. Cardinality((d + 1)..L) = L - d
    <2>1. d + 1 \in Int /\ L \in Int
      BY <1>1
    <2>2. Cardinality((d + 1)..L) = IF d + 1 > L THEN 0 ELSE L - (d + 1) + 1
      BY <2>1, FS_Interval
    <2> QED
      BY <1>1, <2>2
  <1> QED
    BY <1>2, <1>3

-----------------------------------------------------------------------------
(* StoreSpec.  What a window holds are the newest of all the hits, and     *)
(* what is not held any more has left the window or fell to the cap.       *)
HoldsNewest(hits, times, d, t) ==
  /\ NewestOf(hits, times, d)
  /\ \/ d = 0
     \/ Len(hits) = MaxHits
     \/ times[d] <= t - Span
WindowKept(hits, times, t) == \E d : HoldsNewest(hits, times, d, t)

\* hit() on what is left of a window.
NextHits(hits, t) == NewestOnly(Append(InWindow(hits, t, Span), t), MaxHits)
CountAt(times, t) ==
  LET n == Cardinality({i \in DOMAIN times : times[i] > t - Span}) + 1
  IN  IF n < MaxHits THEN n ELSE MaxHits

LEMMA StoreConstants ==
  /\ Ttl \in Nat \ {0} /\ Span \in Nat \ {0} /\ MaxHits \in Nat \ {0}
  /\ StaleAfter \in Nat /\ Span <= StaleAfter /\ Nothing \notin Contents
  BY StoreAssumption

LEMMA HitFacts ==
  ASSUME NEW t \in Nat, NEW times, InOrderUpTo(times, t),
         NEW hits, WindowKept(hits, times, t)
  PROVE  /\ Len(NextHits(hits, t)) = CountAt(times, t)
         /\ Len(NextHits(hits, t)) >= 1
         /\ WindowKept(NextHits(hits, t), Append(times, t), t)
         /\ InOrderUpTo(Append(times, t), t)
  <1>1. PICK d : HoldsNewest(hits, times, d, t)
    BY DEF WindowKept
  <1> DEFINE L == Len(times)
             all == Append(times, t)
             w == InWindow(hits, t, Span)
             c == t - Span
             next == NextHits(hits, t)
  <1>2. /\ times \in Seq(Nat) /\ L \in Nat /\ \A i \in 1..L : times[i] <= t /\ times[i] \in Nat
        /\ \A i, j \in 1..L : i <= j => times[i] <= times[j]
    BY DEF InOrderUpTo
  <1>3. /\ hits \in Seq(Nat) /\ d \in 0..L /\ Len(hits) = L - d
        /\ \A i \in 1..Len(hits) : hits[i] = times[i + d]
        /\ d = 0 \/ Len(hits) = MaxHits \/ times[d] <= c
    BY <1>1 DEF HoldsNewest, NewestOf
  <1>4. NewestOf(hits, times, d)
    BY <1>1 DEF HoldsNewest
  <1>5. Span \in Nat \ {0} /\ MaxHits \in Nat \ {0} /\ c \in Int
    BY StoreConstants
  <1>6. InOrderUpTo(hits, t)
    <2>1. ASSUME NEW i \in 1..Len(hits)
          PROVE  i + d \in 1..L /\ hits[i] = times[i + d]
      BY <1>2, <1>3
    <2>2. ASSUME NEW i \in 1..Len(hits), NEW j \in 1..Len(hits), i <= j
          PROVE  hits[i] <= hits[j]
      <3>1. i + d <= j + d /\ i + d \in 1..L /\ j + d \in 1..L
        BY <1>2, <1>3, <2>1, <2>2
      <3> QED
        BY <1>2, <2>1, <3>1
    <2>3. \A i \in 1..Len(hits) : hits[i] <= t
      BY <1>2, <2>1
    <2> QED
      BY <1>3, <2>2, <2>3 DEF InOrderUpTo
  <1>7. PICK e : /\ NewestOf(w, hits, e)
                 /\ \A i \in 1..e : hits[i] <= c
                 /\ \A i \in e + 1..Len(hits) : hits[i] > c
    BY <1>5, <1>6, InWindowFacts
  <1>8. PICK a : /\ NewestOf(InWindow(times, t, Span), times, a)
                 /\ \A i \in 1..a : times[i] <= c
                 /\ \A i \in a + 1..L : times[i] > c
    BY <1>5, InWindowFacts
  <1>9. a \in 0..L /\ Cardinality({i \in DOMAIN times : times[i] > c}) = L - a
    <2>1. a \in 0..L
      BY <1>8 DEF NewestOf
    <2> QED
      BY <1>2, <1>5, <1>8, <2>1, CountFacts
  <1>10. CountAt(times, t) = IF L - a + 1 < MaxHits THEN L - a + 1 ELSE MaxHits
    BY <1>9 DEF CountAt
  <1> DEFINE b == d + e
  <1>11. /\ NewestOf(w, times, b) /\ e \in 0..Len(hits) /\ w \in Seq(Nat)
         /\ b \in 0..L /\ Len(w) = L - b
    <2>1. NewestOf(w, times, b)
      BY <1>2, <1>4, <1>7, NewestOfNewest
    <2> QED
      BY <1>7, <2>1 DEF NewestOf
  <1> HIDE DEF w
  <1>12. \/ b = a
         \/ e = 0 /\ a < d /\ Len(hits) = MaxHits
    <2>1. \A i \in b + 1..L : times[i] > c
      <3> SUFFICES ASSUME NEW i \in b + 1..L PROVE times[i] > c
        OBVIOUS
      <3>1. i - d \in e + 1..Len(hits) /\ (i - d) + d = i /\ i - d \in 1..Len(hits)
        BY <1>2, <1>3, <1>11
      <3> QED
        BY <1>3, <1>7, <3>1
    <2>2. a <= b
      <3> SUFFICES ASSUME b < a PROVE FALSE
        BY <1>9, <1>11
      <3>1. a \in b + 1..L /\ a \in 1..a /\ times[a] \in Nat
        BY SMTT(30), <1>2, <1>9, <1>11
      <3> QED
        BY <1>5, <1>8, <2>1, <3>1
    <2>3. CASE e # 0
      <3>1. e \in 1..e /\ e \in 1..Len(hits) /\ e + d = b /\ b \in 1..L
        BY <1>3, <1>11, <2>3
      <3>2. times[b] <= c /\ times[b] \in Nat
        BY <1>2, <1>3, <1>7, <3>1
      <3>3. ~(a < b)
        <4> SUFFICES ASSUME a < b PROVE FALSE
          OBVIOUS
        <4>1. b \in a + 1..L
          BY <1>9, <3>1
        <4> QED
          BY <1>5, <1>8, <3>2, <4>1
      <3> QED
        BY <1>9, <1>11, <2>2, <3>3
    <2>4. CASE e = 0
      <3>1. b = d
        BY <1>3, <2>4
      <3>2. CASE a < d
        <4>1. d \in a + 1..L /\ d # 0 /\ times[d] \in Nat
          BY <1>2, <1>3, <1>9, <3>2
        <4>2. ~(times[d] <= c)
          BY <1>5, <1>8, <4>1
        <4> QED
          BY <1>3, <2>4, <3>2, <4>1, <4>2
      <3>3. CASE ~(a < d)
        BY <1>3, <1>9, <2>2, <3>1, <3>3
      <3> QED
        BY <3>2, <3>3
    <2> QED
      BY <2>3, <2>4
  <1> DEFINE q == Append(w, t)
  <1>13. NewestOf(q, all, b)
    BY <1>2, <1>11, NewestOfAppended
  <1>14. q \in Seq(Nat) /\ Len(q) = L - b + 1
    BY <1>11
  <1>15. /\ all \in Seq(Nat) /\ Len(all) = L + 1 /\ all[L + 1] = t
         /\ \A i \in 1..L : all[i] = times[i]
    BY <1>2
  <1> HIDE DEF q, all
  <1>16. PICK f : /\ NewestOf(NewestOnly(q, MaxHits), q, f)
                  /\ IF Len(q) > MaxHits THEN Len(NewestOnly(q, MaxHits)) = MaxHits ELSE f = 0
    BY <1>5, <1>14, NewestOnlyFacts
  <1>17. next = NewestOnly(q, MaxHits)
    BY DEF NextHits, q, w
  <1> HIDE DEF next
  <1>18. /\ NewestOf(next, all, b + f) /\ f \in 0..Len(q) /\ Len(next) = Len(q) - f
         /\ IF Len(q) > MaxHits THEN Len(next) = MaxHits ELSE f = 0
    <2>1. NewestOf(next, all, b + f)
      BY <1>13, <1>15, <1>16, <1>17, NewestOfNewest
    <2> QED
      BY <1>16, <1>17, <2>1 DEF NewestOf
  <1>19. Len(next) = CountAt(times, t) /\ Len(next) >= 1
    <2>1. \/ b = a
          \/ L - b + 1 > MaxHits /\ L - a + 1 > MaxHits
      BY SMTT(40), <1>2, <1>3, <1>5, <1>9, <1>12
    <2> HIDE DEF b
    <2>2. Len(next) = IF L - b + 1 > MaxHits THEN MaxHits ELSE L - b + 1
      BY SMTT(40), <1>2, <1>5, <1>11, <1>14, <1>18
    <2>3. b = a => Len(next) = CountAt(times, t)
      BY <1>2, <1>5, <1>9, <1>10, <2>2
    <2>4. L - b + 1 > MaxHits /\ L - a + 1 > MaxHits => Len(next) = CountAt(times, t)
      BY <1>2, <1>5, <1>9, <1>10, <1>11, <2>2
    <2>5. Len(next) >= 1
      BY <1>2, <1>5, <1>11, <2>2
    <2> QED
      BY <2>1, <2>3, <2>4, <2>5
  <1>20. HoldsNewest(next, all, b + f, t)
    <2>1. CASE Len(q) > MaxHits
      BY <1>18, <2>1 DEF HoldsNewest
    <2>2. CASE ~(Len(q) > MaxHits)
      <3>1. b = a /\ b + f = b
        <4>1. ~(L - b + 1 > MaxHits) /\ f = 0
          BY <1>14, <1>18, <2>2
        <4>2. b = a
          BY <1>2, <1>3, <1>5, <1>9, <1>12, <4>1
        <4> QED
          BY <1>11, <4>1, <4>2
      <3>2. b = 0 \/ (b \in 1..L /\ b \in 1..a)
        BY <1>11, <3>1
      <3>3. b = 0 \/ all[b] <= c
        BY <1>8, <1>15, <3>1, <3>2
      <3> QED
        BY <1>18, <3>1, <3>3 DEF HoldsNewest
    <2> QED
      BY <2>1, <2>2
  <1>21. InOrderUpTo(all, t)
    <2>1. \A i \in 1..L + 1 : i \in 1..L \/ i = L + 1
      BY <1>2
    <2>2. \A i \in 1..L + 1 : all[i] <= t
      BY SMTT(30), <1>2, <1>15, <2>1
    <2>3. ASSUME NEW i \in 1..L + 1, NEW j \in 1..L + 1, i <= j
          PROVE  all[i] <= all[j]
      <3>1. CASE j = L + 1
        BY <1>15, <2>2, <3>1
      <3>2. CASE j # L + 1
        <4>1. i \in 1..L /\ j \in 1..L
          BY <1>2, <2>3, <3>2
        <4> QED
          BY <1>2, <1>15, <2>3, <4>1
      <3> QED
        BY <3>1, <3>2
    <2> QED
      BY <1>15, <2>2, <2>3 DEF InOrderUpTo
  <1> QED
    BY <1>19, <1>20, <1>21 DEF WindowKept, next, all

\* A claim is on record until it has run out; what is on record was won.
ClaimsKept(once, k, won, t) ==
  /\ k \in DOMAIN once => \E w \in won : once[k] = w + Ttl
  /\ \A w \in won : w + Ttl > t => k \in DOMAIN once /\ once[k] >= w + Ttl

\* A value that has not run out is held; what is held is the last one set.
ValueKept(values, k, v, until, t) ==
  /\ k \in DOMAIN values => values[k] = [value |-> v, expires |-> until]
  /\ until > t => k \in DOMAIN values

\* A Redis window runs out when its last hit leaves it.
ExpiryKept(windows, expires, k, times) ==
  k \in DOMAIN windows =>
    /\ k \in DOMAIN expires /\ Len(times) >= 1
    /\ expires[k] = times[Len(times)] + Span

StoresShape ==
  /\ now \in Nat
  /\ memory = [once |-> memory.once, windows |-> memory.windows, values |-> memory.values]
  /\ redis = [once |-> redis.once, windows |-> redis.windows, values |-> redis.values,
              windowExpires |-> redis.windowExpires]
  /\ log \in [Names -> [won : SUBSET Nat, hits : Seq(Nat),
                        value : Contents \cup {Nothing}, until : Nat]]
OnceInv ==
  \A k \in Names : /\ ClaimsKept(memory.once, k, log[k].won, now)
                   /\ ClaimsKept(redis.once, k, log[k].won, now)
ValuesInv ==
  \A k \in Names : /\ ValueKept(memory.values, k, log[k].value, log[k].until, now)
                   /\ ValueKept(redis.values, k, log[k].value, log[k].until, now)
WindowsInv ==
  \A k \in Names :
    /\ InOrderUpTo(log[k].hits, now)
    /\ WindowKept(HitsOf(memory.windows, k), log[k].hits, now)
    /\ WindowKept(HitsOf(redis.windows, k), log[k].hits, now)
    /\ k \in DOMAIN memory.windows => Len(memory.windows[k]) >= 1
    /\ ExpiryKept(redis.windows, redis.windowExpires, k, log[k].hits)

(* The inductive invariant: what each table holds of a key, against what   *)
(* the log says was done with that key.                                    *)
StoresInv == StoresShape /\ OnceInv /\ ValuesInv /\ WindowsInv

\* Nothing is owed any more to a window that has no hit in its span.
LEMMA EmptyWindow ==
  ASSUME NEW t \in Nat, NEW times, InOrderUpTo(times, t),
         \/ Len(times) = 0
         \/ times[Len(times)] <= t - Span
  PROVE  WindowKept(<<>>, times, t)
  <1>1. times \in Seq(Nat) /\ Len(times) \in Nat
    BY DEF InOrderUpTo
  <1>2. NewestOf(<<>>, times, Len(times))
    BY <1>1 DEF NewestOf
  <1> QED
    BY <1>2 DEF HoldsNewest, WindowKept

\* As time passes nothing new is owed.
LEMMA LaterFacts ==
  ASSUME NEW t \in Nat, NEW k
  PROVE  /\ \A once, won : won \in SUBSET Nat /\ ClaimsKept(once, k, won, t)
              => ClaimsKept(once, k, won, t + 1)
         /\ \A values, v, until : until \in Nat /\ ValueKept(values, k, v, until, t)
              => ValueKept(values, k, v, until, t + 1)
         /\ \A times : InOrderUpTo(times, t) => InOrderUpTo(times, t + 1)
         /\ \A times, hits : InOrderUpTo(times, t) /\ WindowKept(hits, times, t)
              => WindowKept(hits, times, t + 1)
  <1>1. Ttl \in Nat /\ Span \in Nat
    BY StoreConstants
  <1>2. ASSUME NEW once, NEW won \in SUBSET Nat, ClaimsKept(once, k, won, t)
        PROVE  ClaimsKept(once, k, won, t + 1)
    BY <1>1, <1>2 DEF ClaimsKept
  <1>3. ASSUME NEW values, NEW v, NEW until \in Nat, ValueKept(values, k, v, until, t)
        PROVE  ValueKept(values, k, v, until, t + 1)
    BY <1>3 DEF ValueKept
  <1>4. ASSUME NEW times, InOrderUpTo(times, t)
        PROVE  InOrderUpTo(times, t + 1)
    <2>1. \A i \in 1..Len(times) : times[i] <= t /\ times[i] \in Nat
      BY <1>4 DEF InOrderUpTo
    <2>2. \A i \in 1..Len(times) : times[i] <= t + 1
      BY <2>1
    <2> QED
      BY <1>4, <2>2 DEF InOrderUpTo
  <1>5. ASSUME NEW times, NEW hits, InOrderUpTo(times, t), WindowKept(hits, times, t)
        PROVE  WindowKept(hits, times, t + 1)
    <2>1. PICK d : HoldsNewest(hits, times, d, t)
      BY <1>5 DEF WindowKept
    <2>2. NewestOf(hits, times, d) /\ d \in 0..Len(times)
      BY <2>1 DEF HoldsNewest, NewestOf
    <2>3. times \in Seq(Nat) /\ Len(times) \in Nat
      BY <1>5 DEF InOrderUpTo
    <2>4. d = 0 \/ times[d] \in Nat
      BY <2>2, <2>3
    <2>5. HoldsNewest(hits, times, d, t + 1)
      BY <1>1, <2>1, <2>2, <2>4 DEF HoldsNewest
    <2> QED
      BY <2>5 DEF WindowKept
  <1> QED
    BY <1>2, <1>3, <1>4, <1>5

LEMMA ClaimFacts ==
  ASSUME NEW t \in Nat, NEW k, NEW won \in SUBSET Nat, NEW once,
         ClaimsKept(once, k, won, t),
         NEW promised \in BOOLEAN, promised <=> \A w \in won : w + Ttl <= t
  PROVE  /\ ~Claimed(once, k, t) <=> promised
         /\ ClaimsKept(AfterClaim(once, k, t, Ttl), k,
                       IF promised THEN won \cup {t} ELSE won, t)
  <1>1. Ttl \in Nat \ {0}
    BY StoreConstants
  <1>2. Claimed(once, k, t) <=> ~promised
    BY <1>1 DEF ClaimsKept, Claimed
  <1>3. CASE promised
    <2>1. AfterClaim(once, k, t, Ttl) = Put(once, k, t + Ttl)
      BY <1>2, <1>3 DEF AfterClaim
    <2> DEFINE next == Put(once, k, t + Ttl)
    <2>2. k \in DOMAIN next /\ next[k] = t + Ttl
      BY DEF Put
    <2> HIDE DEF next
    <2>3. \A w \in won \cup {t} : w + Ttl > t => w = t
      BY <1>1, <1>3
    <2>4. t \in won \cup {t} /\ next[k] >= t + Ttl
      BY <1>1, <2>2
    <2>5. ClaimsKept(next, k, won \cup {t}, t)
      BY <2>2, <2>3, <2>4 DEF ClaimsKept
    <2> QED
      BY <1>2, <1>3, <2>1, <2>5 DEF next
  <1>4. CASE ~promised
    BY <1>2, <1>4 DEF AfterClaim
  <1> QED
    BY <1>3, <1>4

\* What an operation on one key leaves of the others.
SameAt(f, g, j) ==
  /\ j \in DOMAIN f <=> j \in DOMAIN g
  /\ j \in DOMAIN f => g[j] = f[j]

LEMMA SameAtFacts ==
  ASSUME NEW f, NEW g, NEW j, SameAt(f, g, j)
  PROVE  /\ \A won, t : ClaimsKept(f, j, won, t) => ClaimsKept(g, j, won, t)
         /\ \A v, until, t : ValueKept(f, j, v, until, t) => ValueKept(g, j, v, until, t)
         /\ HitsOf(g, j) = HitsOf(f, j)
  BY DEF SameAt, ClaimsKept, ValueKept, HitsOf

LEMMA PutSame ==
  ASSUME NEW f, NEW k, NEW v, NEW j, j # k
  PROVE  SameAt(f, Put(f, k, v), j)
  <1> DEFINE g == Put(f, k, v)
  <1>1. DOMAIN g = DOMAIN f \cup {k} /\ \A i \in DOMAIN f : i # k => g[i] = f[i]
    BY DEF Put
  <1> HIDE DEF g
  <1>2. SameAt(f, g, j)
    BY <1>1 DEF SameAt
  <1> QED
    BY <1>2 DEF g

LEMMA WithoutSame ==
  ASSUME NEW f, NEW S, NEW j, j \notin S
  PROVE  SameAt(f, Without(f, S), j)
  <1> DEFINE g == Without(f, S)
  <1>1. DOMAIN g = DOMAIN f \ S /\ \A i \in DOMAIN f \ S : g[i] = f[i]
    BY DEF Without
  <1> HIDE DEF g
  <1>2. SameAt(f, g, j)
    BY <1>1 DEF SameAt
  <1> QED
    BY <1>2 DEF g

LEMMA StoresInvInit == StoresInit => StoresInv /\ PromiseKept
  <1> SUFFICES ASSUME StoresInit PROVE StoresInv /\ PromiseKept
    OBVIOUS
  <1> DEFINE fresh == [won |-> {}, hits |-> <<>>, value |-> Nothing, until |-> 0]
  <1>1. /\ now = 1 /\ log = [k \in Names |-> fresh]
        /\ memory = [once |-> NoEntries, windows |-> NoEntries, values |-> NoEntries]
        /\ redis = [once |-> NoEntries, windows |-> NoEntries, values |-> NoEntries,
                    windowExpires |-> NoEntries]
        /\ replies = [memory |-> Nothing, redis |-> Nothing, promised |-> Nothing]
    BY DEF StoresInit, EmptyStore
  <1>2. DOMAIN NoEntries = {}
    BY DEF NoEntries
  <1>3. StoresShape
    <2>1. fresh \in [won : SUBSET Nat, hits : Seq(Nat),
                     value : Contents \cup {Nothing}, until : Nat]
      OBVIOUS
    <2> HIDE DEF fresh
    <2> QED
      BY <1>1, <2>1 DEF StoresShape
  <1>4. \A k \in Names : /\ log[k].won = {} /\ log[k].hits = <<>>
                         /\ log[k].value = Nothing /\ log[k].until = 0
    BY <1>1
  <1>5. OnceInv
    BY <1>1, <1>2, <1>4 DEF OnceInv, ClaimsKept
  <1>6. ValuesInv
    BY <1>1, <1>2, <1>4 DEF ValuesInv, ValueKept
  <1>7. WindowsInv
    <2>1. InOrderUpTo(<<>>, 1)
      BY DEF InOrderUpTo
    <2>2. WindowKept(<<>>, <<>>, 1)
      BY <2>1, EmptyWindow
    <2>3. \A k : HitsOf(NoEntries, k) = <<>>
      BY <1>2 DEF HitsOf
    <2> QED
      BY <1>1, <1>2, <1>4, <2>1, <2>2, <2>3 DEF WindowsInv, ExpiryKept
  <1>8. PromiseKept
    BY <1>1 DEF PromiseKept
  <1> QED
    BY <1>3, <1>5, <1>6, <1>7, <1>8 DEF StoresInv

LEMMA ClaimOnceKeeps ==
  ASSUME StoresInv, NEW k \in Names, ClaimOnce(k)
  PROVE  StoresInv' /\ PromiseKept'
  <1> DEFINE t == now
             won == log[k].won
             promised == PromisedClaim(k)
             won2 == IF promised THEN won \cup {t} ELSE won
  <1>1. /\ now \in Nat /\ now' = now
        /\ memory = [once |-> memory.once, windows |-> memory.windows, values |-> memory.values]
        /\ redis = [once |-> redis.once, windows |-> redis.windows, values |-> redis.values,
                    windowExpires |-> redis.windowExpires]
        /\ log \in [Names -> [won : SUBSET Nat, hits : Seq(Nat),
                              value : Contents \cup {Nothing}, until : Nat]]
    BY DEF StoresInv, StoresShape, ClaimOnce
  <1>2. /\ memory' = [memory EXCEPT !.once = AfterClaim(memory.once, k, now, Ttl)]
        /\ redis' = [redis EXCEPT !.once = AfterClaim(redis.once, k, now, Ttl)]
        /\ log' = IF promised THEN [log EXCEPT ![k].won = won \cup {now}] ELSE log
        /\ replies' = [memory |-> ~Claimed(memory.once, k, now),
                       redis |-> ~Claimed(redis.once, k, now), promised |-> promised]
    BY DEF ClaimOnce, Answer
  <1>3. /\ memory'.once = AfterClaim(memory.once, k, now, Ttl)
        /\ memory'.windows = memory.windows /\ memory'.values = memory.values
        /\ memory' = [once |-> memory'.once, windows |-> memory'.windows,
                      values |-> memory'.values]
    BY <1>1, <1>2
  <1>4. /\ redis'.once = AfterClaim(redis.once, k, now, Ttl)
        /\ redis'.windows = redis.windows /\ redis'.values = redis.values
        /\ redis'.windowExpires = redis.windowExpires
        /\ redis' = [once |-> redis'.once, windows |-> redis'.windows,
                     values |-> redis'.values, windowExpires |-> redis'.windowExpires]
    BY <1>1, <1>2
  <1>5. /\ log' \in [Names -> [won : SUBSET Nat, hits : Seq(Nat),
                               value : Contents \cup {Nothing}, until : Nat]]
        /\ \A j \in Names : /\ log'[j].hits = log[j].hits /\ log'[j].value = log[j].value
                            /\ log'[j].until = log[j].until
                            /\ log'[j].won = IF j = k THEN won2 ELSE log[j].won
    BY <1>1, <1>2
  <1>6. /\ ClaimsKept(memory.once, k, won, now) /\ ClaimsKept(redis.once, k, won, now)
        /\ won \in SUBSET Nat /\ promised \in BOOLEAN
        /\ promised <=> \A w \in won : w + Ttl <= now
    BY <1>1 DEF StoresInv, OnceInv, PromisedClaim
  <1> HIDE DEF promised
  <1>7. /\ ~Claimed(memory.once, k, now) <=> promised
        /\ ~Claimed(redis.once, k, now) <=> promised
        /\ ClaimsKept(AfterClaim(memory.once, k, now, Ttl), k, won2, now)
        /\ ClaimsKept(AfterClaim(redis.once, k, now, Ttl), k, won2, now)
    BY <1>1, <1>6, ClaimFacts
  <1>8. ASSUME NEW j \in Names
        PROVE  /\ ClaimsKept(memory'.once, j, log'[j].won, now')
               /\ ClaimsKept(redis'.once, j, log'[j].won, now')
    <2>1. CASE j = k
      BY <1>1, <1>3, <1>4, <1>5, <1>7, <2>1
    <2>2. CASE j # k
      <3>1. \A once : SameAt(once, AfterClaim(once, k, now, Ttl), j)
        BY <2>2, PutSame DEF AfterClaim, SameAt
      <3>2. ClaimsKept(memory.once, j, log[j].won, now) /\ ClaimsKept(redis.once, j, log[j].won, now)
        BY DEF StoresInv, OnceInv
      <3>3. /\ ClaimsKept(AfterClaim(memory.once, k, now, Ttl), j, log[j].won, now)
            /\ ClaimsKept(AfterClaim(redis.once, k, now, Ttl), j, log[j].won, now)
        BY <3>1, <3>2, SameAtFacts
      <3> QED
        BY <1>1, <1>3, <1>4, <1>5, <2>2, <3>3
    <2> QED
      BY <2>1, <2>2
  <1>9. OnceInv'
    BY <1>8 DEF OnceInv
  <1>10. ValuesInv' /\ WindowsInv'
    BY <1>1, <1>3, <1>4, <1>5 DEF StoresInv, ValuesInv, WindowsInv
  <1>11. StoresShape'
    BY <1>1, <1>3, <1>4, <1>5 DEF StoresShape
  <1>12. PromiseKept'
    <2> DEFINE got1 == ~Claimed(memory.once, k, now)
               got2 == ~Claimed(redis.once, k, now)
    <2>1. /\ got1 <=> promised
          /\ got2 <=> promised
          /\ got1 \in BOOLEAN /\ got2 \in BOOLEAN /\ promised \in BOOLEAN
      BY <1>6, <1>7
    <2>2. replies' = [memory |-> got1, redis |-> got2, promised |-> promised]
      BY <1>2
    <2> HIDE DEF got1, got2
    <2>3. replies'.memory = got1 /\ replies'.redis = got2 /\ replies'.promised = promised
      BY <2>2
    <2>4. got1 = promised /\ got2 = promised
      BY <2>1
    <2> QED
      BY <2>3, <2>4 DEF PromiseKept
  <1> QED
    BY <1>9, <1>10, <1>11, <1>12 DEF StoresInv

\* The last hit held is the last one there was.
LEMMA LastHit ==
  ASSUME NEW hits, NEW times \in Seq(Nat), NEW t, WindowKept(hits, times, t),
         Len(hits) >= 1
  PROVE  Len(times) >= 1 /\ hits[Len(hits)] = times[Len(times)]
  <1>1. PICK d : NewestOf(hits, times, d)
    BY DEF WindowKept, HoldsNewest
  <1>2. /\ hits \in Seq(Nat) /\ d \in 0..Len(times)
        /\ Len(hits) = Len(times) - d /\ \A i \in 1..Len(hits) : hits[i] = times[i + d]
    BY ONLY <1>1 DEF NewestOf
  <1>3. /\ Len(hits) \in 1..Len(hits) /\ Len(hits) + d = Len(times)
        /\ Len(times) >= 1
    BY <1>2
  <1>4. hits[Len(hits)] = times[Len(hits) + d]
    BY <1>2, <1>3
  <1> QED
    BY <1>3, <1>4

\* What a hit finds in Redis, where a window may have expired.
LEMMA RedisWindowsFacts ==
  ASSUME StoresInv, NEW j \in Names
  PROVE  /\ WindowKept(HitsOf(RedisWindows, j), log[j].hits, now)
         /\ j \in DOMAIN RedisWindows => j \in DOMAIN redis.windows
  <1> DEFINE expired == {k \in DOMAIN redis.windows : redis.windowExpires[k] <= now}
             times == log[j].hits
  <1>1. /\ RedisWindows = Without(redis.windows, expired)
        /\ now \in Nat /\ InOrderUpTo(times, now)
        /\ WindowKept(HitsOf(redis.windows, j), times, now)
        /\ ExpiryKept(redis.windows, redis.windowExpires, j, times)
    BY DEF RedisWindows, StoresInv, StoresShape, WindowsInv
  <1>2. j \in DOMAIN RedisWindows => j \in DOMAIN redis.windows
    BY <1>1 DEF Without
  <1>3. CASE j \notin expired
    BY <1>1, <1>2, <1>3, WithoutSame, SameAtFacts
  <1>4. CASE j \in expired
    <2>1. HitsOf(RedisWindows, j) = <<>>
      BY <1>1, <1>4 DEF HitsOf, Without
    <2>2. Len(times) >= 1 /\ times[Len(times)] + Span <= now
      BY <1>1, <1>4 DEF ExpiryKept
    <2>3. times[Len(times)] \in Nat /\ Span \in Nat
      <3>1. times \in Seq(Nat) /\ Len(times) \in 1..Len(times)
        BY <1>1, <2>2 DEF InOrderUpTo
      <3> QED
        BY <3>1, StoreConstants
    <2>4. times[Len(times)] <= now - Span
      BY <1>1, <2>2, <2>3
    <2> QED
      BY <1>1, <1>2, <2>1, <2>4, EmptyWindow
  <1> QED
    BY <1>3, <1>4

LEMMA HitKeeps ==
  ASSUME StoresInv, NEW k \in Names, Hit(k)
  PROVE  StoresInv' /\ PromiseKept'
  <1> DEFINE times == log[k].hits
             mine == NextHits(HitsOf(memory.windows, k), now)
             theirs == NextHits(HitsOf(RedisWindows, k), now)
  <1>1. /\ now \in Nat /\ now' = now
        /\ memory = [once |-> memory.once, windows |-> memory.windows, values |-> memory.values]
        /\ redis = [once |-> redis.once, windows |-> redis.windows, values |-> redis.values,
                    windowExpires |-> redis.windowExpires]
        /\ log \in [Names -> [won : SUBSET Nat, hits : Seq(Nat),
                              value : Contents \cup {Nothing}, until : Nat]]
    BY DEF StoresInv, StoresShape, Hit
  <1>2. /\ memory' = [memory EXCEPT !.windows = Put(memory.windows, k, mine)]
        /\ redis' = [redis EXCEPT !.windows = Put(RedisWindows, k, theirs),
                                  !.windowExpires = Put(redis.windowExpires, k, now + Span)]
        /\ log' = [log EXCEPT ![k].hits = Append(times, now)]
        /\ replies' = [memory |-> Len(Put(memory.windows, k, mine)[k]),
                       redis |-> Len(Put(RedisWindows, k, theirs)[k]),
                       promised |-> PromisedCount(k)]
    BY DEF Hit, Answer, AfterHit, NextHits
  <1>3. /\ memory'.windows = Put(memory.windows, k, mine)
        /\ memory'.once = memory.once /\ memory'.values = memory.values
        /\ memory' = [once |-> memory'.once, windows |-> memory'.windows,
                      values |-> memory'.values]
    BY <1>1, <1>2
  <1>4. /\ redis'.windows = Put(RedisWindows, k, theirs)
        /\ redis'.windowExpires = Put(redis.windowExpires, k, now + Span)
        /\ redis'.once = redis.once /\ redis'.values = redis.values
        /\ redis' = [once |-> redis'.once, windows |-> redis'.windows,
                     values |-> redis'.values, windowExpires |-> redis'.windowExpires]
    BY <1>1, <1>2
  <1>5. /\ log' \in [Names -> [won : SUBSET Nat, hits : Seq(Nat),
                               value : Contents \cup {Nothing}, until : Nat]]
        /\ \A j \in Names : /\ log'[j].won = log[j].won /\ log'[j].value = log[j].value
                            /\ log'[j].until = log[j].until
                            /\ log'[j].hits = IF j = k THEN Append(times, now) ELSE log[j].hits
    <2> DEFINE all == Append(times, now)
    <2>1. times \in Seq(Nat)
      BY <1>1
    <2>2. all \in Seq(Nat)
      BY <1>1, <2>1
    <2> HIDE DEF all
    <2>3. log' = [log EXCEPT ![k].hits = all]
      BY <1>2 DEF all
    <2>4. /\ log' \in [Names -> [won : SUBSET Nat, hits : Seq(Nat),
                                value : Contents \cup {Nothing}, until : Nat]]
          /\ \A j \in Names : /\ log'[j].won = log[j].won /\ log'[j].value = log[j].value
                              /\ log'[j].until = log[j].until
                              /\ log'[j].hits = IF j = k THEN all ELSE log[j].hits
      BY <1>1, <2>2, <2>3
    <2> QED
      BY <2>4 DEF all
  <1>6. /\ InOrderUpTo(times, now) /\ times \in Seq(Nat)
        /\ WindowKept(HitsOf(memory.windows, k), times, now)
        /\ WindowKept(HitsOf(RedisWindows, k), times, now)
    BY <1>1, RedisWindowsFacts DEF StoresInv, WindowsInv
  <1>7. /\ InOrderUpTo(Append(times, now), now)
        /\ WindowKept(mine, Append(times, now), now) /\ Len(mine) >= 1
        /\ WindowKept(theirs, Append(times, now), now)
        /\ Len(mine) = CountAt(times, now) /\ Len(theirs) = CountAt(times, now)
    BY <1>1, <1>6, HitFacts
  <1> HIDE DEF mine, theirs
  <1>8. PromiseKept'
    <2>1. Put(memory.windows, k, mine)[k] = mine /\ Put(RedisWindows, k, theirs)[k] = theirs
      BY DEF Put
    <2>2. PromisedCount(k) = CountAt(times, now)
      BY DEF PromisedCount, CountAt
    <2> QED
      BY <1>2, <1>7, <2>1, <2>2 DEF PromiseKept
  <1>9. ASSUME NEW j \in Names
        PROVE  /\ InOrderUpTo(log'[j].hits, now')
               /\ WindowKept(HitsOf(memory'.windows, j), log'[j].hits, now')
               /\ WindowKept(HitsOf(redis'.windows, j), log'[j].hits, now')
               /\ j \in DOMAIN memory'.windows => Len(memory'.windows[j]) >= 1
               /\ ExpiryKept(redis'.windows, redis'.windowExpires, j, log'[j].hits)
    <2>1. CASE j = k
      <3>1. \A f, v : HitsOf(Put(f, k, v), k) = v /\ k \in DOMAIN Put(f, k, v) /\ Put(f, k, v)[k] = v
        BY DEF HitsOf, Put
      <3>2. log'[j].hits = Append(times, now) /\ now' = now
        BY <1>1, <1>5, <2>1
      <3>3. HitsOf(memory'.windows, j) = mine /\ memory'.windows[j] = mine
        BY <1>3, <2>1, <3>1
      <3>4. /\ HitsOf(redis'.windows, j) = theirs
            /\ j \in DOMAIN redis'.windowExpires /\ redis'.windowExpires[j] = now + Span
        BY <1>4, <2>1, <3>1
      <3>5. /\ Len(Append(times, now)) >= 1
            /\ Append(times, now)[Len(Append(times, now))] = now
        BY <1>1, <1>6
      <3> QED
        BY <1>7, <3>2, <3>3, <3>4, <3>5 DEF ExpiryKept
    <2>2. CASE j # k
      <3>1. /\ SameAt(memory.windows, memory'.windows, j)
            /\ SameAt(RedisWindows, redis'.windows, j)
            /\ SameAt(redis.windowExpires, redis'.windowExpires, j)
        BY <1>3, <1>4, <2>2, PutSame
      <3>2. log'[j].hits = log[j].hits /\ now' = now
        BY <1>1, <1>5, <2>2
      <3>3. /\ InOrderUpTo(log[j].hits, now)
            /\ WindowKept(HitsOf(memory.windows, j), log[j].hits, now)
            /\ WindowKept(HitsOf(RedisWindows, j), log[j].hits, now)
            /\ j \in DOMAIN memory.windows => Len(memory.windows[j]) >= 1
            /\ ExpiryKept(redis.windows, redis.windowExpires, j, log[j].hits)
            /\ j \in DOMAIN RedisWindows => j \in DOMAIN redis.windows
        BY RedisWindowsFacts DEF StoresInv, WindowsInv
      <3>4. /\ HitsOf(memory'.windows, j) = HitsOf(memory.windows, j)
            /\ HitsOf(redis'.windows, j) = HitsOf(RedisWindows, j)
        BY <3>1, SameAtFacts
      <3> QED
        BY <3>1, <3>2, <3>3, <3>4 DEF SameAt, ExpiryKept
    <2> QED
      BY <2>1, <2>2
  <1>10. WindowsInv'
    BY <1>9 DEF WindowsInv
  <1>11. OnceInv' /\ ValuesInv'
    BY <1>1, <1>3, <1>4, <1>5 DEF StoresInv, OnceInv, ValuesInv
  <1>12. StoresShape'
    BY <1>1, <1>3, <1>4, <1>5 DEF StoresShape
  <1> QED
    BY <1>8, <1>10, <1>11, <1>12 DEF StoresInv

LEMMA SetValueKeeps ==
  ASSUME StoresInv, NEW k \in Names, NEW v \in Contents, SetValue(k, v)
  PROVE  StoresInv' /\ PromiseKept'
  <1> DEFINE entry == [value |-> v, expires |-> now + Ttl]
  <1>1. /\ now \in Nat /\ now' = now /\ Ttl \in Nat
        /\ memory = [once |-> memory.once, windows |-> memory.windows, values |-> memory.values]
        /\ redis = [once |-> redis.once, windows |-> redis.windows, values |-> redis.values,
                    windowExpires |-> redis.windowExpires]
        /\ log \in [Names -> [won : SUBSET Nat, hits : Seq(Nat),
                              value : Contents \cup {Nothing}, until : Nat]]
    BY StoreConstants DEF StoresInv, StoresShape, SetValue
  <1>2. /\ memory' = [memory EXCEPT !.values = Put(memory.values, k, entry)]
        /\ redis' = [redis EXCEPT !.values = Put(redis.values, k, entry)]
        /\ log' = [log EXCEPT ![k].value = v, ![k].until = now + Ttl]
        /\ replies' = [memory |-> Nothing, redis |-> Nothing, promised |-> Nothing]
    BY DEF SetValue, Answer, AfterSetValue
  <1>3. /\ memory'.values = Put(memory.values, k, entry)
        /\ memory'.once = memory.once /\ memory'.windows = memory.windows
        /\ memory' = [once |-> memory'.once, windows |-> memory'.windows,
                      values |-> memory'.values]
    BY <1>1, <1>2
  <1>4. /\ redis'.values = Put(redis.values, k, entry)
        /\ redis'.once = redis.once /\ redis'.windows = redis.windows
        /\ redis'.windowExpires = redis.windowExpires
        /\ redis' = [once |-> redis'.once, windows |-> redis'.windows,
                     values |-> redis'.values, windowExpires |-> redis'.windowExpires]
    BY <1>1, <1>2
  <1>5. /\ log' \in [Names -> [won : SUBSET Nat, hits : Seq(Nat),
                               value : Contents \cup {Nothing}, until : Nat]]
        /\ \A j \in Names : /\ log'[j].won = log[j].won /\ log'[j].hits = log[j].hits
                            /\ log'[j].value = IF j = k THEN v ELSE log[j].value
                            /\ log'[j].until = IF j = k THEN now + Ttl ELSE log[j].until
    <2> DEFINE end == now + Ttl
    <2>1. end \in Nat
      BY <1>1
    <2> HIDE DEF end
    <2>2. log' = [log EXCEPT ![k] = [log[k] EXCEPT !.value = v, !.until = end]]
      <3>1. log' = [log EXCEPT ![k].value = v, ![k].until = end]
        BY <1>2 DEF end
      <3> QED
        BY <1>1, <3>1
    <2> DEFINE entry2 == [log[k] EXCEPT !.value = v, !.until = end]
    <2>3. /\ entry2 \in [won : SUBSET Nat, hits : Seq(Nat),
                         value : Contents \cup {Nothing}, until : Nat]
          /\ entry2.won = log[k].won /\ entry2.hits = log[k].hits
          /\ entry2.value = v /\ entry2.until = end
      BY <1>1, <2>1
    <2> HIDE DEF entry2
    <2>4. log' = [log EXCEPT ![k] = entry2]
      BY <2>2 DEF entry2
    <2>5. /\ log' \in [Names -> [won : SUBSET Nat, hits : Seq(Nat),
                                value : Contents \cup {Nothing}, until : Nat]]
          /\ \A j \in Names : log'[j] = IF j = k THEN entry2 ELSE log[j]
      BY <1>1, <2>3, <2>4
    <2> QED
      BY <2>3, <2>5 DEF end
  <1>6. ASSUME NEW j \in Names
        PROVE  /\ ValueKept(memory'.values, j, log'[j].value, log'[j].until, now')
               /\ ValueKept(redis'.values, j, log'[j].value, log'[j].until, now')
    <2>1. CASE j = k
      <3>1. \A f : k \in DOMAIN Put(f, k, entry) /\ Put(f, k, entry)[k] = entry
        BY DEF Put
      <3>2. \A f, t : ValueKept(Put(f, k, entry), k, v, now + Ttl, t)
        BY <3>1 DEF ValueKept
      <3> QED
        BY <1>3, <1>4, <1>5, <2>1, <3>2
    <2>2. CASE j # k
      <3>1. /\ SameAt(memory.values, memory'.values, j)
            /\ SameAt(redis.values, redis'.values, j)
        BY <1>3, <1>4, <2>2, PutSame
      <3>2. /\ ValueKept(memory.values, j, log[j].value, log[j].until, now)
            /\ ValueKept(redis.values, j, log[j].value, log[j].until, now)
        BY DEF StoresInv, ValuesInv
      <3>3. /\ ValueKept(memory'.values, j, log[j].value, log[j].until, now)
            /\ ValueKept(redis'.values, j, log[j].value, log[j].until, now)
        BY <3>1, <3>2, SameAtFacts
      <3> QED
        BY <1>1, <1>5, <2>2, <3>3
    <2> QED
      BY <2>1, <2>2
  <1>7. ValuesInv'
    BY <1>6 DEF ValuesInv
  <1>8. OnceInv' /\ WindowsInv'
    BY <1>1, <1>3, <1>4, <1>5 DEF StoresInv, OnceInv, WindowsInv
  <1>9. StoresShape'
    BY <1>1, <1>3, <1>4, <1>5 DEF StoresShape
  <1>10. PromiseKept'
    BY <1>2 DEF PromiseKept
  <1> QED
    BY <1>7, <1>8, <1>9, <1>10 DEF StoresInv

LEMMA GetValueKeeps ==
  ASSUME StoresInv, NEW k \in Names, GetValue(k)
  PROVE  StoresInv' /\ PromiseKept'
  <1> DEFINE values == memory.values
             values2 == IF Live(values, k, now) THEN values ELSE Without(values, {k})
             l == log[k]
  <1>1. /\ now \in Nat /\ now' = now /\ redis' = redis /\ log' = log
        /\ memory = [once |-> memory.once, windows |-> memory.windows, values |-> memory.values]
        /\ memory' = [memory EXCEPT !.values = values2]
        /\ replies' = [memory |-> ValueAt(values, k, now, Nothing),
                       redis |-> ValueAt(redis.values, k, now, Nothing),
                       promised |-> IF l.until > now THEN l.value ELSE Nothing]
    BY DEF StoresInv, StoresShape, GetValue, Answer
  <1>2. /\ memory'.values = values2
        /\ memory'.once = memory.once /\ memory'.windows = memory.windows
        /\ memory' = [once |-> memory'.once, windows |-> memory'.windows,
                      values |-> memory'.values]
    BY <1>1
  <1>3. /\ ValueKept(values, k, l.value, l.until, now)
        /\ ValueKept(redis.values, k, l.value, l.until, now)
    BY DEF StoresInv, ValuesInv
  <1>4. \A f : ValueKept(f, k, l.value, l.until, now) =>
               /\ Live(f, k, now) <=> l.until > now
               /\ ValueAt(f, k, now, Nothing) = IF l.until > now THEN l.value ELSE Nothing
    <2> SUFFICES ASSUME NEW f, ValueKept(f, k, l.value, l.until, now)
                 PROVE  /\ Live(f, k, now) <=> l.until > now
                        /\ ValueAt(f, k, now, Nothing) =
                             IF l.until > now THEN l.value ELSE Nothing
      OBVIOUS
    <2>1. k \in DOMAIN f => f[k].expires = l.until /\ f[k].value = l.value
      BY DEF ValueKept
    <2>2. Live(f, k, now) <=> l.until > now
      BY <2>1 DEF Live, ValueKept
    <2>3. l.until > now => f[k].value = l.value
      BY <2>1 DEF ValueKept
    <2> QED
      BY <2>2, <2>3 DEF ValueAt
  <1>5. PromiseKept'
    BY <1>1, <1>3, <1>4 DEF PromiseKept
  <1>6. ASSUME NEW j \in Names
        PROVE  ValueKept(values2, j, log[j].value, log[j].until, now)
    <2>1. ValueKept(values, j, log[j].value, log[j].until, now)
      BY DEF StoresInv, ValuesInv
    <2>2. CASE j # k
      <3>1. SameAt(values, values, j) /\ SameAt(values, Without(values, {k}), j)
        BY <2>2, WithoutSame DEF SameAt
      <3> QED
        BY <2>1, <3>1, SameAtFacts
    <2>3. CASE j = k
      <3>1. CASE Live(values, k, now)
        BY <1>3, <2>3, <3>1
      <3>2. CASE ~Live(values, k, now)
        <4>1. ~(l.until > now) /\ k \notin DOMAIN Without(values, {k})
          BY <1>3, <1>4, <3>2 DEF Without
        <4> QED
          BY <2>3, <3>2, <4>1 DEF ValueKept
      <3> QED
        BY <3>1, <3>2
    <2> QED
      BY <2>2, <2>3
  <1> HIDE DEF values2
  <1>7. ValuesInv'
    BY <1>1, <1>2, <1>6 DEF StoresInv, ValuesInv
  <1>8. OnceInv' /\ WindowsInv' /\ StoresShape'
    BY <1>1, <1>2 DEF StoresInv, OnceInv, WindowsInv, StoresShape
  <1> QED
    BY <1>5, <1>7, <1>8 DEF StoresInv

LEMMA CleanupKeeps ==
  ASSUME StoresInv, Cleanup
  PROVE  StoresInv'
  <1> DEFINE once2 == Without(memory.once, Outdated(memory.once))
             windows2 == Without(memory.windows, StaleWindows)
             values2 == Without(memory.values, DeadValues)
  <1>1. /\ now \in Nat /\ now' = now /\ redis' = redis /\ log' = log
        /\ memory' = [once |-> once2, windows |-> windows2, values |-> values2]
        /\ log \in [Names -> [won : SUBSET Nat, hits : Seq(Nat),
                              value : Contents \cup {Nothing}, until : Nat]]
        /\ Ttl \in Nat /\ Span \in Nat /\ StaleAfter \in Nat /\ Span <= StaleAfter
    BY StoreConstants DEF StoresInv, StoresShape, Cleanup
  <1>2. ASSUME NEW j \in Names
        PROVE  ClaimsKept(once2, j, log[j].won, now)
    <2>1. ClaimsKept(memory.once, j, log[j].won, now) /\ log[j].won \in SUBSET Nat
      BY <1>1 DEF StoresInv, OnceInv
    <2>2. CASE j \notin Outdated(memory.once)
      BY <2>1, <2>2, WithoutSame, SameAtFacts
    <2>3. CASE j \in Outdated(memory.once)
      <3>1. j \in DOMAIN memory.once /\ memory.once[j] <= now /\ j \notin DOMAIN once2
        BY <2>3 DEF Outdated, Without
      <3>2. memory.once[j] \in Nat
        BY <1>1, <2>1, <3>1 DEF ClaimsKept
      <3>3. \A w \in log[j].won : ~(w + Ttl > now)
        <4> SUFFICES ASSUME NEW w \in log[j].won, w + Ttl > now PROVE FALSE
          OBVIOUS
        <4>1. memory.once[j] >= w + Ttl /\ w \in Nat
          BY <2>1 DEF ClaimsKept
        <4> QED
          BY <1>1, <3>1, <3>2, <4>1
      <3> QED
        BY <3>1, <3>3 DEF ClaimsKept
    <2> QED
      BY <2>2, <2>3
  <1>3. ASSUME NEW j \in Names
        PROVE  ValueKept(values2, j, log[j].value, log[j].until, now)
    <2>1. ValueKept(memory.values, j, log[j].value, log[j].until, now)
      BY DEF StoresInv, ValuesInv
    <2>2. CASE j \notin DeadValues
      BY <2>1, <2>2, WithoutSame, SameAtFacts
    <2>3. CASE j \in DeadValues
      <3>1. j \in DOMAIN memory.values /\ ~(memory.values[j].expires > now) /\ j \notin DOMAIN values2
        BY <2>3 DEF DeadValues, Live, Without
      <3>2. memory.values[j].expires = log[j].until
        BY <2>1, <3>1 DEF ValueKept
      <3> QED
        BY <3>1, <3>2 DEF ValueKept
    <2> QED
      BY <2>2, <2>3
  <1>4. ASSUME NEW j \in Names
        PROVE  /\ WindowKept(HitsOf(windows2, j), log[j].hits, now)
               /\ j \in DOMAIN windows2 => Len(windows2[j]) >= 1
    <2>1. /\ InOrderUpTo(log[j].hits, now)
          /\ WindowKept(HitsOf(memory.windows, j), log[j].hits, now)
          /\ j \in DOMAIN memory.windows => Len(memory.windows[j]) >= 1
      BY DEF StoresInv, WindowsInv
    <2>2. CASE j \notin StaleWindows
      <3>1. SameAt(memory.windows, windows2, j)
        BY <2>2, WithoutSame
      <3>2. HitsOf(windows2, j) = HitsOf(memory.windows, j)
        BY <3>1, SameAtFacts
      <3> QED
        BY <2>1, <3>1, <3>2 DEF SameAt
    <2>3. CASE j \in StaleWindows
      <3> DEFINE hits == memory.windows[j]
                 times == log[j].hits
      <3>1. /\ j \in DOMAIN memory.windows /\ hits[Len(hits)] < now - StaleAfter
            /\ j \notin DOMAIN windows2 /\ HitsOf(windows2, j) = <<>>
            /\ HitsOf(memory.windows, j) = hits
        BY <2>3 DEF StaleWindows, Without, HitsOf
      <3>2. times \in Seq(Nat)
        BY <2>1 DEF InOrderUpTo
      <3>3. Len(times) >= 1 /\ hits[Len(hits)] = times[Len(times)]
        BY <2>1, <3>1, <3>2, LastHit
      <3>4. times[Len(times)] \in Nat
        BY <3>2, <3>3
      <3>5. times[Len(times)] <= now - Span
        BY <1>1, <3>1, <3>3, <3>4
      <3>6. WindowKept(<<>>, times, now)
        BY <1>1, <2>1, <3>5, EmptyWindow
      <3> QED
        BY <3>1, <3>6
    <2> QED
      BY <2>2, <2>3
  <1> HIDE DEF once2, windows2, values2
  <1>5. memory'.once = once2 /\ memory'.windows = windows2 /\ memory'.values = values2
    BY <1>1
  <1>6. OnceInv' /\ ValuesInv' /\ WindowsInv'
    BY <1>1, <1>2, <1>3, <1>4, <1>5 DEF StoresInv, OnceInv, ValuesInv, WindowsInv
  <1>7. StoresShape'
    BY <1>1, <1>5 DEF StoresInv, StoresShape
  <1> QED
    BY <1>6, <1>7 DEF StoresInv

LEMMA StoresTickKeeps ==
  ASSUME StoresInv, StoresTick
  PROVE  StoresInv'
  <1>1. /\ now \in Nat /\ now' = now + 1 /\ memory' = memory /\ redis' = redis /\ log' = log
        /\ \A k \in Names : log[k].won \in SUBSET Nat /\ log[k].until \in Nat
    BY DEF StoresInv, StoresShape, StoresTick
  <1>2. OnceInv'
    BY <1>1, LaterFacts DEF StoresInv, OnceInv
  <1>3. ValuesInv'
    BY <1>1, LaterFacts DEF StoresInv, ValuesInv
  <1>4. WindowsInv'
    BY <1>1, LaterFacts DEF StoresInv, WindowsInv
  <1>5. StoresShape'
    BY <1>1 DEF StoresInv, StoresShape
  <1> QED
    BY <1>2, <1>3, <1>4, <1>5 DEF StoresInv

\* Both stores, the one in memory with its cleanup at any time and the one in
\* Redis with its expiring windows, give the promised answer to every
\* operation: a claim is won once per time to live, a hit is told the hits of
\* its window up to the cap, and a value is found until it has run out.  This
\* holds for all keys, values, times to live and spans that no window outlives.
THEOREM PromiseAlways == StoresSpec => []PromiseKept
  <1>1. (StoresInv /\ PromiseKept) /\ [StoresNext]_storeVars => (StoresInv /\ PromiseKept)'
    <2> SUFFICES ASSUME StoresInv, PromiseKept, [StoresNext]_storeVars
                 PROVE  StoresInv' /\ PromiseKept'
      OBVIOUS
    <2>1. CASE \E k \in Names : ClaimOnce(k) \/ Hit(k) \/ GetValue(k)
      BY <2>1, ClaimOnceKeeps, HitKeeps, GetValueKeeps
    <2>2. CASE \E k \in Names, v \in Contents : SetValue(k, v)
      BY <2>2, SetValueKeeps
    <2>3. CASE Cleanup
      BY <2>3, CleanupKeeps DEF Cleanup, PromiseKept
    <2>4. CASE StoresTick
      BY <2>4, StoresTickKeeps DEF StoresTick, PromiseKept
    <2>5. CASE UNCHANGED storeVars
      BY <2>5 DEF storeVars, StoresInv, StoresShape, OnceInv, ValuesInv, WindowsInv,
                  RedisWindows, PromiseKept
    <2> QED
      BY <2>1, <2>2, <2>3, <2>4, <2>5 DEF StoresNext
  <1> QED
    BY <1>1, StoresInvInit, PTL DEF StoresSpec

---------------------------------------------------------------------------
(* Dashboard: the page is never left without a socket or a timer.          *)

PageFlags ==
  /\ {closed, retrying, polling} \subseteq BOOLEAN
  /\ NeverStranded

\* Only the page itself brings Page into wss.clients, when its socket opens.
LEMMA ElsewhereStranded ==
  ASSUME PageFlags, (FeedNext \/ OthersNext) /\ UNCHANGED pageVars
  PROVE  PageFlags'
  <1>1. Page \notin clients => Page \notin clients'
    BY DEF FeedNext, OthersNext, Record, Flush, SummaryTime, Heartbeat, Close, Pong,
           Refuse, Congest, Upgrade, Admit, Leave, Dismiss
  <1> QED
    BY <1>1 DEF PageFlags, NeverStranded, pageVars

LEMMA PageStranded ==
  ASSUME PageFlags, PageNext
  PROVE  PageFlags'
  <1>1. CASE Connect
    BY <1>1 DEF PageFlags, NeverStranded, Connect
  <1>2. CASE Open
    BY <1>2 DEF PageFlags, NeverStranded, Open
  <1>3. CASE Disconnected
    BY <1>3 DEF PageFlags, NeverStranded, Disconnected, OnClose
  <1>4. CASE Receive
    BY <1>4 DEF PageFlags, NeverStranded, Receive
  <1>5. CASE Poll
    BY <1>5 DEF PageFlags, NeverStranded, Poll, feedVars
  <1>6. CASE Unmount
    BY <1>6 DEF PageFlags, NeverStranded, Unmount, Leave, Refuse, Dismiss, feedVars
  <1>7. ASSUME NEW i \in DOMAIN fetches, Serve(i) \/ Arrive(i) \/ Lost(i)
        PROVE  PageFlags'
    BY <1>7 DEF PageFlags, NeverStranded, Serve, Arrive, Lost, feedVars
  <1> QED
    BY <1>1, <1>2, <1>3, <1>4, <1>5, <1>6, <1>7 DEF PageNext

\* A mounted page always has a socket or a timer that will open one, polls
\* exactly while the feed is lost, and leaves nothing behind when it is
\* unmounted, whatever closes its sockets and whenever its requests return.
THEOREM NeverStrandedAlways == DashboardSpec => []NeverStranded
  <1>1. DashboardInit => PageFlags
    BY DEF DashboardInit, FeedInit, PageFlags, NeverStranded
  <1>2. PageFlags /\ [DashboardNext]_dashboardVars => PageFlags'
    <2> SUFFICES ASSUME PageFlags, [DashboardNext]_dashboardVars PROVE PageFlags'
      OBVIOUS
    <2>1. CASE UNCHANGED dashboardVars
      BY <2>1 DEF dashboardVars, feedVars, pageVars, PageFlags, NeverStranded
    <2> QED
      BY <2>1, ElsewhereStranded, PageStranded DEF DashboardNext
  <1>3. PageFlags => NeverStranded
    BY DEF PageFlags
  <1> QED
    BY <1>1, <1>2, <1>3, PTL DEF DashboardSpec

---------------------------------------------------------------------------
(* LiveFeed: what a viewer misses is no more than what it is told.         *)

Unseen(v) == ((joined[v] + 1)..total) \ (told[v] \cup ToSet(pending))

Informed(v) ==
  /\ Cardinality(Unseen(v)) <= reported[v] + dropped
  /\ knows[v] = total \/ summaryDirty

FeedTyped ==
  /\ total \in Nat /\ dropped \in Nat /\ pending \in Seq(Nat)
  /\ {summaryDirty, attached} \subseteq BOOLEAN
  /\ clients \subseteq Viewers
  /\ joined \in [Others -> Nat] /\ knows \in [Others -> Nat]
  /\ reported \in [Others -> Nat] /\ told \in [Others -> SUBSET Nat]

\* The listeners are there as long as there is a client.
FeedInv ==
  /\ FeedTyped
  /\ clients # {} => attached
  /\ \A v \in clients \ (stalled \cup {Page}) : Informed(v)

LEMMA ToSetFacts ==
  ASSUME NEW s \in Seq(Nat), NEW e \in Nat
  PROVE  /\ ToSet(Append(s, e)) = ToSet(s) \cup {e} /\ ToSet(<<>>) = {}
         /\ ToSet(s) \subseteq Nat
  <1>1. /\ Append(s, e) \in Seq(Nat) /\ Len(Append(s, e)) = Len(s) + 1
        /\ Append(s, e)[Len(s) + 1] = e /\ Len(s) \in Nat
        /\ \A i \in 1..Len(s) : Append(s, e)[i] = s[i]
    OBVIOUS
  <1>2. DOMAIN s = 1..Len(s) /\ DOMAIN Append(s, e) = 1..(Len(s) + 1)
    BY <1>1
  <1>3. DOMAIN Append(s, e) = DOMAIN s \cup {Len(s) + 1}
    BY <1>1, <1>2
  <1>4. ToSet(Append(s, e)) = ToSet(s) \cup {e}
    BY <1>1, <1>2, <1>3, Zenon DEF ToSet
  <1>5. ToSet(<<>>) = {}
    BY DEF ToSet
  <1>6. ToSet(s) \subseteq Nat
    BY DEF ToSet
  <1> QED
    BY <1>4, <1>5, <1>6

\* One more event, at most, is unseen after one more is recorded.
LEMMA OneMore ==
  ASSUME NEW S, NEW T, NEW e, IsFiniteSet(S), T \subseteq S \cup {e}
  PROVE  /\ IsFiniteSet(T) /\ Cardinality(T) \in Nat /\ Cardinality(S) \in Nat
         /\ Cardinality(T) <= Cardinality(S) + 1
  <1>1. /\ IsFiniteSet(S \cup {e}) /\ Cardinality(S) \in Nat
        /\ Cardinality(S \cup {e}) = IF e \in S THEN Cardinality(S) ELSE Cardinality(S) + 1
    BY FS_AddElement, FS_CardinalityType
  <1>2. IsFiniteSet(T) /\ Cardinality(T) <= Cardinality(S \cup {e})
    BY <1>1, FS_Subset
  <1>3. Cardinality(T) \in Nat /\ Cardinality(S \cup {e}) \in Nat
    BY <1>1, <1>2, FS_CardinalityType
  <1> QED
    BY <1>1, <1>2, <1>3

LEMMA UnseenFinite ==
  ASSUME FeedTyped, NEW v \in Others
  PROVE  IsFiniteSet(Unseen(v)) /\ Cardinality(Unseen(v)) \in Nat
  <1>1. IsFiniteSet((joined[v] + 1)..total)
    BY FS_Interval DEF FeedTyped
  <1>2. Unseen(v) \subseteq (joined[v] + 1)..total
    BY DEF Unseen
  <1> QED
    BY <1>1, <1>2, FS_Subset, FS_CardinalityType

\* Viewers that stay know as much as before when nothing is recorded or sent.
LEMMA QuietInformed ==
  ASSUME FeedInv,
         UNCHANGED <<total, pending, dropped, summaryDirty, history>>,
         clients' \subseteq clients \cup {Page}, clients' \subseteq Viewers,
         attached' \in BOOLEAN, clients' # {} => attached'
  PROVE  FeedInv'
  <1>1. /\ total' = total /\ pending' = pending /\ dropped' = dropped
        /\ summaryDirty' = summaryDirty /\ joined' = joined /\ told' = told
        /\ reported' = reported /\ knows' = knows /\ stalled' = stalled
    BY DEF history
  <1>2. \A v : Informed(v) <=> Informed(v)'
    BY <1>1 DEF Informed, Unseen
  <1>3. FeedTyped'
    BY <1>1 DEF FeedInv, FeedTyped
  <1> QED
    BY <1>1, <1>2, <1>3 DEF FeedInv

LEMMA RecordInformed ==
  ASSUME FeedInv, Record
  PROVE  FeedInv'
  <1>1. /\ total' = total + 1 /\ summaryDirty' = (attached \/ summaryDirty)
        /\ attached' = attached /\ clients' = clients /\ joined' = joined
        /\ told' = told /\ reported' = reported /\ knows' = knows
        /\ stalled' = stalled
    BY DEF Record, history
  <1>2. FeedTyped'
    <2>1. total + 1 \in Nat /\ dropped + 1 \in Nat /\ Append(pending, total + 1) \in Seq(Nat)
      BY DEF FeedInv, FeedTyped
    <2>2. pending' \in {pending, Append(pending, total + 1)} /\ dropped' \in {dropped, dropped + 1}
      BY DEF Record
    <2>3. summaryDirty' \in BOOLEAN
      BY <1>1, Zenon DEF FeedInv, FeedTyped
    <2> QED
      BY <1>1, <2>1, <2>2, <2>3 DEF FeedInv, FeedTyped
  <1>3. ASSUME NEW v \in clients \ (stalled \cup {Page})
        PROVE  Informed(v)'
    <2>1. attached /\ clients # {} /\ v \in Others /\ Informed(v) /\ FeedTyped
      BY <1>3 DEF FeedInv, FeedTyped, Others
    <2>2. /\ IsFiniteSet(Unseen(v)) /\ reported[v] \in Nat /\ dropped \in Nat
          /\ joined[v] \in Nat /\ total \in Nat
      BY <2>1, UnseenFinite DEF FeedTyped
    <2>3. /\ Cardinality(Unseen(v)) <= reported[v] + dropped
          /\ Cardinality(Unseen(v)) \in Nat
          /\ summaryDirty' = TRUE
      BY <1>1, <2>1, <2>2, FS_CardinalityType DEF Informed
    <2>4. CASE pending' = Append(pending, total + 1) /\ dropped' = dropped
      <3>1. ToSet(pending') = ToSet(pending) \cup {total + 1}
        BY <2>1, <2>4, ToSetFacts DEF FeedTyped
      <3>2. Unseen(v)' \subseteq Unseen(v)
        BY <1>1, <2>2, <3>1 DEF Unseen
      <3>3. /\ Cardinality(Unseen(v)') <= Cardinality(Unseen(v))
            /\ Cardinality(Unseen(v)') \in Nat
        BY <2>2, <3>2, FS_Subset, FS_CardinalityType
      <3>4. Cardinality(Unseen(v)') <= reported'[v] + dropped'
        BY <1>1, <2>2, <2>4, <2>3, <3>3
      <3> QED
        BY <2>3, <3>4 DEF Informed
    <2>5. CASE pending' = pending /\ dropped' = dropped + 1
      <3>1. Unseen(v)' \subseteq Unseen(v) \cup {total + 1}
        BY <1>1, <2>2, <2>5 DEF Unseen
      <3>2. /\ Cardinality(Unseen(v)') \in Nat /\ Cardinality(Unseen(v)) \in Nat
            /\ Cardinality(Unseen(v)') <= Cardinality(Unseen(v)) + 1
        BY <2>2, <3>1, OneMore
      <3>3. Cardinality(Unseen(v)') <= reported'[v] + dropped'
        BY <1>1, <2>2, <2>5, <2>3, <3>2
      <3> QED
        BY <2>3, <3>3 DEF Informed
    <2> QED
      BY <2>1, <2>4, <2>5 DEF Record
  <1> QED
    BY <1>1, <1>2, <1>3 DEF FeedInv

\* A flush moves the batch to who can receive it; the others are stalled.
LEMMA FlushInformed ==
  ASSUME FeedInv, Flush
  PROVE  FeedInv'
  <1> DEFINE batch == pending # <<>> \/ dropped > 0
             summary == summaryDirty /\ summaryDue /\ clients # {}
             served == IF batch THEN Reached ELSE {}
             totals == IF summary THEN Reached ELSE {}
  <1>1. /\ pending' = <<>> /\ dropped' = 0
        /\ summaryDirty' = (summaryDirty /\ ~summary)
        /\ told' = [v \in Others |-> IF v \in served THEN told[v] \cup ToSet(pending)
                                                      ELSE told[v]]
        /\ reported' = [v \in Others |-> IF v \in served THEN reported[v] + dropped
                                                          ELSE reported[v]]
        /\ knows' = [v \in Others |-> IF v \in totals THEN total ELSE knows[v]]
        /\ stalled' = stalled \cup (slow \ {Page})
        /\ total' = total /\ attached' = attached /\ clients' = clients
        /\ joined' = joined
    BY Zenon DEF Flush
  <1>2. FeedTyped /\ ToSet(pending) \subseteq Nat
    BY ToSetFacts DEF FeedInv, FeedTyped
  <1>3. /\ (clients' \cap slow) \ {Page} \subseteq stalled'
        /\ clients' \ slow = Reached
    BY <1>1 DEF Reached
  <1>4. batch \in BOOLEAN /\ summary \in BOOLEAN /\ served \subseteq Reached
    OBVIOUS
  <1> HIDE DEF summary, served, totals
  <1>5. FeedTyped'
    <2>1. /\ told' \in [Others -> SUBSET Nat] /\ reported' \in [Others -> Nat]
          /\ knows' \in [Others -> Nat]
      BY <1>1, <1>2 DEF FeedTyped
    <2> QED
      BY <1>1, <1>2, <2>1 DEF FeedTyped
  <1>6. ASSUME NEW v \in clients' \ (stalled' \cup {Page})
        PROVE  Informed(v)'
    <2>1. v \in Reached /\ v \in Others /\ Informed(v)
      BY <1>1, <1>3, <1>6 DEF FeedInv, FeedTyped, Others
    <2>2. knows'[v] = total' \/ summaryDirty'
      BY <1>1, <2>1 DEF Informed, totals
    <2>3. Unseen(v)' = Unseen(v) /\ reported'[v] + dropped' = reported[v] + dropped
      <3>1. CASE batch
        <4>1. told'[v] = told[v] \cup ToSet(pending) /\ reported'[v] = reported[v] + dropped
          BY <1>1, <2>1, <3>1 DEF served
        <4>2. told'[v] \cup ToSet(pending') = told[v] \cup ToSet(pending)
          BY <1>1, <1>2, <4>1, ToSetFacts DEF FeedTyped
        <4> QED
          BY <1>1, <1>2, <2>1, <4>1, <4>2 DEF Unseen, FeedTyped
      <3>2. CASE ~batch
        <4>1. told'[v] = told[v] /\ reported'[v] = reported[v]
          BY <1>1, <2>1, <3>2 DEF served
        <4>2. pending = <<>> /\ dropped = 0
          BY <1>2, <3>2 DEF FeedTyped
        <4> QED
          BY <1>1, <4>1, <4>2 DEF Unseen
      <3> QED
        BY <3>1, <3>2
    <2> QED
      BY <2>1, <2>2, <2>3 DEF Informed
  <1> QED
    BY <1>1, <1>2, <1>5, <1>6 DEF FeedInv

LEMMA AdmitInformed ==
  ASSUME FeedInv, NEW v \in Viewers, v # Page, Admit(v)
  PROVE  FeedInv'
  <1>1. /\ attached /\ clients' = clients \cup {v} /\ v \in Others
        /\ joined' = [joined EXCEPT ![v] = total]
        /\ told' = [told EXCEPT ![v] = {}]
        /\ reported' = [reported EXCEPT ![v] = 0]
        /\ knows' = [knows EXCEPT ![v] = total]
        /\ stalled' = stalled \ {v} /\ total' = total /\ pending' = pending
        /\ dropped' = dropped /\ summaryDirty' = summaryDirty
        /\ attached' = attached
    BY DEF Admit, Others
  <1>2. FeedTyped'
    BY <1>1 DEF FeedInv, FeedTyped
  <1>3. Informed(v)'
    <2>1. /\ joined'[v] = total /\ reported'[v] = 0 /\ knows'[v] = total
          /\ total \in Nat /\ dropped \in Nat
      BY <1>1 DEF FeedInv, FeedTyped
    <2>2. Unseen(v)' = {}
      BY <1>1, <2>1 DEF Unseen
    <2> QED
      BY <1>1, <2>1, <2>2, FS_EmptySet DEF Informed
  <1>4. ASSUME NEW w \in clients' \ (stalled' \cup {Page}), w # v
        PROVE  Informed(w)'
    <2>1. Informed(w) /\ w \in Others
      BY <1>1, <1>4 DEF FeedInv, FeedTyped, Others
    <2>2. /\ joined'[w] = joined[w] /\ told'[w] = told[w]
          /\ reported'[w] = reported[w] /\ knows'[w] = knows[w]
      BY <1>1, <1>4, <2>1 DEF FeedInv, FeedTyped
    <2> QED
      BY <1>1, <2>1, <2>2 DEF Informed, Unseen
  <1> QED
    BY <1>1, <1>2, <1>3, <1>4 DEF FeedInv

LEMMA NextInformed ==
  ASSUME FeedInv, [DashboardNext]_dashboardVars
  PROVE  FeedInv'
  <1> USE DEF history
  <1>1. attached \in BOOLEAN /\ clients \subseteq Viewers /\ (clients # {} => attached)
    BY DEF FeedInv, FeedTyped
  <1>2. ASSUME UNCHANGED feedVars PROVE FeedInv'
    BY <1>1, <1>2, QuietInformed DEF feedVars
  <1>3. ASSUME NEW v \in Viewers, Upgrade(v) \/ Refuse(v) \/ Leave(v) \/ Pong(v) \/ Congest(v)
        PROVE  FeedInv'
    BY <1>1, <1>3, QuietInformed DEF Upgrade, Refuse, Leave, Pong, Congest, Dismiss
  <1>4. ASSUME NEW v \in Viewers, Admit(v) PROVE FeedInv'
    <2>1. CASE v = Page
      BY <1>1, <1>4, <2>1, QuietInformed DEF Admit
    <2> QED
      BY <1>4, <2>1, AdmitInformed
  <1>5. CASE SummaryTime \/ Heartbeat \/ Close
    BY <1>1, <1>5, QuietInformed DEF SummaryTime, Heartbeat, Close, Dismiss
  <1>6. CASE FeedNext \/ OthersNext
    BY <1>3, <1>4, <1>5, <1>6, RecordInformed, FlushInformed DEF FeedNext, OthersNext
  <1>7. CASE PageNext
    <2> USE FeedAssumption
    <2>1. CASE Connect
      BY <1>2, <1>3, <2>1 DEF Connect
    <2>2. CASE Open
      BY <1>4, <2>2 DEF Open
    <2>3. CASE Disconnected \/ Unmount
      BY <1>2, <1>3, <2>3 DEF Disconnected, Unmount
    <2>4. CASE Receive
      BY <1>1, <2>4, QuietInformed DEF Receive
    <2>5. CASE Poll
      BY <1>2, <2>5 DEF Poll
    <2>6. ASSUME NEW i \in DOMAIN fetches, Serve(i) \/ Arrive(i) \/ Lost(i)
          PROVE  FeedInv'
      BY <1>2, <2>6 DEF Serve, Arrive, Lost
    <2> QED
      BY <1>7, <2>1, <2>2, <2>3, <2>4, <2>5, <2>6 DEF PageNext
  <1>8. CASE UNCHANGED dashboardVars
    BY <1>2, <1>8 DEF dashboardVars
  <1> QED
    BY <1>6, <1>7, <1>8 DEF DashboardNext

\* A connected viewer that was never too slow has been sent, is about to be
\* sent or is told as dropped every event since its greeting, and its totals
\* are current or will be sent, whoever else comes, goes or stalls.
THEOREM ViewersInformedAlways == DashboardSpec => []ViewersInformed
  <1>1. DashboardInit => FeedInv
    <2> SUFFICES ASSUME FeedInit PROVE FeedInv
      BY DEF DashboardInit
    <2>1. FeedTyped
      <3>1. /\ [v \in Others |-> 0] \in [Others -> Nat] /\ <<>> \in Seq(Nat)
            /\ [v \in Others |-> {}] \in [Others -> SUBSET Nat]
        OBVIOUS
      <3> QED
        BY <3>1 DEF FeedInit, FeedTyped
    <2> QED
      BY <2>1 DEF FeedInit, FeedInv
  <1>2. FeedInv => ViewersInformed
    BY DEF FeedInv, ViewersInformed, Informed, Unseen
  <1> QED
    BY <1>1, <1>2, NextInformed, PTL DEF DashboardSpec
=============================================================================
