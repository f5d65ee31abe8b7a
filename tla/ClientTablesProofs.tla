-------------------------- MODULE ClientTablesProofs --------------------------
(***************************************************************************)
(* Proofs about what a server keeps about its clients: the token bucket    *)
(* implements the eager one, the sliding window respects its limit and     *)
(* tells the exact wait, the sessions keep the request times they need and *)
(* end when they are idle, an attack ends within eleven intervals without  *)
(* requests, and the analyzers report nothing of an address that has not   *)
(* happened, for all keys, limits, sizes and times.                        *)
(***************************************************************************)
EXTENDS MCClientTables,
        AddressTrackers, FiniteSetTheorems, WellFoundedInduction, TLAPS

(* What a caller relies on when it uses a bounded map m: which keys are    *)
(* there after an operation and that no value changes on the way.  A map   *)
(* is a record of two generations that share no key.                       *)
IsMap(f) ==
  /\ f = [current |-> f.current, previous |-> f.previous]
  /\ DOMAIN f.current \cap DOMAIN f.previous = {}

\* f2 has the keys K, each with the value it has in f.
SameEntries(f, f2, K) ==
  KeysOf(f2) = K /\ \A j \in K : ValueOf(f2, j) = ValueOf(f, j)

LEMMA MapOfGenerations ==
  ASSUME NEW a, NEW b, DOMAIN a \cap DOMAIN b = {},
         NEW f, f = [current |-> a, previous |-> b]
  PROVE  IsMap(f) /\ f.current = a /\ f.previous = b
  BY DEF IsMap

LEMMA EmptyMapFacts == IsMap(EmptyMap) /\ KeysOf(EmptyMap) = {}
  BY DEF IsMap, EmptyMap, NoEntries, KeysOf

LEMMA DemoteFacts ==
  ASSUME NEW f, IsMap(f), NEW k
  PROVE  /\ IsMap(Demote(f, k)) /\ Demote(f, k).current = f.current
         /\ DOMAIN Demote(f, k).previous = DOMAIN f.previous \ {k}
         /\ \A j \in DOMAIN f.previous \ {k} : Demote(f, k).previous[j] = f.previous[j]
  <1> DEFINE rest == Without(f.previous, {k})
  <1>1. DOMAIN rest = DOMAIN f.previous \ {k} /\ \A j \in DOMAIN rest : rest[j] = f.previous[j]
    BY DEF Without
  <1>2. Demote(f, k) = [current |-> f.current, previous |-> rest]
    BY DEF IsMap, Demote
  <1> HIDE DEF rest
  <1>3. DOMAIN f.current \cap DOMAIN rest = {}
    BY <1>1 DEF IsMap
  <1> QED
    BY <1>1, <1>2, <1>3, MapOfGenerations

\* insert() of a key that is in neither generation drops what it reports.
LEMMA InsertFacts ==
  ASSUME NEW f, IsMap(f), NEW k, NEW v, k \notin KeysOf(f)
  PROVE  /\ IsMap(Insert(f, k, v))
         /\ KeysOf(Insert(f, k, v)) = (KeysOf(f) \ DroppedByInsert(f)) \cup {k}
         /\ ValueOf(Insert(f, k, v), k) = v
         /\ \A j \in KeysOf(f) \ DroppedByInsert(f) :
              ValueOf(Insert(f, k, v), j) = ValueOf(f, j)
         /\ k \in DOMAIN Insert(f, k, v).current
  <1> DEFINE g == Insert(f, k, v)
  <1>1. CASE IsFull(f)
    <2>1. g = [current |-> Put(NoEntries, k, v), previous |-> f.current]
      BY <1>1 DEF Insert
    <2>2. DOMAIN Put(NoEntries, k, v) = {k} /\ Put(NoEntries, k, v)[k] = v
      BY DEF Put, NoEntries
    <2>3. DroppedByInsert(f) = DOMAIN f.previous
      BY <1>1 DEF DroppedByInsert
    <2>4. k \notin DOMAIN f.current /\ k \notin DOMAIN f.previous
      BY DEF KeysOf
    <2> HIDE DEF g
    <2>5. IsMap(g) /\ g.current = Put(NoEntries, k, v) /\ g.previous = f.current
      BY <2>1, <2>2, <2>4, MapOfGenerations
    <2>6. KeysOf(g) = DOMAIN f.current \cup {k}
      BY <2>2, <2>5 DEF KeysOf
    <2>7. KeysOf(f) \ DOMAIN f.previous = DOMAIN f.current
      BY DEF KeysOf, IsMap
    <2>8. ValueOf(g, k) = v /\ \A j \in DOMAIN f.current : ValueOf(g, j) = ValueOf(f, j)
      BY <2>2, <2>4, <2>5 DEF ValueOf
    <2> QED
      BY <2>2, <2>3, <2>5, <2>6, <2>7, <2>8 DEF g
  <1>2. CASE ~IsFull(f)
    <2> DEFINE new == Put(f.current, k, v)
    <2>1. g = [current |-> new, previous |-> f.previous]
      BY <1>2 DEF Insert, IsMap
    <2>2. /\ DOMAIN new = DOMAIN f.current \cup {k} /\ new[k] = v
          /\ \A j \in DOMAIN f.current \ {k} : new[j] = f.current[j]
      BY DEF Put
    <2>3. DroppedByInsert(f) = {}
      BY <1>2 DEF DroppedByInsert
    <2>4. k \notin DOMAIN f.current /\ k \notin DOMAIN f.previous
      BY DEF KeysOf
    <2> HIDE DEF g, new
    <2>5. DOMAIN new \cap DOMAIN f.previous = {}
      BY <2>2, <2>4 DEF IsMap
    <2>6. IsMap(g) /\ g.current = new /\ g.previous = f.previous
      BY <2>1, <2>5, MapOfGenerations
    <2>7. KeysOf(g) = KeysOf(f) \cup {k}
      BY <2>2, <2>6 DEF KeysOf
    <2>8. ValueOf(g, k) = v /\ \A j \in KeysOf(f) : ValueOf(g, j) = ValueOf(f, j)
      BY <2>2, <2>4, <2>6 DEF ValueOf, KeysOf
    <2> QED
      BY <2>2, <2>3, <2>6, <2>7, <2>8 DEF g
  <1> QED
    BY <1>1, <1>2

\* The value that an insertion after demote() keeps for the other keys.
LEMMA ReinsertFacts ==
  ASSUME NEW f, IsMap(f), NEW k, NEW v, k \notin DOMAIN f.current
  PROVE  LET g == Insert(Demote(f, k), k, v)
             lost == DroppedByInsert(Demote(f, k))
         IN  /\ IsMap(g) /\ k \notin lost /\ lost \subseteq KeysOf(f)
             /\ KeysOf(g) = (KeysOf(f) \ lost) \cup {k}
             /\ ValueOf(g, k) = v
             /\ \A j \in KeysOf(f) \ (lost \cup {k}) : ValueOf(g, j) = ValueOf(f, j)
  <1> DEFINE d == Demote(f, k)
  <1>1. /\ IsMap(d) /\ d.current = f.current
        /\ DOMAIN d.previous = DOMAIN f.previous \ {k}
        /\ \A j \in DOMAIN f.previous \ {k} : d.previous[j] = f.previous[j]
    BY DemoteFacts
  <1> HIDE DEF d
  <1>2. IsMap(d) /\ KeysOf(d) = KeysOf(f) \ {k}
    BY <1>1 DEF IsMap, KeysOf
  <1>3. \A j \in KeysOf(f) \ {k} : ValueOf(d, j) = ValueOf(f, j)
    BY <1>1 DEF KeysOf, ValueOf
  <1>4. DroppedByInsert(d) \subseteq KeysOf(d)
    BY DEF DroppedByInsert, KeysOf
  <1>5. /\ IsMap(Insert(d, k, v))
        /\ KeysOf(Insert(d, k, v)) = (KeysOf(d) \ DroppedByInsert(d)) \cup {k}
        /\ ValueOf(Insert(d, k, v), k) = v
        /\ \A j \in KeysOf(d) \ DroppedByInsert(d) :
             ValueOf(Insert(d, k, v), j) = ValueOf(d, j)
    BY <1>2, InsertFacts
  <1> QED
    BY <1>2, <1>3, <1>4, <1>5 DEF d

LEMMA AfterSetFacts ==
  ASSUME NEW f, IsMap(f), NEW k, NEW v
  PROVE  /\ IsMap(AfterSet(f, k, v))
         /\ k \notin DroppedBySet(f, k) /\ DroppedBySet(f, k) \subseteq KeysOf(f)
         /\ KeysOf(AfterSet(f, k, v)) = (KeysOf(f) \ DroppedBySet(f, k)) \cup {k}
         /\ ValueOf(AfterSet(f, k, v), k) = v
         /\ \A j \in KeysOf(f) \ (DroppedBySet(f, k) \cup {k}) :
              ValueOf(AfterSet(f, k, v), j) = ValueOf(f, j)
  <1>1. CASE k \in DOMAIN f.current
    <2>1. AfterSet(f, k, v) = [current |-> Put(f.current, k, v), previous |-> f.previous]
      BY <1>1 DEF AfterSet, IsMap
    <2>2. /\ DOMAIN Put(f.current, k, v) = DOMAIN f.current
          /\ Put(f.current, k, v)[k] = v
          /\ \A j \in DOMAIN f.current \ {k} : Put(f.current, k, v)[j] = f.current[j]
      BY <1>1 DEF Put
    <2>3. DroppedBySet(f, k) = {}
      BY <1>1 DEF DroppedBySet
    <2> QED
      BY <1>1, <2>1, <2>2, <2>3 DEF IsMap, KeysOf, ValueOf
  <1>2. CASE k \notin DOMAIN f.current
    BY <1>2, ReinsertFacts DEF AfterSet, DroppedBySet
  <1> QED
    BY <1>1, <1>2

LEMMA AfterGetFacts ==
  ASSUME NEW f, IsMap(f), NEW k
  PROVE  /\ IsMap(AfterGet(f, k))
         /\ k \notin DroppedByGet(f, k) /\ DroppedByGet(f, k) \subseteq KeysOf(f)
         /\ SameEntries(f, AfterGet(f, k), KeysOf(f) \ DroppedByGet(f, k))
  <1>1. CASE Promotes(f, k)
    <2>1. /\ k \notin DOMAIN f.current /\ k \in KeysOf(f)
          /\ f.previous[k] = ValueOf(f, k)
      BY <1>1 DEF Promotes, KeysOf, ValueOf
    <2> QED
      BY <1>1, <2>1, ReinsertFacts DEF AfterGet, DroppedByGet, SameEntries
  <1>2. CASE ~Promotes(f, k)
    BY <1>2 DEF AfterGet, DroppedByGet, SameEntries
  <1> QED
    BY <1>1, <1>2

LEMMA MutateFacts ==
  ASSUME NEW f, IsMap(f), NEW k \in KeysOf(f), NEW v
  PROVE  /\ IsMap(Mutate(f, k, v))
         /\ KeysOf(Mutate(f, k, v)) = KeysOf(f)
         /\ ValueOf(Mutate(f, k, v), k) = v
         /\ \A j \in KeysOf(f) \ {k} : ValueOf(Mutate(f, k, v), j) = ValueOf(f, j)
  <1>1. CASE k \in DOMAIN f.current
    <2>1. Mutate(f, k, v) = [current |-> Put(f.current, k, v), previous |-> f.previous]
      BY <1>1 DEF Mutate, IsMap
    <2>2. /\ DOMAIN Put(f.current, k, v) = DOMAIN f.current
          /\ Put(f.current, k, v)[k] = v
          /\ \A j \in DOMAIN f.current \ {k} : Put(f.current, k, v)[j] = f.current[j]
      BY <1>1 DEF Put
    <2> QED
      BY <1>1, <2>1, <2>2 DEF IsMap, KeysOf, ValueOf
  <1>2. CASE k \notin DOMAIN f.current
    <2>1. Mutate(f, k, v) = [current |-> f.current, previous |-> Put(f.previous, k, v)]
      BY <1>2 DEF Mutate, IsMap
    <2>2. /\ DOMAIN Put(f.previous, k, v) = DOMAIN f.previous
          /\ Put(f.previous, k, v)[k] = v
          /\ \A j \in DOMAIN f.previous \ {k} : Put(f.previous, k, v)[j] = f.previous[j]
      BY <1>2 DEF Put, KeysOf
    <2> QED
      BY <1>2, <2>1, <2>2 DEF IsMap, KeysOf, ValueOf
  <1> QED
    BY <1>1, <1>2

\* delete() stops at the first generation that has the key: the other has not.
LEMMA AfterDeleteFacts ==
  ASSUME NEW f, IsMap(f), NEW k
  PROVE  IsMap(AfterDelete(f, k)) /\ SameEntries(f, AfterDelete(f, k), KeysOf(f) \ {k})
  <1>1. CASE k \in DOMAIN f.current
    <2>1. AfterDelete(f, k) = [current |-> Without(f.current, {k}), previous |-> f.previous]
      BY <1>1 DEF AfterDelete, IsMap
    <2>2. /\ DOMAIN Without(f.current, {k}) = DOMAIN f.current \ {k}
          /\ \A j \in DOMAIN f.current \ {k} : Without(f.current, {k})[j] = f.current[j]
      BY DEF Without
    <2> QED
      BY <1>1, <2>1, <2>2 DEF IsMap, KeysOf, ValueOf, SameEntries
  <1>2. CASE k \notin DOMAIN f.current
    <2>1. AfterDelete(f, k) = Demote(f, k)
      BY <1>2 DEF AfterDelete
    <2>2. KeysOf(Demote(f, k)) = KeysOf(f) \ {k}
      BY <1>2, DemoteFacts DEF KeysOf
    <2>3. \A j \in KeysOf(f) \ {k} : ValueOf(Demote(f, k), j) = ValueOf(f, j)
      BY DemoteFacts DEF KeysOf, ValueOf
    <2> QED
      BY <2>1, <2>2, <2>3, DemoteFacts DEF SameEntries
  <1> QED
    BY <1>1, <1>2

LEMMA AfterDeleteAllFacts ==
  ASSUME NEW f, IsMap(f), NEW S
  PROVE  IsMap(AfterDeleteAll(f, S)) /\ SameEntries(f, AfterDeleteAll(f, S), KeysOf(f) \ S)
  <1> DEFINE g == AfterDeleteAll(f, S)
  <1>1. g = [current |-> Without(f.current, S), previous |-> Without(f.previous, S)]
    BY DEF AfterDeleteAll
  <1>2. /\ DOMAIN Without(f.current, S) = DOMAIN f.current \ S
        /\ DOMAIN Without(f.previous, S) = DOMAIN f.previous \ S
        /\ \A j \in DOMAIN f.current \ S : Without(f.current, S)[j] = f.current[j]
        /\ \A j \in DOMAIN f.previous \ S : Without(f.previous, S)[j] = f.previous[j]
    BY DEF Without
  <1> HIDE DEF g
  <1> QED
    BY <1>1, <1>2 DEF IsMap, KeysOf, ValueOf, SameEntries, g

(* No generation ever holds more than GenerationSize keys.                 *)
FewKeys(S) == IsFiniteSet(S) /\ Cardinality(S) <= GenerationSize

Small(f) == FewKeys(DOMAIN f.current) /\ FewKeys(DOMAIN f.previous)

LEMMA FewerKeys ==
  ASSUME NEW S, FewKeys(S), NEW T, T \subseteq S
  PROVE  FewKeys(T)
  <1>1. IsFiniteSet(T) /\ Cardinality(T) <= Cardinality(S)
    BY FS_Subset DEF FewKeys
  <1>2. Cardinality(S) \in Nat /\ Cardinality(T) \in Nat
    BY <1>1, FS_CardinalityType DEF FewKeys
  <1>3. GenerationSize \in Nat
    BY MaxSizeAssumption DEF GenerationSize
  <1> QED
    BY <1>1, <1>2, <1>3 DEF FewKeys

LEMMA SizesOf ==
  ASSUME NEW f, Small(f)
  PROVE  SizeOf(f) \in Nat /\ SizeOf(f) <= MaxSize
  <1>1. /\ Cardinality(DOMAIN f.current) \in Nat
        /\ Cardinality(DOMAIN f.previous) \in Nat
    BY FS_CardinalityType DEF Small, FewKeys
  <1>2. GenerationSize \in Nat /\ 2 * GenerationSize <= MaxSize
    BY MaxSizeAssumption DEF GenerationSize
  <1> QED
    BY <1>1, <1>2, MaxSizeAssumption DEF SizeOf, Small, FewKeys

LEMMA EmptyIsSmall == Small(EmptyMap)
  <1>1. GenerationSize \in Nat
    BY MaxSizeAssumption DEF GenerationSize
  <1>2. FewKeys({})
    BY <1>1, FS_EmptySet DEF FewKeys
  <1> QED
    BY <1>2 DEF Small, EmptyMap, NoEntries

LEMMA DemoteIsSmall ==
  ASSUME NEW f, IsMap(f), Small(f), NEW k
  PROVE  Small(Demote(f, k))
  <1>1. FewKeys(DOMAIN f.previous \ {k})
    BY FewerKeys DEF Small
  <1> QED
    BY <1>1, DemoteFacts DEF Small

\* A generation that is not full has room for the key; one that is full leaves
\* its place to a new one, which has room for it, as there are two at least.
LEMMA InsertIsSmall ==
  ASSUME NEW f, IsMap(f), Small(f), NEW k, NEW v
  PROVE  Small(Insert(f, k, v))
  <1>0. GenerationSize \in Nat /\ GenerationSize >= 1
    BY MaxSizeAssumption DEF GenerationSize
  <1>1. CASE IsFull(f)
    <2>1. Insert(f, k, v) = [current |-> Put(NoEntries, k, v), previous |-> f.current]
      BY <1>1 DEF Insert
    <2>2. DOMAIN Put(NoEntries, k, v) = {k}
      BY DEF Put, NoEntries
    <2>3. FewKeys({k})
      BY <1>0, FS_Singleton DEF FewKeys
    <2> QED
      BY <2>1, <2>2, <2>3 DEF Small
  <1>2. CASE ~IsFull(f)
    <2> DEFINE S == DOMAIN f.current
    <2>1. Insert(f, k, v) = [current |-> Put(f.current, k, v), previous |-> f.previous]
      BY <1>2 DEF Insert, IsMap
    <2>2. DOMAIN Put(f.current, k, v) = S \cup {k}
      BY DEF Put
    <2>3. IsFiniteSet(S) /\ Cardinality(S) \in Nat /\ Cardinality(S) < GenerationSize
      BY <1>0, <1>2, FS_CardinalityType DEF Small, FewKeys, IsFull
    <2> HIDE DEF S
    <2>4. /\ IsFiniteSet(S \cup {k})
          /\ Cardinality(S \cup {k}) \in {Cardinality(S), Cardinality(S) + 1}
      BY <2>3, FS_AddElement
    <2>5. FewKeys(S \cup {k})
      BY <1>0, <2>3, <2>4 DEF FewKeys
    <2> QED
      BY <2>1, <2>2, <2>5 DEF Small
  <1> QED
    BY <1>1, <1>2

LEMMA AfterSetIsSmall ==
  ASSUME NEW f, IsMap(f), Small(f), NEW k, NEW v
  PROVE  Small(AfterSet(f, k, v))
  <1>1. CASE k \in DOMAIN f.current
    <2>1. AfterSet(f, k, v) = [current |-> Put(f.current, k, v), previous |-> f.previous]
      BY <1>1 DEF AfterSet, IsMap
    <2>2. DOMAIN Put(f.current, k, v) = DOMAIN f.current
      BY <1>1 DEF Put
    <2> QED
      BY <2>1, <2>2 DEF Small
  <1>2. CASE k \notin DOMAIN f.current
    BY <1>2, DemoteFacts, DemoteIsSmall, InsertIsSmall DEF AfterSet
  <1> QED
    BY <1>1, <1>2

LEMMA AfterGetIsSmall ==
  ASSUME NEW f, IsMap(f), Small(f), NEW k
  PROVE  Small(AfterGet(f, k))
  BY DemoteFacts, DemoteIsSmall, InsertIsSmall DEF AfterGet

LEMMA MutateIsSmall ==
  ASSUME NEW f, IsMap(f), Small(f), NEW k \in KeysOf(f), NEW v
  PROVE  Small(Mutate(f, k, v))
  <1>1. CASE k \in DOMAIN f.current
    <2>1. Mutate(f, k, v) = [current |-> Put(f.current, k, v), previous |-> f.previous]
      BY <1>1 DEF Mutate, IsMap
    <2>2. DOMAIN Put(f.current, k, v) = DOMAIN f.current
      BY <1>1 DEF Put
    <2> QED
      BY <2>1, <2>2 DEF Small
  <1>2. CASE k \notin DOMAIN f.current
    <2>1. Mutate(f, k, v) = [current |-> f.current, previous |-> Put(f.previous, k, v)]
      BY <1>2 DEF Mutate, IsMap
    <2>2. DOMAIN Put(f.previous, k, v) = DOMAIN f.previous
      BY <1>2 DEF Put, KeysOf
    <2> QED
      BY <2>1, <2>2 DEF Small
  <1> QED
    BY <1>1, <1>2

LEMMA AfterDeleteIsSmall ==
  ASSUME NEW f, IsMap(f), Small(f), NEW k
  PROVE  Small(AfterDelete(f, k))
  <1>1. CASE k \in DOMAIN f.current
    <2>1. AfterDelete(f, k) = [current |-> Without(f.current, {k}), previous |-> f.previous]
      BY <1>1 DEF AfterDelete, IsMap
    <2>2. FewKeys(DOMAIN Without(f.current, {k}))
      BY FewerKeys DEF Small, Without
    <2> QED
      BY <2>1, <2>2 DEF Small
  <1>2. CASE k \notin DOMAIN f.current
    BY <1>2, DemoteIsSmall DEF AfterDelete
  <1> QED
    BY <1>1, <1>2

LEMMA AfterDeleteAllIsSmall ==
  ASSUME NEW f, Small(f), NEW S
  PROVE  Small(AfterDeleteAll(f, S))
  <1>1. /\ FewKeys(DOMAIN Without(f.current, S))
        /\ FewKeys(DOMAIN Without(f.previous, S))
    BY FewerKeys DEF Small, Without
  <1> QED
    BY <1>1 DEF Small, AfterDeleteAll

---------------------------------------------------------------------------
(* The token bucket implements the eager one (TokenBucket!Eager).          *)

Tokens(b, t) == AtMost(Capacity, b.tokens + (t - b.lastRefill) * Refill)

\* What a bucket holds once it is refilled, also within the tick of the last
\* refill.
LEMMA RefilledFacts ==
  ASSUME NEW b \in Bucket, now \in 0..MaxTime, b.lastRefill <= now
  PROVE  /\ Refilled(b) \in Bucket /\ Refilled(b).lastRefill = now
         /\ Refilled(b).tokens = Tokens(b, now)
  <1>1. /\ b = [tokens |-> b.tokens, lastRefill |-> b.lastRefill]
        /\ b.tokens \in 0..Capacity /\ b.lastRefill \in 0..MaxTime
        /\ Capacity \in Nat /\ Refill \in Nat /\ MaxTime \in Nat
    BY TokenBucketAssumption DEF Bucket
  <1>2. CASE now > b.lastRefill
    <2> DEFINE gained == (now - b.lastRefill) * Refill
    <2>1. gained \in Nat
      <3>1. now - b.lastRefill \in Nat
        BY <1>1
      <3> QED
        BY <1>1, <3>1
    <2>2. Refilled(b) = [tokens |-> AtMost(Capacity, b.tokens + gained), lastRefill |-> now]
      BY <1>2 DEF Refilled
    <2> HIDE DEF gained
    <2>3. AtMost(Capacity, b.tokens + gained) \in 0..Capacity
      BY <1>1, <2>1 DEF AtMost
    <2> QED
      BY <2>2, <2>3 DEF Bucket, Tokens, gained
  <1>3. CASE now = b.lastRefill
    <2>1. Refilled(b) = b
      BY <1>1, <1>3 DEF Refilled
    <2>2. (now - b.lastRefill) * Refill = 0
      BY <1>1, <1>3
    <2> QED
      BY <1>1, <1>3, <2>1, <2>2 DEF Tokens, AtMost
  <1> QED
    BY <1>1, <1>2, <1>3

BucketOK(b) == b \in Bucket /\ b.lastRefill <= now

BucketsOK ==
  /\ now \in 0..MaxTime
  /\ IsMap(buckets) /\ KeysOf(buckets) \subseteq Keys
  /\ \A k \in KeysOf(buckets) : BucketOK(ValueOf(buckets, k))

Levels == [k \in Keys |-> Level(k)]

LEMMA LevelFacts ==
  ASSUME BucketsOK, NEW k \in Keys
  PROVE  /\ Level(k) = IF k \in KeysOf(buckets)
                       THEN Tokens(ValueOf(buckets, k), now) ELSE Capacity
         /\ Level(k) \in 0..Capacity
  <1>1. CASE k \in KeysOf(buckets)
    BY <1>1, RefilledFacts DEF BucketsOK, BucketOK, Level, Has, Bucket
  <1>2. CASE k \notin KeysOf(buckets)
    BY <1>2, TokenBucketAssumption DEF Level, Has
  <1> QED
    BY <1>1, <1>2

\* The use of a key: it has a bucket refilled now, the keys that were lost are
\* full, no other level changes.
LEMMA UsedLevels ==
  ASSUME BucketsOK, NEW k \in Keys, NEW lost, k \notin lost, NEW b \in Bucket,
         b.lastRefill = now, now' = now, IsMap(buckets'),
         KeysOf(buckets') = (KeysOf(buckets) \ lost) \cup {k},
         ValueOf(buckets', k) = b,
         \A j \in KeysOf(buckets') \ {k} : ValueOf(buckets', j) = ValueOf(buckets, j)
  PROVE  /\ BucketsOK'
         /\ Levels' = [Eager!Filled(lost \cap KeysOf(buckets)) EXCEPT ![k] = b.tokens]
  <1>1. BucketsOK'
    BY DEF BucketsOK, BucketOK, Bucket
  <1>2. Level(k)' = b.tokens
    <2>1. now \in Nat /\ Has(buckets', k)
      BY DEF BucketsOK, Has
    <2>2. Refilled(b)' = b
      BY <2>1 DEF Refilled
    <2> QED
      BY <2>1, <2>2 DEF Level, Refilled
  <1>3. ASSUME NEW j \in Keys \ {k}
        PROVE  Level(j)' = IF j \in lost \cap KeysOf(buckets) THEN Capacity ELSE Level(j)
    BY DEF Level, Has, Refilled
  <1>4. Levels' = [j \in Keys |-> IF j = k THEN b.tokens ELSE
                     IF j \in lost \cap KeysOf(buckets) THEN Capacity ELSE Level(j)]
    BY <1>2, <1>3 DEF Levels
  <1> QED
    BY <1>1, <1>4 DEF Eager!Filled

\* The keys that the use of k drops from the map, and what k has left.
Lost(k) == IF Has(buckets, k) THEN DroppedByGet(buckets, k) ELSE DroppedBySet(buckets, k)
Left(k, cost) == IF Level(k) >= cost THEN Level(k) - cost ELSE Level(k)

\* A request is judged by the level of its key, and takes from no other one.
LEMMA RequestLevels ==
  ASSUME BucketsOK, NEW k \in Keys, NEW cost \in Costs, IsAllowed(k, cost)
  PROVE  /\ BucketsOK'
         /\ Lost(k) \subseteq Keys \ {k}
         /\ Levels' = [Eager!Filled(Lost(k)) EXCEPT ![k] = Left(k, cost)]
         /\ answer' = [op |-> "isAllowed", key |-> k, cost |-> cost,
                       allowed |-> Level(k) >= cost, remaining |-> Left(k, cost)]
         /\ promise' = [Forgiven(Lost(k)) EXCEPT
                          ![k] = IF Level(k) >= cost THEN NoPromise
                                 ELSE [cost |-> cost,
                                       at |-> now + CeilDiv(cost - Level(k), Refill)]]
  <1> DEFINE known == Has(buckets, k)
             stored == IF known THEN AfterGet(buckets, k)
                       ELSE AfterSet(buckets, k, FreshBucket)
             lost == Lost(k)
             bucket == Refilled(ValueOf(stored, k))
             left == IF bucket.tokens >= cost THEN bucket.tokens - cost ELSE bucket.tokens
             new == [bucket EXCEPT !.tokens = left]
  <1>1. now \in 0..MaxTime /\ IsMap(buckets) /\ KeysOf(buckets) \subseteq Keys
    BY DEF BucketsOK
  <1>2. FreshBucket \in Bucket /\ FreshBucket.tokens = Capacity /\ FreshBucket.lastRefill = now
    BY <1>1, TokenBucketAssumption DEF FreshBucket, Bucket
  <1>3. /\ IsMap(stored) /\ k \notin lost /\ lost \subseteq KeysOf(buckets)
        /\ KeysOf(stored) = (KeysOf(buckets) \ lost) \cup {k}
        /\ ValueOf(stored, k) = IF known THEN ValueOf(buckets, k) ELSE FreshBucket
        /\ \A j \in KeysOf(stored) \ {k} : ValueOf(stored, j) = ValueOf(buckets, j)
    <2>1. CASE known
      BY <1>1, <2>1, AfterGetFacts DEF SameEntries, Has, Lost
    <2>2. CASE ~known
      <3>1. k \notin KeysOf(buckets) /\ lost = DroppedBySet(buckets, k)
        BY <2>2 DEF Has, Lost
      <3> HIDE DEF known, lost
      <3> QED
        BY <1>1, <2>2, <3>1, AfterSetFacts
    <2> QED
      BY <2>1, <2>2
  <1>4. BucketOK(ValueOf(stored, k))
    BY <1>1, <1>2, <1>3 DEF BucketsOK, BucketOK, Has
  <1>5. buckets' = Mutate(stored, k, new) /\ now' = now
    BY DEF IsAllowed
  <1>6. answer' = [op |-> "isAllowed", key |-> k, cost |-> cost,
                   allowed |-> bucket.tokens >= cost, remaining |-> left]
    BY DEF IsAllowed
  <1> HIDE DEF stored, lost
  <1>7. /\ bucket \in Bucket /\ bucket.lastRefill = now
        /\ bucket.tokens = Tokens(ValueOf(stored, k), now)
    BY <1>1, <1>4, RefilledFacts DEF BucketOK
  <1>8. bucket.tokens = Level(k)
    <2>1. CASE known
      BY <1>3, <2>1 DEF Level
    <2>2. CASE ~known
      BY <1>1, <1>2, <1>3, <2>2 DEF Level, Refilled
    <2> QED
      BY <2>1, <2>2
  <1> HIDE DEF bucket
  <1>9. cost \in Nat /\ Capacity \in Nat
    BY TokenBucketAssumption
  <1>10. new \in Bucket /\ new.lastRefill = now /\ new.tokens = left
    BY <1>7, <1>9 DEF Bucket
  <1> HIDE DEF new, left
  <1>11. /\ IsMap(buckets')
         /\ KeysOf(buckets') = (KeysOf(buckets) \ lost) \cup {k}
         /\ ValueOf(buckets', k) = new
         /\ \A j \in KeysOf(buckets') \ {k} : ValueOf(buckets', j) = ValueOf(buckets, j)
    BY <1>3, <1>5, MutateFacts
  <1>12. /\ BucketsOK'
         /\ Levels' = [Eager!Filled(lost \cap KeysOf(buckets)) EXCEPT ![k] = left]
    BY <1>3, <1>5, <1>10, <1>11, UsedLevels
  <1>13. lost \cap KeysOf(buckets) = lost /\ lost = Lost(k) /\ left = Left(k, cost)
    BY <1>3, <1>8 DEF lost, left, Left
  <1>14. promise' = [Forgiven(lost) EXCEPT
                       ![k] = IF bucket.tokens >= cost THEN NoPromise
                              ELSE [cost |-> cost,
                                    at |-> now + CeilDiv(cost - bucket.tokens, Refill)]]
    BY DEF IsAllowed, lost, Lost, stored, bucket
  <1> QED
    BY <1>1, <1>3, <1>6, <1>8, <1>12, <1>13, <1>14

LEMMA RequestStep ==
  ASSUME BucketsOK, NEW k \in Keys, NEW cost \in Costs, IsAllowed(k, cost)
  PROVE  BucketsOK' /\ Eager!Request(k, cost)
  <1> DEFINE S == Lost(k)
  <1>1. /\ BucketsOK' /\ S \in SUBSET (Keys \ {k})
        /\ Levels' = [Eager!Filled(S) EXCEPT ![k] = Left(k, cost)]
        /\ answer' = [op |-> "isAllowed", key |-> k, cost |-> cost,
                      allowed |-> Level(k) >= cost, remaining |-> Left(k, cost)]
    BY RequestLevels
  <1> HIDE DEF S
  <1>2. Levels[k] = Level(k) /\ Levels'[k] = Left(k, cost) /\ Eager!Filled(S)[k] = Levels[k]
    BY <1>1 DEF Levels, Eager!Filled
  <1>3. Levels' = [Eager!Filled(S) EXCEPT
                    ![k] = IF Levels[k] >= cost THEN @ - cost ELSE @]
    BY <1>1, <1>2 DEF Left
  <1> QED
    BY <1>1, <1>2, <1>3 DEF Eager!Request, Levels

LEMMA LookStep ==
  ASSUME BucketsOK, NEW k \in Keys, GetStatus(k)
  PROVE  /\ BucketsOK' /\ Eager!Look(k)
         /\ Levels' = Eager!Filled(DroppedByGet(buckets, k) \cap KeysOf(buckets))
  <1> DEFINE found == AfterGet(buckets, k)
             lost == DroppedByGet(buckets, k)
             bucket == Refilled(ValueOf(found, k))
  <1>1. now \in 0..MaxTime /\ IsMap(buckets) /\ KeysOf(buckets) \subseteq Keys /\ now' = now
    BY DEF BucketsOK, GetStatus
  <1>2. CASE Has(buckets, k)
    <2>1. /\ buckets' = Mutate(found, k, bucket)
          /\ answer' = [op |-> "getStatus", key |-> k, tokens |-> ValueOf(buckets', k).tokens]
      BY <1>2 DEF GetStatus
    <2>2. /\ IsMap(found) /\ k \notin lost /\ lost \subseteq KeysOf(buckets)
          /\ KeysOf(found) = (KeysOf(buckets) \ lost) \cup {k}
          /\ ValueOf(found, k) = ValueOf(buckets, k)
          /\ \A j \in KeysOf(found) \ {k} : ValueOf(found, j) = ValueOf(buckets, j)
      BY <1>1, <1>2, AfterGetFacts DEF SameEntries, Has
    <2>3. BucketOK(ValueOf(found, k))
      BY <1>2, <2>2 DEF BucketsOK, Has
    <2>4. bucket \in Bucket /\ bucket.lastRefill = now
      BY <1>1, <2>3, RefilledFacts DEF BucketOK
    <2>5. bucket.tokens = Level(k)
      BY <1>2, <2>2 DEF Level
    <2> HIDE DEF found, lost, bucket
    <2>6. /\ IsMap(buckets')
          /\ KeysOf(buckets') = (KeysOf(buckets) \ lost) \cup {k}
          /\ ValueOf(buckets', k) = bucket
          /\ \A j \in KeysOf(buckets') \ {k} : ValueOf(buckets', j) = ValueOf(buckets, j)
      BY <2>1, <2>2, MutateFacts
    <2>7. /\ BucketsOK'
          /\ Levels' = [Eager!Filled(lost \cap KeysOf(buckets)) EXCEPT ![k] = bucket.tokens]
      BY <1>1, <2>2, <2>4, <2>6, UsedLevels
    <2>8. Eager!Filled(lost \cap KeysOf(buckets))[k] = bucket.tokens
      BY <2>2, <2>5 DEF Eager!Filled, Levels
    <2>9. Levels' = Eager!Filled(lost \cap KeysOf(buckets))
      BY <2>7, <2>8 DEF Eager!Filled
    <2>10. answer' = [op |-> "getStatus", key |-> k, tokens |-> Levels[k]]
      BY <2>1, <2>5, <2>6 DEF Levels
    <2>11. lost \cap KeysOf(buckets) \in SUBSET (Keys \ {k})
      BY <1>1, <2>2
    <2> QED
      BY <2>7, <2>9, <2>10, <2>11 DEF Eager!Look, Levels, lost
  <1>3. CASE ~Has(buckets, k)
    <2>1. /\ buckets' = buckets
          /\ answer' = [op |-> "getStatus", key |-> k, tokens |-> Capacity]
      BY <1>3 DEF GetStatus
    <2>2. Levels[k] = Capacity /\ Levels' = Levels /\ Levels = Eager!Filled({})
      BY <1>1, <1>3, <2>1 DEF Levels, Level, Refilled, Eager!Filled
    <2>3. BucketsOK'
      BY <1>1, <2>1 DEF BucketsOK, BucketOK
    <2>4. {} \in SUBSET (Keys \ {k}) /\ DroppedByGet(buckets, k) \cap KeysOf(buckets) = {}
      BY <1>3 DEF DroppedByGet, Promotes, Has, KeysOf
    <2> QED
      BY <2>1, <2>2, <2>3, <2>4 DEF Eager!Look, Levels
  <1> QED
    BY <1>2, <1>3

LEMMA ResetStep ==
  ASSUME BucketsOK, NEW k \in Keys, Reset(k)
  PROVE  BucketsOK' /\ Eager!Reset(k)
  <1>1. /\ buckets' = AfterDelete(buckets, k) /\ now' = now
        /\ answer' = [op |-> "reset", key |-> k]
    BY DEF Reset
  <1>2. /\ IsMap(buckets') /\ KeysOf(buckets') = KeysOf(buckets) \ {k}
        /\ \A j \in KeysOf(buckets') : ValueOf(buckets', j) = ValueOf(buckets, j)
    BY <1>1, AfterDeleteFacts DEF BucketsOK, SameEntries
  <1>3. BucketsOK'
    BY <1>1, <1>2 DEF BucketsOK, BucketOK, Bucket
  <1>4. \A j \in Keys : Level(j)' = IF j \in {k} THEN Capacity ELSE Level(j)
    BY <1>1, <1>2 DEF Level, Has, Refilled
  <1> QED
    BY <1>1, <1>3, <1>4 DEF Eager!Reset, Eager!Filled

\* resetAll() and destroy().
LEMMA EmptyStep ==
  ASSUME BucketsOK, buckets' = EmptyMap, now' = now, answer' = [op |-> "resetAll"]
  PROVE  BucketsOK' /\ Eager!ResetAll
  <1>1. IsMap(buckets') /\ KeysOf(buckets') = {}
    BY EmptyMapFacts
  <1>2. BucketsOK'
    BY <1>1 DEF BucketsOK
  <1>3. \A j \in Keys : Level(j)' = Capacity
    BY <1>1 DEF Level, Has
  <1> QED
    BY <1>2, <1>3 DEF Eager!ResetAll, Eager!Filled

\* A bucket that the timer takes for stale is full: it has had time to fill.
LEMMA StaleIsFull ==
  ASSUME BucketsOK, NEW k \in KeysOf(buckets), Stale(ValueOf(buckets, k))
  PROVE  Level(k) = Capacity
  <1> DEFINE b == ValueOf(buckets, k)
             pause == now - b.lastRefill
  <1>1. b \in Bucket /\ b.lastRefill <= now /\ k \in Keys /\ now \in Nat
    BY DEF BucketsOK, BucketOK
  <1>2. /\ Capacity \in Nat /\ Refill \in Nat /\ MaxAge \in Nat
        /\ Capacity <= Refill * MaxAge /\ MaxTime \in Nat
    BY TokenBucketAssumption
  <1>3. b.tokens \in 0..Capacity /\ b.lastRefill \in 0..MaxTime
    BY <1>1 DEF Bucket
  <1>4. pause \in Nat /\ pause > MaxAge
    BY <1>1, <1>2, <1>3 DEF Stale
  <1>5. Level(k) = AtMost(Capacity, b.tokens + pause * Refill)
    BY <1>1, LevelFacts DEF Tokens
  <1> HIDE DEF pause
  <1>6. Refill * MaxAge <= pause * Refill /\ pause * Refill \in Nat
    BY <1>2, <1>4
  <1> HIDE DEF b
  <1>7. b.tokens + pause * Refill >= Capacity
    <2> DEFINE gained == pause * Refill
               least == Refill * MaxAge
    <2>1. least \in Nat /\ gained \in Nat /\ least <= gained /\ Capacity <= least
      BY <1>2, <1>6
    <2> HIDE DEF gained, least
    <2>2. b.tokens + gained >= Capacity
      BY <1>2, <1>3, <2>1
    <2> QED
      BY <2>2 DEF gained
  <1> QED
    BY <1>2, <1>3, <1>5, <1>6, <1>7 DEF AtMost

\* The cleanup changes no level.
LEMMA CleanupStep ==
  ASSUME BucketsOK, Cleanup
  PROVE  BucketsOK' /\ Levels' = Levels
  <1> DEFINE gone == {k \in KeysOf(buckets) : Stale(ValueOf(buckets, k))}
  <1>1. buckets' = AfterDeleteAll(buckets, gone) /\ now' = now
    BY DEF Cleanup
  <1>2. /\ IsMap(buckets') /\ KeysOf(buckets') = KeysOf(buckets) \ gone
        /\ \A j \in KeysOf(buckets') : ValueOf(buckets', j) = ValueOf(buckets, j)
    BY <1>1, AfterDeleteAllFacts DEF BucketsOK, SameEntries
  <1>3. \A j \in gone : Level(j) = Capacity
    BY StaleIsFull
  <1> HIDE DEF gone
  <1>4. BucketsOK'
    BY <1>1, <1>2 DEF BucketsOK, BucketOK, Bucket
  <1>5. ASSUME NEW j \in Keys PROVE Level(j)' = Level(j)
    <2>1. CASE j \in KeysOf(buckets')
      BY <1>1, <1>2, <2>1 DEF Level, Has, Refilled
    <2>2. CASE j \notin KeysOf(buckets')
      <3>1. Level(j)' = Capacity
        BY <2>2 DEF Level, Has
      <3>2. CASE j \in KeysOf(buckets)
        BY <1>2, <1>3, <2>2, <3>1, <3>2
      <3>3. CASE j \notin KeysOf(buckets)
        BY <3>1, <3>3 DEF Level, Has
      <3> QED
        BY <3>2, <3>3
    <2> QED
      BY <2>1, <2>2
  <1> QED
    BY <1>4, <1>5 DEF Levels

\* A tick adds Refill to what every bucket would hold.
LEMMA TickStep ==
  ASSUME BucketsOK, Tick
  PROVE  BucketsOK' /\ Eager!Tick
  <1>1. /\ now' = now + 1 /\ now' \in 0..MaxTime /\ now \in 0..MaxTime
        /\ buckets' = buckets /\ answer' = answer
    BY TokenBucketAssumption DEF BucketsOK, Tick
  <1>2. Capacity \in Nat /\ Refill \in Nat /\ MaxTime \in Nat
    BY TokenBucketAssumption
  <1>3. BucketsOK'
    <2>1. \A k \in KeysOf(buckets) : BucketOK(ValueOf(buckets, k))'
      BY <1>1, <1>2 DEF BucketsOK, BucketOK, Bucket
    <2> QED
      BY <1>1, <2>1 DEF BucketsOK
  <1>4. ASSUME NEW k \in Keys
        PROVE  Level(k)' = Eager!AtMostCapacity(Level(k) + Refill)
    <2>1. CASE k \in KeysOf(buckets)
      <3> DEFINE b == ValueOf(buckets, k)
                 pause == now - b.lastRefill
      <3>1. b \in Bucket /\ b.lastRefill <= now
        BY <2>1 DEF BucketsOK, BucketOK
      <3>2. b.tokens \in 0..Capacity /\ b.lastRefill \in 0..MaxTime
        BY <3>1 DEF Bucket
      <3>3. pause \in Nat /\ now' - b.lastRefill = pause + 1
        BY <1>1, <1>2, <3>1, <3>2
      <3>4. Level(k) = AtMost(Capacity, b.tokens + pause * Refill)
        BY <2>1, LevelFacts DEF Tokens
      <3>5. Level(k)' = AtMost(Capacity, b.tokens + (pause + 1) * Refill)
        <4>1. now' > b.lastRefill
          BY <1>1, <1>2, <3>1, <3>2
        <4>2. Has(buckets, k) /\ ValueOf(buckets', k) = b
          BY <1>1, <2>1 DEF Has
        <4> HIDE DEF b, pause
        <4> QED
          BY <1>1, <3>3, <4>1, <4>2 DEF Level, Refilled
      <3> HIDE DEF b, pause
      <3>6. (pause + 1) * Refill = pause * Refill + Refill /\ pause * Refill \in Nat
        BY <1>2, <3>3
      <3> QED
        BY <1>2, <3>2, <3>4, <3>5, <3>6 DEF AtMost, Eager!AtMostCapacity
    <2>2. CASE k \notin KeysOf(buckets)
      BY <1>1, <1>2, <2>2 DEF Level, Has, Eager!AtMostCapacity
    <2> QED
      BY <2>1, <2>2
  <1>5. Levels' = [k \in Keys |-> Eager!AtMostCapacity(Levels[k] + Refill)]
    BY <1>4 DEF Levels
  <1> QED
    BY <1>1, <1>3, <1>5 DEF Eager!Tick, Levels

LEMMA InitRefines == Init => BucketsOK /\ Eager!Init
  <1> SUFFICES ASSUME Init PROVE BucketsOK /\ Eager!Init
    OBVIOUS
  <1>1. now = 0 /\ buckets = EmptyMap /\ answer = NoAnswer
    BY DEF Init
  <1>2. BucketsOK
    BY <1>1, EmptyMapFacts, TokenBucketAssumption DEF BucketsOK
  <1>3. \A k \in Keys : Level(k) = Capacity
    BY <1>1, EmptyMapFacts DEF Level, Has
  <1> QED
    BY <1>1, <1>2, <1>3 DEF Eager!Init

LEMMA NextRefines ==
  ASSUME BucketsOK, [Next]_vars
  PROVE  BucketsOK' /\ [Eager!Next]_(Eager!eagerVars)
  <1>1. ASSUME NEW k \in Keys, NEW cost \in Costs, IsAllowed(k, cost)
        PROVE  BucketsOK' /\ Eager!Next
    BY <1>1, RequestStep DEF Eager!Next
  <1>2. ASSUME NEW k \in Keys, GetStatus(k)
        PROVE  BucketsOK' /\ Eager!Next
    BY <1>2, LookStep DEF Eager!Next
  <1>3. ASSUME NEW k \in Keys, Reset(k)
        PROVE  BucketsOK' /\ Eager!Next
    BY <1>3, ResetStep DEF Eager!Next
  <1>4. CASE ResetAll \/ Destroy
    BY <1>4, EmptyStep DEF ResetAll, Destroy, Eager!Next
  <1>5. CASE Cleanup
    BY <1>5, CleanupStep DEF Cleanup, Levels, Eager!eagerVars
  <1>6. CASE Tick
    BY <1>6, TickStep DEF Eager!Next
  <1>7. CASE UNCHANGED vars
    <2>1. now' = now /\ buckets' = buckets /\ answer' = answer
      BY <1>7 DEF vars
    <2>2. BucketsOK'
      BY <2>1 DEF BucketsOK, BucketOK
    <2>3. \A k \in Keys : Level(k)' = Level(k)
      BY <2>1 DEF Level, Refilled
    <2> QED
      BY <2>1, <2>2, <2>3 DEF Eager!eagerVars
  <1> QED
    BY <1>1, <1>2, <1>3, <1>4, <1>5, <1>6, <1>7 DEF Next

\* Lazy refills, evictions and the cleanup timer are invisible to the clients:
\* every behaviour of the limiter is one of the eager bucket.
THEOREM Refinement == Spec => ImplementsEagerBucket
  <1>1. Init => BucketsOK /\ Eager!Init
    BY InitRefines
  <1>2. BucketsOK /\ [Next]_vars => BucketsOK' /\ [Eager!Next]_(Eager!eagerVars)
    BY NextRefines
  <1> QED
    BY <1>1, <1>2, PTL DEF Spec, ImplementsEagerBucket, Eager!Spec

---------------------------------------------------------------------------
(* The waiting time that a refused client is told is exact.                *)

\* A level that does not cover the cost yet covers it after `wait' ticks of
\* refill, and not a tick earlier.
Exact(level, cost, wait) ==
  IF level >= cost THEN wait <= 0
  ELSE cost - level <= wait * Refill /\ (wait - 1) * Refill < cost - level

PromiseOK(k) ==
  /\ promise[k].cost \in Nat /\ promise[k].at \in Nat
  /\ promise[k].cost \in 1..Capacity =>
       Exact(Level(k), promise[k].cost, promise[k].at - now)

PromiseInv == BucketsOK /\ \A k \in Keys : PromiseOK(k)

LEMMA CeilDivFacts ==
  ASSUME NEW x \in Nat \ {0}, NEW y \in Nat \ {0}
  PROVE  /\ CeilDiv(x, y) \in Nat
         /\ x <= CeilDiv(x, y) * y /\ (CeilDiv(x, y) - 1) * y < x
  <1> DEFINE z == x + y - 1
             q == z \div y
  <1>1. z \in Nat /\ z = y * q + (z % y) /\ (z % y) \in 0..(y - 1) /\ q \in Int
    OBVIOUS
  <1>2. q \in Nat
    BY <1>1
  <1>3. CeilDiv(x, y) = q
    BY DEF CeilDiv
  <1> HIDE DEF q
  <1>4. (q - 1) * y = y * q - y /\ q * y = y * q /\ y * q \in Int
    BY <1>2
  <1> QED
    BY <1>1, <1>2, <1>3, <1>4

\* One tick later: refilled, capped, and with one tick less to wait.
LEMMA ExactTick ==
  ASSUME NEW level \in 0..Capacity, NEW cost \in 1..Capacity, NEW wait \in Int,
         Exact(level, cost, wait)
  PROVE  Exact(Eager!AtMostCapacity(level + Refill), cost, wait - 1)
  <1>1. Capacity \in Nat /\ Refill \in Nat \ {0}
    BY TokenBucketAssumption
  <1> DEFINE later == Eager!AtMostCapacity(level + Refill)
             all == wait * Refill
  <1>2. /\ (wait - 1) * Refill = all - Refill /\ all \in Int
        /\ (wait - 1 - 1) * Refill = all - Refill - Refill
    BY <1>1
  <1>3. CASE level >= cost
    <2>1. later >= cost
      BY <1>1, <1>3 DEF Eager!AtMostCapacity
    <2> QED
      BY <1>3, <2>1 DEF Exact
  <1>4. CASE level < cost
    <2>1. cost - level <= all /\ all - Refill < cost - level
      BY <1>2, <1>4 DEF Exact
    <2>2. CASE later >= cost
      <3>1. level + Refill >= cost
        BY <1>1, <2>2 DEF Eager!AtMostCapacity
      <3>2. all < Refill + Refill
        <4> HIDE DEF all
        <4> QED
          BY <1>1, <1>2, <2>1, <3>1
      <3>3. wait < 2
        <4>1. ASSUME wait >= 2 PROVE all >= Refill + Refill
          BY <1>1, <4>1
        <4> HIDE DEF all
        <4> QED
          BY <1>1, <1>2, <3>2, <4>1
      <3> QED
        BY <2>2, <3>3 DEF Exact
    <2>3. CASE ~(later >= cost)
      <3>1. later = level + Refill
        BY <1>1, <2>3 DEF Eager!AtMostCapacity
      <3> HIDE DEF all
      <3> QED
        BY <1>1, <1>2, <2>1, <2>3, <3>1 DEF Exact
    <2> QED
      BY <2>2, <2>3
  <1> QED
    BY <1>1, <1>3, <1>4

\* The promises of keys whose level did not change, while the clock stood
\* still, and of those that were forgotten.
LEMMA PromiseUntouched ==
  ASSUME NEW k \in Keys, PromiseOK(k), now' = now,
         \/ promise'[k] = NoPromise
         \/ promise'[k] = promise[k] /\ Level(k)' = Level(k)
  PROVE  PromiseOK(k)'
  <1>1. CASE promise'[k] = NoPromise
    BY <1>1, TokenBucketAssumption DEF PromiseOK, NoPromise
  <1>2. CASE promise'[k] = promise[k] /\ Level(k)' = Level(k)
    BY <1>2 DEF PromiseOK
  <1> QED
    BY <1>1, <1>2

LEMMA RequestPromise ==
  ASSUME PromiseInv, NEW k \in Keys, NEW cost \in Costs, IsAllowed(k, cost)
  PROVE  PromiseInv'
  <1>1. /\ BucketsOK' /\ Lost(k) \subseteq Keys \ {k}
        /\ Levels' = [Eager!Filled(Lost(k)) EXCEPT ![k] = Left(k, cost)]
        /\ promise' = [Forgiven(Lost(k)) EXCEPT
                         ![k] = IF Level(k) >= cost THEN NoPromise
                                ELSE [cost |-> cost,
                                      at |-> now + CeilDiv(cost - Level(k), Refill)]]
    BY RequestLevels DEF PromiseInv
  <1>2. now' = now /\ now \in Nat
    BY DEF IsAllowed, PromiseInv, BucketsOK
  <1> DEFINE gone == Lost(k)
             left == Left(k, cost)
             told == IF Level(k) >= cost THEN NoPromise
                     ELSE [cost |-> cost, at |-> now + CeilDiv(cost - Level(k), Refill)]
  <1>3. \A j \in Keys : promise'[j] = IF j = k THEN told
                                      ELSE IF j \in gone THEN NoPromise ELSE promise[j]
    <2>1. promise' = [Forgiven(gone) EXCEPT ![k] = told]
      BY <1>1
    <2> HIDE DEF gone, told
    <2> QED
      BY <2>1 DEF Forgiven
  <1>4. \A j \in Keys : Level(j)' = IF j = k THEN left
                                    ELSE IF j \in gone THEN Capacity ELSE Level(j)
    <2>1. [j \in Keys |-> Level(j)'] = [Eager!Filled(gone) EXCEPT ![k] = left]
      BY <1>1 DEF Levels
    <2> HIDE DEF gone, left
    <2>2. \A j \in Keys : Level(j)' = [Eager!Filled(gone) EXCEPT ![k] = left][j]
      BY <2>1
    <2> QED
      BY <2>2 DEF Eager!Filled
  <1>5. PromiseOK(k)'
    <2>1. CASE Level(k) >= cost
      BY <1>2, <1>3, <2>1, PromiseUntouched DEF PromiseInv
    <2>2. CASE ~(Level(k) >= cost)
      <3> DEFINE wait == CeilDiv(cost - Level(k), Refill)
      <3>1. Level(k) \in Nat /\ cost \in Nat /\ Refill \in Nat \ {0}
        BY LevelFacts, TokenBucketAssumption DEF PromiseInv
      <3>2. /\ wait \in Nat /\ cost - Level(k) <= wait * Refill
            /\ (wait - 1) * Refill < cost - Level(k)
        BY <2>2, <3>1, CeilDivFacts
      <3>3. promise'[k].cost = cost /\ promise'[k].at = now + wait
        BY <1>3, <2>2
      <3>4. Level(k)' = Level(k)
        BY <1>4, <2>2 DEF Left
      <3> HIDE DEF wait
      <3>5. promise'[k].at - now' = wait /\ promise'[k].at \in Nat
        BY <1>2, <3>2, <3>3
      <3> QED
        BY <2>2, <3>1, <3>2, <3>3, <3>4, <3>5 DEF PromiseOK, Exact
    <2> QED
      BY <2>1, <2>2
  <1> HIDE DEF gone, left, told
  <1>6. ASSUME NEW j \in Keys, j # k PROVE PromiseOK(j)'
    BY <1>2, <1>3, <1>4, <1>6, PromiseUntouched DEF PromiseInv
  <1> QED
    BY <1>1, <1>5, <1>6 DEF PromiseInv

LEMMA TickPromise ==
  ASSUME PromiseInv, Tick
  PROVE  PromiseInv'
  <1>1. BucketsOK' /\ Eager!Tick
    BY TickStep DEF PromiseInv
  <1>2. now' = now + 1 /\ now \in Int /\ promise' = promise
    BY DEF Tick, PromiseInv, BucketsOK
  <1>3. ASSUME NEW k \in Keys PROVE PromiseOK(k)'
    <2>1. Level(k)' = Eager!AtMostCapacity(Level(k) + Refill)
      <3>1. [j \in Keys |-> Level(j)'] = [j \in Keys |-> Eager!AtMostCapacity(Levels[j] + Refill)]
        BY <1>1 DEF Eager!Tick, Levels
      <3>2. [j \in Keys |-> Level(j)'][k] = Eager!AtMostCapacity(Levels[k] + Refill)
        BY <3>1
      <3> QED
        BY <3>2 DEF Levels
    <2>2. Level(k) \in 0..Capacity /\ PromiseOK(k)
      BY LevelFacts DEF PromiseInv
    <2>3. ASSUME promise[k].cost \in 1..Capacity
          PROVE  Exact(Level(k)', promise[k].cost, promise[k].at - now - 1)
      <3>1. promise[k].at - now \in Int /\ Exact(Level(k), promise[k].cost, promise[k].at - now)
        BY <1>2, <2>2, <2>3 DEF PromiseOK
      <3> QED
        BY <2>1, <2>2, <2>3, <3>1, ExactTick
    <2>4. promise[k].at - now' = promise[k].at - now - 1
      BY <1>2, <2>2 DEF PromiseOK
    <2> QED
      BY <1>2, <2>2, <2>3, <2>4 DEF PromiseOK
  <1> QED
    BY <1>1, <1>3 DEF PromiseInv

LEMMA NextPromise ==
  ASSUME PromiseInv, [Next]_vars
  PROVE  PromiseInv'
  <1>1. BucketsOK'
    BY NextRefines DEF PromiseInv
  <1>2. ASSUME NEW k \in Keys, NEW cost \in Costs, IsAllowed(k, cost)
        PROVE  PromiseInv'
    BY <1>2, RequestPromise
  <1>3. ASSUME NEW k \in Keys, GetStatus(k), NEW j \in Keys
        PROVE  PromiseOK(j)'
    <2> DEFINE lost == DroppedByGet(buckets, k)
    <2>1. [i \in Keys |-> Level(i)'] = Eager!Filled(lost \cap KeysOf(buckets))
      BY <1>3, LookStep DEF PromiseInv, Levels
    <2>2. promise' = Forgiven(lost) /\ now' = now
      BY <1>3 DEF GetStatus
    <2> HIDE DEF lost
    <2>3. j \in lost => promise'[j] = NoPromise
      BY <2>2 DEF Forgiven
    <2>4. j \notin lost => promise'[j] = promise[j]
      BY <2>2 DEF Forgiven
    <2>5. j \notin lost => Level(j)' = Level(j)
      <3>1. [i \in Keys |-> Level(i)'][j] = Eager!Filled(lost \cap KeysOf(buckets))[j]
        BY <2>1
      <3> QED
        BY <3>1 DEF Eager!Filled
    <2> QED
      BY <2>2, <2>3, <2>4, <2>5, PromiseUntouched DEF PromiseInv
  <1>4. ASSUME NEW k \in Keys, Reset(k), NEW j \in Keys
        PROVE  PromiseOK(j)'
    <2>1. [i \in Keys |-> Level(i)'] = Eager!Filled({k})
      BY <1>4, ResetStep DEF PromiseInv, Eager!Reset, Levels
    <2>2. promise' = Forgiven({k}) /\ now' = now
      BY <1>4 DEF Reset
    <2>3. [i \in Keys |-> Level(i)'][j] = Eager!Filled({k})[j]
      BY <2>1
    <2>4. j # k => Level(j)' = Level(j) /\ promise'[j] = promise[j]
      BY <2>2, <2>3 DEF Eager!Filled, Forgiven
    <2>5. promise'[k] = NoPromise
      BY <2>2 DEF Forgiven
    <2> QED
      BY <2>2, <2>4, <2>5, PromiseUntouched DEF PromiseInv
  <1>5. ASSUME ResetAll \/ Destroy, NEW j \in Keys
        PROVE  PromiseOK(j)'
    BY <1>5, PromiseUntouched DEF PromiseInv, ResetAll, Destroy, Forgiven
  <1>6. ASSUME Cleanup, NEW j \in Keys
        PROVE  PromiseOK(j)'
    <2>1. [i \in Keys |-> Level(i)'] = Levels
      BY <1>6, CleanupStep DEF PromiseInv, Levels
    <2>2. [i \in Keys |-> Level(i)'][j] = Levels[j]
      BY <2>1
    <2>3. Level(j)' = Level(j)
      BY <2>2 DEF Levels
    <2> QED
      BY <1>6, <2>3, PromiseUntouched DEF PromiseInv, Cleanup
  <1>7. CASE Tick
    BY <1>7, TickPromise
  <1>8. ASSUME UNCHANGED vars, NEW j \in Keys
        PROVE  PromiseOK(j)'
    <2>1. now' = now /\ buckets' = buckets /\ promise' = promise
      BY <1>8 DEF vars
    <2>2. Level(j)' = Level(j)
      BY <2>1 DEF Level, Refilled
    <2> QED
      BY <2>1, <2>2, PromiseUntouched DEF PromiseInv
  <1> QED
    BY <1>1, <1>2, <1>3, <1>4, <1>5, <1>6, <1>7, <1>8 DEF Next, PromiseInv

LEMMA InitPromise == Init => PromiseInv
  <1> SUFFICES ASSUME Init PROVE PromiseInv
    OBVIOUS
  <1>1. BucketsOK
    BY InitRefines
  <1>2. \A k \in Keys : promise[k] = NoPromise
    BY DEF Init
  <1>3. \A k \in Keys : PromiseOK(k)
    BY <1>2, TokenBucketAssumption DEF PromiseOK, NoPromise
  <1> QED
    BY <1>1, <1>3 DEF PromiseInv

\* A client that is refused and waits for its retryAfterMs is allowed the same
\* cost, and refused again before that, whatever others do and the timer
\* deletes meanwhile.
THEOREM RetryAfter == Spec => RetryAfterIsExact
  <1>1. PromiseInv /\ [Next]_vars =>
          [\A k \in Keys, cost \in Costs :
             /\ IsAllowed(k, cost)
             /\ promise[k].cost = cost
             /\ cost <= Capacity
             => (now >= promise[k].at <=> answer'.allowed)]_vars
    <2> SUFFICES ASSUME PromiseInv, NEW k \in Keys, NEW cost \in Costs,
                        IsAllowed(k, cost), promise[k].cost = cost, cost <= Capacity
                 PROVE  now >= promise[k].at <=> answer'.allowed
      OBVIOUS
    <2>1. /\ BucketsOK /\ PromiseOK(k) /\ now \in Int /\ Level(k) \in Nat
          /\ cost \in Nat \ {0} /\ Refill \in Nat \ {0} /\ Capacity \in Nat
      BY LevelFacts, TokenBucketAssumption DEF PromiseInv, BucketsOK
    <2>2. answer'.allowed = (Level(k) >= cost)
      BY <2>1, RequestLevels
    <2>3. promise[k].at \in Nat /\ Exact(Level(k), cost, promise[k].at - now)
      BY <2>1 DEF PromiseOK
    <2> DEFINE wait == promise[k].at - now
    <2>4. wait \in Int /\ (now >= promise[k].at <=> wait <= 0)
      BY <2>1, <2>3
    <2>5. CASE Level(k) >= cost
      BY <2>2, <2>3, <2>4, <2>5 DEF Exact
    <2>6. CASE Level(k) < cost
      <3>1. cost - Level(k) <= wait * Refill
        BY <2>1, <2>3, <2>6 DEF Exact
      <3> HIDE DEF wait
      <3>2. wait <= 0 => wait * Refill <= 0
        BY <2>1, <2>4
      <3>3. wait * Refill \in Int
        BY <2>1, <2>4
      <3>4. ~(wait <= 0)
        <4> DEFINE refilled == wait * Refill
        <4>1. cost - Level(k) <= refilled /\ refilled \in Int /\ (wait <= 0 => refilled <= 0)
          BY <3>1, <3>2, <3>3
        <4> HIDE DEF refilled
        <4> QED
          BY <2>1, <2>6, <4>1
      <3>5. ~(Level(k) >= cost)
        BY <2>1, <2>6
      <3>6. ~answer'.allowed
        BY <2>2, <3>5
      <3> QED
        BY <2>4, <3>4, <3>6
    <2> QED
      BY <2>1, <2>5, <2>6
  <1> QED
    BY <1>1, InitPromise, NextPromise, PTL DEF Spec, RetryAfterIsExact

---------------------------------------------------------------------------
(* SlidingWindow: no window holds more than its limit, and the wait that a *)
(* refused client is told is exact.                                        *)

\* A set of natural numbers has a least one.
LEMMA LeastOf ==
  ASSUME NEW T \in SUBSET Nat, T # {}
  PROVE  \E x \in T : \A y \in T : x <= y
  <1>1. PICK x \in T : \A y \in T : <<y, x>> \notin OpToRel(<, Nat)
    BY NatLessThanWellFounded, WFMin
  <1>2. \A y \in T : ~(y < x)
    BY <1>1 DEF OpToRel
  <1> QED
    BY <1>2

\* What a key has: nothing, when it is not in the map.
Stamps(k) == IF Has(windows, k) THEN ValueOf(windows, k) ELSE <<>>

\* Timestamps are in the order of the requests, no more than the limit.
StampsOK(stamps, t) ==
  /\ stamps \in Seq(Nat) /\ Len(stamps) <= MaxRequests
  /\ \A i \in 1..Len(stamps) : stamps[i] \in 1..t
  /\ \A i, j \in 1..Len(stamps) : i <= j => stamps[i] <= stamps[j]

\* What the history should be, from the timestamps.
GrantsOf(stamps, t) ==
  [n \in 1..MaxRequests + 1 |->
     IF n <= Len(stamps) /\ stamps[Len(stamps) + 1 - n] > t - WindowSize
     THEN stamps[Len(stamps) + 1 - n] ELSE NotInWindow]

(* A client that was told to come back is full until then, or was swept    *)
(* after that.                                                             *)
ComebackOK(stamps, at, t) ==
  \/ at = Anytime
  \/ Len(stamps) = MaxRequests /\ at = stamps[1] + WindowSize
  \/ stamps = <<>> /\ at \in Nat /\ t >= at

ClientOK(k) ==
  /\ StampsOK(Stamps(k), clock)
  /\ granted[k] = GrantsOf(Stamps(k), clock)
  /\ ComebackOK(Stamps(k), comeback[k], clock)

(* The inductive invariant: pruning, sweeping and the map leave a key the  *)
(* timestamps that its history shows.                                      *)
WindowInv ==
  /\ clock \in Nat \ {0}
  /\ IsMap(windows) /\ KeysOf(windows) \subseteq Clients
  /\ DOMAIN granted = Clients /\ DOMAIN comeback = Clients
  /\ \A k \in Clients : ClientOK(k)

LEMMA WindowConstants ==
  MaxRequests \in Nat \ {0} /\ WindowSize \in Nat \ {0}
  BY SlidingWindowAssumption

LEMMA NoStamps ==
  ASSUME NEW t \in Nat
  PROVE  /\ StampsOK(<<>>, t) /\ GrantsOf(<<>>, t) = NoneGranted
         /\ ComebackOK(<<>>, Anytime, t)
  <1>1. <<>> \in Seq(Nat) /\ Len(<<>>) = 0
    OBVIOUS
  <1>2. \A n \in 1..MaxRequests + 1 : ~(n <= Len(<<>>))
    BY <1>1, WindowConstants
  <1>3. GrantsOf(<<>>, t) = NoneGranted
    BY <1>2 DEF GrantsOf, NoneGranted
  <1>4. StampsOK(<<>>, t)
    BY <1>1, WindowConstants DEF StampsOK
  <1> QED
    BY <1>3, <1>4 DEF ComebackOK

\* Pruning takes what has left the window, and nothing else.
LEMMA PrunedFacts ==
  ASSUME clock \in Nat \ {0}, NEW stamps, StampsOK(stamps, clock)
  PROVE  /\ StampsOK(Pruned(stamps), clock)
         /\ GrantsOf(Pruned(stamps), clock) = GrantsOf(stamps, clock)
         /\ \A i \in 1..Len(Pruned(stamps)) : InWindow(Pruned(stamps)[i])
         /\ Len(stamps) = MaxRequests =>
              (Len(Pruned(stamps)) = MaxRequests <=> clock < stamps[1] + WindowSize)
  <1> DEFINE live == {i \in DOMAIN stamps : InWindow(stamps[i])}
             L == Len(stamps)
             p == Pruned(stamps)
  <1>1. /\ L \in Nat /\ stamps \in Seq(Nat) /\ L <= MaxRequests /\ DOMAIN stamps = 1..L
        /\ \A i \in 1..L : stamps[i] \in 1..clock
        /\ \A i, j \in 1..L : i <= j => stamps[i] <= stamps[j]
    BY DEF StampsOK
  <1>2. CASE live = {}
    <2>1. p = <<>>
      BY <1>2 DEF Pruned
    <2>2. \A i \in 1..L : ~(stamps[i] > clock - WindowSize)
      BY <1>1, <1>2 DEF InWindow
    <2>3. GrantsOf(stamps, clock) = NoneGranted
      <3>1. \A n \in 1..MaxRequests + 1 :
              ~(n <= Len(stamps) /\ stamps[Len(stamps) + 1 - n] > clock - WindowSize)
        BY <1>1, <2>2, WindowConstants
      <3> QED
        BY <3>1 DEF GrantsOf, NoneGranted
    <2>4. L = MaxRequests => ~(clock < stamps[1] + WindowSize)
      <3>1. L = MaxRequests => 1 \in 1..L /\ stamps[1] \in Nat
        BY <1>1, WindowConstants
      <3> QED
        BY <1>1, <2>2, <3>1, WindowConstants
    <2>5. Len(<<>>) = 0
      OBVIOUS
    <2>6. clock \in Nat /\ StampsOK(<<>>, clock) /\ GrantsOf(<<>>, clock) = NoneGranted
      BY NoStamps
    <2>7. ~(Len(p) = MaxRequests) /\ \A i \in 1..Len(p) : InWindow(p[i])
      BY <2>1, <2>5, WindowConstants
    <2> HIDE DEF p
    <2>8. /\ StampsOK(p, clock) /\ GrantsOf(p, clock) = GrantsOf(stamps, clock)
          /\ \A i \in 1..Len(p) : InWindow(p[i])
          /\ L = MaxRequests => (Len(p) = MaxRequests <=> clock < stamps[1] + WindowSize)
      BY <2>1, <2>3, <2>4, <2>6, <2>7
    <2> QED
      BY <2>8 DEF p
  <1>3. CASE live # {}
    <2> DEFINE first == CHOOSE i \in live : \A j \in live : i <= j
    <2>1. first \in live /\ \A j \in live : first <= j
      <3>1. live \subseteq Nat
        BY <1>1
      <3>2. \E i \in live : \A j \in live : i <= j
        BY <1>3, <3>1, LeastOf
      <3> QED
        BY <3>2
    <2>2. p = SubSeq(stamps, first, L)
      BY <1>3 DEF Pruned
    <2>3. /\ first \in 1..L
          /\ \A i \in first..L : InWindow(stamps[i])
          /\ \A i \in 1..first - 1 : ~InWindow(stamps[i])
      <3>1. first \in 1..L /\ InWindow(stamps[first])
        BY <1>1, <2>1
      <3>2. ASSUME NEW i \in first..L
            PROVE  InWindow(stamps[i])
        <4>1. i \in 1..L /\ stamps[first] <= stamps[i] /\ stamps[i] \in Nat /\ stamps[first] \in Nat
          BY <1>1, <3>1, <3>2
        <4> QED
          BY <3>1, <4>1, WindowConstants DEF InWindow
      <3>3. ASSUME NEW i \in 1..first - 1
            PROVE  ~InWindow(stamps[i])
        <4>1. i \in 1..L /\ ~(first <= i)
          BY <1>1, <3>1, <3>3
        <4> QED
          BY <1>1, <2>1, <4>1
      <3> QED
        BY <3>1, <3>2, <3>3
    <2> HIDE DEF first, live
    <2>4. /\ p \in Seq(Nat) /\ Len(p) = L - first + 1
          /\ \A i \in 1..L - first + 1 : p[i] = stamps[first + i - 1]
      BY <1>1, <2>2, <2>3
    <2> HIDE DEF p
    <2>5. StampsOK(p, clock)
      <3>1. \A i \in 1..Len(p) : first + i - 1 \in 1..L
        BY <1>1, <2>3, <2>4
      <3>2. \A i \in 1..Len(p) : p[i] = stamps[first + i - 1] /\ p[i] \in 1..clock
        BY <1>1, <2>4, <3>1
      <3>3. ASSUME NEW i \in 1..Len(p), NEW j \in 1..Len(p), i <= j
            PROVE  p[i] <= p[j]
        <4>1. first + i - 1 <= first + j - 1
          BY <2>3, <2>4, <3>3
        <4> QED
          BY <1>1, <3>1, <3>2, <4>1
      <3>4. Len(p) <= MaxRequests
        BY <1>1, <2>3, <2>4, WindowConstants
      <3> QED
        BY <2>4, <3>2, <3>3, <3>4 DEF StampsOK
    <2>6. ASSUME NEW n \in 1..MaxRequests + 1
          PROVE  GrantsOf(p, clock)[n] = GrantsOf(stamps, clock)[n]
      <3> DEFINE i == L + 1 - n
      <3>1. /\ GrantsOf(p, clock)[n] =
                 IF n <= Len(p) /\ p[Len(p) + 1 - n] > clock - WindowSize
                 THEN p[Len(p) + 1 - n] ELSE NotInWindow
            /\ GrantsOf(stamps, clock)[n] =
                 IF n <= L /\ stamps[i] > clock - WindowSize THEN stamps[i] ELSE NotInWindow
        BY DEF GrantsOf
      <3>2. n \in Nat \ {0} /\ first \in Nat /\ first >= 1 /\ i \in Int
        BY <1>1, <2>3, WindowConstants
      <3>3. CASE n <= Len(p)
        <4>0. Len(p) = L - first + 1 /\ L \in Nat
          BY <1>1, <2>4
        <4>1. /\ Len(p) + 1 - n \in 1..L - first + 1 /\ first + (Len(p) + 1 - n) - 1 = i
              /\ n <= L
          BY <3>2, <3>3, <4>0
        <4>2. p[Len(p) + 1 - n] = stamps[i]
          BY <2>4, <4>1
        <4> QED
          BY <3>1, <3>3, <4>1, <4>2
      <3>4. CASE ~(n <= Len(p)) /\ n <= L
        <4>1. i \in 1..first - 1
          BY <1>1, <2>4, <3>2, <3>4
        <4>2. ~(stamps[i] > clock - WindowSize)
          BY <2>3, <4>1 DEF InWindow
        <4> QED
          BY <3>1, <3>4, <4>2
      <3>5. CASE ~(n <= Len(p)) /\ ~(n <= L)
        BY <3>1, <3>5
      <3> QED
        BY <3>3, <3>4, <3>5
    <2>7. GrantsOf(p, clock) = GrantsOf(stamps, clock)
      BY <2>6 DEF GrantsOf
    <2>8. ASSUME NEW i \in 1..Len(p)
          PROVE  InWindow(p[i])
      <3>1. first + i - 1 \in first..L /\ p[i] = stamps[first + i - 1]
        BY <1>1, <2>3, <2>4, <2>8
      <3> QED
        BY <2>3, <3>1
    <2>9. ASSUME L = MaxRequests
          PROVE  Len(p) = MaxRequests <=> clock < stamps[1] + WindowSize
      <3>1. 1 \in 1..L /\ stamps[1] \in Nat
        BY <1>1, <2>9, WindowConstants
      <3>2. InWindow(stamps[1]) <=> clock < stamps[1] + WindowSize
        BY <3>1, WindowConstants DEF InWindow
      <3>3. Len(p) = MaxRequests <=> first = 1
        BY <1>1, <2>3, <2>4, <2>9
      <3>4. first = 1 => 1 \in first..L
        BY <1>1, <3>1
      <3>5. first # 1 => 1 \in 1..first - 1
        BY <1>1, <2>3
      <3> QED
        BY <2>3, <3>2, <3>3, <3>4, <3>5
    <2> QED
      BY <2>5, <2>7, <2>8, <2>9 DEF p
  <1> QED
    BY <1>2, <1>3

\* A request that is allowed is the newest one, the others move on by one.
LEMMA AllowedFacts ==
  ASSUME clock \in Nat \ {0}, NEW stamps, StampsOK(stamps, clock),
         Len(stamps) < MaxRequests
  PROVE  /\ StampsOK(Append(stamps, clock), clock)
         /\ GrantsOf(Append(stamps, clock), clock) = Noting(GrantsOf(stamps, clock))
  <1> DEFINE L == Len(stamps)
             g == Append(stamps, clock)
             all == 1..MaxRequests + 1
  <1>1. /\ L \in Nat /\ stamps \in Seq(Nat)
        /\ \A i \in 1..L : stamps[i] \in 1..clock
        /\ \A i, j \in 1..L : i <= j => stamps[i] <= stamps[j]
    BY DEF StampsOK
  <1>2. /\ g \in Seq(Nat) /\ Len(g) = L + 1 /\ g[L + 1] = clock
        /\ \A i \in 1..L : g[i] = stamps[i]
    BY <1>1
  <1> HIDE DEF g
  <1>3. StampsOK(g, clock)
    <2>1. /\ \A i \in 1..L + 1 : i = L + 1 \/ i \in 1..L
          /\ L + 1 <= MaxRequests /\ clock \in 1..clock
      BY <1>1, WindowConstants
    <2>2. \A i \in 1..L + 1 : g[i] \in 1..clock
      BY <1>1, <1>2, <2>1
    <2>3. \A i, j \in 1..L + 1 : i <= j => g[i] <= g[j]
      <3> SUFFICES ASSUME NEW i \in 1..L + 1, NEW j \in 1..L + 1, i <= j
                   PROVE  g[i] <= g[j]
        OBVIOUS
      <3>1. CASE j = L + 1
        BY <1>2, <2>2, <3>1
      <3>2. CASE j # L + 1
        <4>1. i \in 1..L /\ j \in 1..L
          BY <1>1, <3>2
        <4> QED
          BY <1>1, <1>2, <4>1
      <3> QED
        BY <3>1, <3>2
    <2> QED
      BY <1>2, <2>1, <2>2, <2>3 DEF StampsOK
  <1>4. ASSUME NEW n \in all
        PROVE  GrantsOf(g, clock)[n] = Noting(GrantsOf(stamps, clock))[n]
    <2>1. GrantsOf(g, clock)[n] =
            IF n <= L + 1 /\ g[L + 1 + 1 - n] > clock - WindowSize
            THEN g[L + 1 + 1 - n] ELSE NotInWindow
      BY <1>2 DEF GrantsOf
    <2>2. CASE n = 1
      <3>1. Noting(GrantsOf(stamps, clock))[n] = clock
        BY <2>2 DEF Noting
      <3>2. L + 1 + 1 - n = L + 1 /\ n <= L + 1 /\ clock > clock - WindowSize
        BY <1>1, <2>2, WindowConstants
      <3> QED
        BY <1>2, <2>1, <3>1, <3>2
    <2>3. CASE n # 1
      <3>1. n \in Nat /\ n > 1 /\ n - 1 \in all /\ L + 1 + 1 - n = L + 1 - (n - 1)
        BY <1>1, <2>3, WindowConstants
      <3>2. Noting(GrantsOf(stamps, clock))[n] = GrantsOf(stamps, clock)[n - 1]
        BY <2>3 DEF Noting
      <3>3. GrantsOf(stamps, clock)[n - 1] =
              IF n - 1 <= L /\ stamps[L + 1 - (n - 1)] > clock - WindowSize
              THEN stamps[L + 1 - (n - 1)] ELSE NotInWindow
        BY <3>1 DEF GrantsOf
      <3>4. n <= L + 1 <=> n - 1 <= L
        BY <1>1, <3>1
      <3>5. ASSUME n <= L + 1
            PROVE  g[L + 1 - (n - 1)] = stamps[L + 1 - (n - 1)]
        <4>1. L + 1 - (n - 1) \in 1..L
          BY <1>1, <3>1, <3>5
        <4> QED
          BY <1>2, <4>1
      <3> QED
        BY <2>1, <3>1, <3>2, <3>3, <3>4, <3>5
    <2> QED
      BY <2>2, <2>3
  <1>5. /\ GrantsOf(g, clock) = [n \in all |-> GrantsOf(g, clock)[n]]
        /\ Noting(GrantsOf(stamps, clock)) = [n \in all |-> Noting(GrantsOf(stamps, clock))[n]]
    BY DEF GrantsOf, Noting
  <1> QED
    BY <1>3, <1>4, <1>5 DEF g

\* What the history shows as time passes.
LEMMA FadingFacts ==
  ASSUME NEW t \in Nat, NEW u \in Nat, u >= t, NEW stamps \in Seq(Nat)
  PROVE  GrantsOf(stamps, u) = Fading(GrantsOf(stamps, t), u)
  <1> DEFINE all == 1..MaxRequests + 1
  <1>1. ASSUME NEW n \in all
        PROVE  GrantsOf(stamps, u)[n] = Fading(GrantsOf(stamps, t), u)[n]
    <2> DEFINE there == n <= Len(stamps)
               nth == stamps[Len(stamps) + 1 - n]
               shown == GrantsOf(stamps, t)
    <2>1. shown[n] = IF there /\ nth > t - WindowSize THEN nth ELSE NotInWindow
      BY DEF GrantsOf
    <2>2. GrantsOf(stamps, u)[n] = IF there /\ nth > u - WindowSize THEN nth ELSE NotInWindow
      BY DEF GrantsOf
    <2>3. there => nth \in Nat
      BY WindowConstants
    <2> HIDE DEF there, nth, shown
    <2>4. Fading(shown, u)[n] = IF shown[n] > u - WindowSize THEN shown[n] ELSE NotInWindow
      BY DEF Fading
    <2>5. GrantsOf(stamps, u)[n] = Fading(shown, u)[n]
      BY <2>1, <2>2, <2>3, <2>4, WindowConstants DEF NotInWindow
    <2> QED
      BY <2>5 DEF shown
  <1>2. /\ GrantsOf(stamps, u) = [n \in all |-> GrantsOf(stamps, u)[n]]
        /\ Fading(GrantsOf(stamps, t), u) = [n \in all |-> Fading(GrantsOf(stamps, t), u)[n]]
    BY DEF GrantsOf, Fading
  <1> QED
    BY <1>1, <1>2

\* A step leaves a key alone, or drops it together with its history.
Keeps(k) ==
  /\ Stamps(k)' = Stamps(k)
  /\ granted'[k] = granted[k] /\ comeback'[k] = comeback[k]
Drops(k) ==
  /\ Stamps(k)' = <<>>
  /\ granted'[k] = NoneGranted /\ comeback'[k] = Anytime

LEMMA KeptOrDropped ==
  ASSUME WindowInv, NEW k \in Clients, clock' = clock, Keeps(k) \/ Drops(k)
  PROVE  ClientOK(k)'
  <1>1. CASE Keeps(k)
    BY <1>1 DEF Keeps, WindowInv, ClientOK
  <1>2. CASE Drops(k)
    BY <1>2, NoStamps DEF Drops, WindowInv, ClientOK
  <1> QED
    BY <1>1, <1>2

\* A use of the map drops some keys.
LEMMA MapUse ==
  ASSUME WindowInv, NEW lost \in SUBSET KeysOf(windows), NEW k \in Clients, k \notin lost,
         KeysOf(windows') \ {k} = KeysOf(windows) \ (lost \cup {k}),
         \A j \in KeysOf(windows') \ {k} : ValueOf(windows', j) = ValueOf(windows, j),
         \A j \in Clients \ {k} :
           /\ granted'[j] = Forgetting(lost, granted, NoneGranted)[j]
           /\ comeback'[j] = Forgetting(lost, comeback, Anytime)[j]
  PROVE  \A j \in Clients \ {k} : Keeps(j) \/ Drops(j)
  <1> SUFFICES ASSUME NEW j \in Clients \ {k} PROVE Keeps(j) \/ Drops(j)
    OBVIOUS
  <1>1. CASE j \in lost
    BY <1>1 DEF Drops, Stamps, Has, Forgetting
  <1>2. CASE j \notin lost
    <2>1. Has(windows, j) <=> Has(windows', j)
      BY <1>2 DEF Has
    <2> QED
      BY <1>2, <2>1 DEF Keeps, Stamps, Has, Forgetting
  <1> QED
    BY <1>1, <1>2

LEMMA RequestFacts ==
  ASSUME WindowInv, NEW k \in Clients, IsAllowedInWindow(k)
  PROVE  LET p == Pruned(Stamps(k))
             allowed == Len(p) < MaxRequests
         IN  /\ IsMap(windows') /\ KeysOf(windows') \subseteq Clients /\ clock' = clock
             /\ DOMAIN granted' = Clients /\ DOMAIN comeback' = Clients
             /\ Stamps(k)' = (IF allowed THEN Append(p, clock) ELSE p)
             /\ granted'[k] = IF allowed THEN Noting(granted[k]) ELSE granted[k]
             /\ comeback'[k] = IF allowed THEN Anytime ELSE p[1] + WindowSize
             /\ \A j \in Clients \ {k} : Keeps(j) \/ Drops(j)
  <1> DEFINE known == Has(windows, k)
             stored == IF known THEN AfterGet(windows, k)
                       ELSE AfterSet(AfterGet(windows, k), k, <<>>)
             lost == IF known THEN DroppedByGet(windows, k) ELSE DroppedBySet(windows, k)
             p == Pruned(Stamps(k))
             allowed == Len(p) < MaxRequests
             kept == IF allowed THEN Append(p, clock) ELSE p
             old == Forgetting(lost, granted, NoneGranted)
             free == Forgetting(lost, comeback, Anytime)
  <1>1. IsMap(windows) /\ KeysOf(windows) \subseteq Clients
    BY DEF WindowInv
  <1>2. /\ IsMap(stored) /\ k \notin lost /\ lost \subseteq KeysOf(windows)
        /\ KeysOf(stored) = (KeysOf(windows) \ lost) \cup {k}
        /\ ValueOf(stored, k) = Stamps(k)
        /\ \A j \in KeysOf(stored) \ {k} : ValueOf(stored, j) = ValueOf(windows, j)
    <2>1. CASE known
      BY <1>1, <2>1, AfterGetFacts DEF SameEntries, Has, Stamps
    <2>2. CASE ~known
      <3>1. AfterGet(windows, k) = windows
        BY <2>2 DEF AfterGet, Promotes, Has, KeysOf
      <3>2. k \notin KeysOf(windows) /\ Stamps(k) = <<>>
        BY <2>2 DEF Has, Stamps
      <3>3. stored = AfterSet(windows, k, <<>>) /\ lost = DroppedBySet(windows, k)
        BY <2>2, <3>1
      <3> HIDE DEF known, lost, stored
      <3> QED
        BY <1>1, <3>2, <3>3, AfterSetFacts
    <2> QED
      BY <2>1, <2>2
  <1>3. /\ windows' = Mutate(stored, k, IF Len(Pruned(ValueOf(stored, k))) < MaxRequests
                                        THEN Append(Pruned(ValueOf(stored, k)), clock)
                                        ELSE Pruned(ValueOf(stored, k)))
        /\ granted' = (IF Len(Pruned(ValueOf(stored, k))) < MaxRequests
                       THEN [old EXCEPT ![k] = Noting(@)] ELSE old)
        /\ comeback' = [free EXCEPT ![k] =
                          IF Len(Pruned(ValueOf(stored, k))) < MaxRequests THEN Anytime
                          ELSE (IF Len(Pruned(ValueOf(stored, k))) < MaxRequests
                                THEN Append(Pruned(ValueOf(stored, k)), clock)
                                ELSE Pruned(ValueOf(stored, k)))[1] + WindowSize]
        /\ clock' = clock
    BY Zenon DEF IsAllowedInWindow
  <1> HIDE DEF stored, lost
  <1>4. windows' = Mutate(stored, k, kept)
    BY <1>2, <1>3
  <1>5. granted' = IF allowed THEN [old EXCEPT ![k] = Noting(@)] ELSE old
    BY <1>2, <1>3
  <1>6. comeback' = [free EXCEPT ![k] = IF allowed THEN Anytime ELSE p[1] + WindowSize]
    BY <1>2, <1>3
  <1> HIDE DEF kept, allowed, p
  <1>7. /\ IsMap(windows') /\ KeysOf(windows') = (KeysOf(windows) \ lost) \cup {k}
        /\ ValueOf(windows', k) = kept
        /\ \A j \in KeysOf(windows') \ {k} : ValueOf(windows', j) = ValueOf(windows, j)
    BY <1>2, <1>4, MutateFacts
  <1>8. Stamps(k)' = kept
    BY <1>7 DEF Stamps, Has
  <1>9. /\ DOMAIN old = Clients /\ old[k] = granted[k]
        /\ DOMAIN free = Clients
    BY <1>2 DEF Forgetting
  <1> HIDE DEF old, free
  <1>10. /\ DOMAIN granted' = Clients
         /\ granted'[k] = IF allowed THEN Noting(granted[k]) ELSE granted[k]
         /\ \A j \in Clients \ {k} : granted'[j] = old[j]
    BY <1>5, <1>9
  <1>11. /\ DOMAIN comeback' = Clients
         /\ comeback'[k] = IF allowed THEN Anytime ELSE p[1] + WindowSize
         /\ \A j \in Clients \ {k} : comeback'[j] = free[j]
    BY <1>6, <1>9
  <1>12. \A j \in Clients \ {k} : Keeps(j) \/ Drops(j)
    BY <1>2, <1>7, <1>10, <1>11, MapUse DEF old, free
  <1> QED
    BY <1>1, <1>2, <1>3, <1>7, <1>8, <1>10, <1>11, <1>12 DEF kept, allowed, p

LEMMA RequestKeepsWindow ==
  ASSUME WindowInv, NEW k \in Clients, IsAllowedInWindow(k)
  PROVE  WindowInv'
  <1> DEFINE p == Pruned(Stamps(k))
             allowed == Len(p) < MaxRequests
  <1>1. /\ IsMap(windows') /\ KeysOf(windows') \subseteq Clients /\ clock' = clock
        /\ DOMAIN granted' = Clients /\ DOMAIN comeback' = Clients
        /\ Stamps(k)' = (IF allowed THEN Append(p, clock) ELSE p)
        /\ granted'[k] = IF allowed THEN Noting(granted[k]) ELSE granted[k]
        /\ comeback'[k] = IF allowed THEN Anytime ELSE p[1] + WindowSize
        /\ \A j \in Clients \ {k} : Keeps(j) \/ Drops(j)
    BY RequestFacts
  <1>2. clock \in Nat \ {0} /\ StampsOK(Stamps(k), clock)
        /\ granted[k] = GrantsOf(Stamps(k), clock)
    BY DEF WindowInv, ClientOK
  <1>3. StampsOK(p, clock) /\ GrantsOf(p, clock) = granted[k]
    BY <1>2, PrunedFacts
  <1>4. Len(p) \in Nat /\ Len(p) <= MaxRequests
    BY <1>3 DEF StampsOK
  <1> HIDE DEF p
  <1>5. ClientOK(k)'
    <2>1. CASE allowed
      <3>1. Stamps(k)' = Append(p, clock) /\ granted'[k] = Noting(granted[k])
            /\ comeback'[k] = Anytime
        BY <1>1, <2>1
      <3>2. /\ StampsOK(Append(p, clock), clock)
            /\ GrantsOf(Append(p, clock), clock) = Noting(granted[k])
        BY <1>2, <1>3, <2>1, AllowedFacts
      <3> QED
        BY <1>1, <3>1, <3>2 DEF ClientOK, ComebackOK
    <2>2. CASE ~allowed
      <3>1. Stamps(k)' = p /\ granted'[k] = granted[k] /\ comeback'[k] = p[1] + WindowSize
        BY <1>1, <2>2
      <3>2. Len(p) = MaxRequests
        BY <1>4, <2>2, WindowConstants
      <3> QED
        BY <1>1, <1>3, <3>1, <3>2 DEF ClientOK, ComebackOK
    <2> QED
      BY <2>1, <2>2
  <1>6. \A j \in Clients \ {k} : ClientOK(j)'
    BY <1>1, KeptOrDropped
  <1> QED
    BY <1>1, <1>2, <1>5, <1>6 DEF WindowInv

LEMMA CountKeepsWindow ==
  ASSUME WindowInv, NEW k \in Clients, GetCurrentCount(k)
  PROVE  WindowInv' /\ \A j \in Clients : Keeps(j) \/ Drops(j)
  <1> DEFINE lost == DroppedByGet(windows, k)
  <1>1. /\ IsMap(windows') /\ k \notin lost /\ lost \subseteq KeysOf(windows)
        /\ KeysOf(windows') = KeysOf(windows) \ lost
        /\ \A j \in KeysOf(windows') : ValueOf(windows', j) = ValueOf(windows, j)
    BY AfterGetFacts DEF GetCurrentCount, SameEntries, WindowInv
  <1>2. /\ granted' = Forgetting(lost, granted, NoneGranted)
        /\ comeback' = Forgetting(lost, comeback, Anytime) /\ clock' = clock
    BY DEF GetCurrentCount
  <1> HIDE DEF lost
  <1>3. \A j \in Clients \ {k} : Keeps(j) \/ Drops(j)
    BY <1>1, <1>2, MapUse
  <1>4. Keeps(k)
    <2>1. Has(windows, k) <=> Has(windows', k)
      BY <1>1 DEF Has
    <2> QED
      BY <1>1, <1>2, <2>1 DEF Keeps, Stamps, Has, Forgetting
  <1>5. \A j \in Clients : ClientOK(j)'
    BY <1>2, <1>3, <1>4, KeptOrDropped
  <1>6. DOMAIN granted' = Clients /\ DOMAIN comeback' = Clients
    BY <1>2 DEF Forgetting
  <1>7. KeysOf(windows') \subseteq Clients /\ clock' \in Nat \ {0}
    BY <1>1, <1>2 DEF WindowInv
  <1> QED
    BY <1>1, <1>3, <1>4, <1>5, <1>6, <1>7 DEF WindowInv

LEMMA ResetKeepsWindow ==
  ASSUME WindowInv, NEW k \in Clients, ResetWindow(k)
  PROVE  WindowInv' /\ \A j \in Clients : Keeps(j) \/ Drops(j)
  <1>1. IsMap(windows') /\ SameEntries(windows, windows', KeysOf(windows) \ {k})
    BY AfterDeleteFacts DEF ResetWindow, WindowInv
  <1>2. /\ granted' = [granted EXCEPT ![k] = NoneGranted]
        /\ comeback' = [comeback EXCEPT ![k] = Anytime] /\ clock' = clock
        /\ DOMAIN granted = Clients /\ DOMAIN comeback = Clients
    BY DEF ResetWindow, WindowInv
  <1>3. Drops(k)
    BY <1>1, <1>2 DEF Drops, Stamps, Has, SameEntries
  <1>4. ASSUME NEW j \in Clients \ {k}
        PROVE  Keeps(j)
    <2>1. Has(windows, j) <=> Has(windows', j)
      BY <1>1 DEF Has, SameEntries
    <2> QED
      BY <1>1, <1>2, <2>1 DEF Keeps, Stamps, Has, SameEntries
  <1>5. \A j \in Clients : ClientOK(j)'
    BY <1>2, <1>3, <1>4, KeptOrDropped
  <1>6. KeysOf(windows') \subseteq Clients
    BY <1>1 DEF SameEntries, WindowInv
  <1> QED
    BY <1>1, <1>2, <1>3, <1>4, <1>5, <1>6 DEF WindowInv

LEMMA DestroyKeepsWindow ==
  ASSUME WindowInv, DestroyWindows
  PROVE  WindowInv' /\ \A j \in Clients : Keeps(j) \/ Drops(j)
  <1>1. IsMap(windows') /\ KeysOf(windows') = {}
    BY EmptyMapFacts DEF DestroyWindows
  <1>2. /\ granted' = [k \in Clients |-> NoneGranted] /\ clock' = clock
        /\ comeback' = [k \in Clients |-> Anytime]
    BY DEF DestroyWindows
  <1>3. \A j \in Clients : Drops(j)
    BY <1>1, <1>2 DEF Drops, Stamps, Has
  <1>4. \A j \in Clients : ClientOK(j)'
    BY <1>2, <1>3, KeptOrDropped
  <1> QED
    BY <1>1, <1>2, <1>3, <1>4 DEF WindowInv

\* What is swept has left the window, so that its history is empty, and the
\* time to come back has come.
LEMMA SweptFacts ==
  ASSUME WindowInv, NEW k \in Clients, Inactive(Stamps(k))
  PROVE  granted[k] = NoneGranted /\ ComebackOK(<<>>, comeback[k], clock)
  <1> DEFINE stamps == Stamps(k)
             L == Len(stamps)
  <1>1. /\ clock \in Nat \ {0} /\ StampsOK(stamps, clock)
        /\ granted[k] = GrantsOf(stamps, clock)
        /\ ComebackOK(stamps, comeback[k], clock)
        /\ Inactive(stamps)
    BY DEF WindowInv, ClientOK
  <1> HIDE DEF stamps
  <1>2. /\ L \in Nat /\ stamps \in Seq(Nat)
        /\ \A i \in 1..L : stamps[i] \in 1..clock
        /\ \A i, j \in 1..L : i <= j => stamps[i] <= stamps[j]
    BY <1>1 DEF StampsOK
  <1>3. ASSUME NEW i \in 1..L
        PROVE  ~(stamps[i] > clock - WindowSize)
    <2>1. stamps # <<>> /\ L \in 1..L /\ i <= L
      BY <1>2, <1>3
    <2>2. stamps[i] \in Nat /\ stamps[L] \in Nat /\ stamps[i] <= stamps[L]
      BY <1>2, <2>1
    <2>3. ~(stamps[L] > clock - WindowSize)
      BY <1>1, <2>1 DEF Inactive, InWindow
    <2> QED
      BY <1>1, <2>2, <2>3, WindowConstants
  <1>4. granted[k] = NoneGranted
    <2>1. \A n \in 1..MaxRequests + 1 :
            ~(n <= Len(stamps) /\ stamps[Len(stamps) + 1 - n] > clock - WindowSize)
      BY <1>2, <1>3, WindowConstants
    <2> QED
      BY <1>1, <2>1 DEF GrantsOf, NoneGranted
  <1>5. ASSUME L = MaxRequests, comeback[k] = stamps[1] + WindowSize
        PROVE  comeback[k] \in Nat /\ clock >= comeback[k]
    <2>1. 1 \in 1..L
      BY <1>2, <1>5, WindowConstants
    <2> QED
      BY <1>1, <1>2, <1>3, <1>5, <2>1, WindowConstants
  <1> QED
    BY <1>1, <1>4, <1>5 DEF ComebackOK

LEMMA CleanupKeepsWindow ==
  ASSUME WindowInv, CleanupWindows
  PROVE  WindowInv'
  <1> DEFINE gone == {k \in KeysOf(windows) : Inactive(ValueOf(windows, k))}
  <1>1. IsMap(windows') /\ SameEntries(windows, windows', KeysOf(windows) \ gone)
    BY AfterDeleteAllFacts DEF CleanupWindows, WindowInv
  <1>2. clock' = clock /\ granted' = granted /\ comeback' = comeback
    BY DEF CleanupWindows
  <1>3. ASSUME NEW k \in Clients
        PROVE  ClientOK(k)'
    <2>1. CASE k \in gone
      <3>1. Stamps(k)' = <<>> /\ Inactive(Stamps(k))
        BY <1>1, <2>1 DEF Stamps, Has, SameEntries
      <3>2. granted[k] = NoneGranted /\ ComebackOK(<<>>, comeback[k], clock)
        BY <3>1, SweptFacts
      <3>3. StampsOK(<<>>, clock) /\ GrantsOf(<<>>, clock) = NoneGranted
        BY NoStamps DEF WindowInv
      <3> QED
        BY <1>2, <3>1, <3>2, <3>3 DEF ClientOK
    <2>2. CASE k \notin gone
      <3>1. Has(windows, k) <=> Has(windows', k)
        BY <1>1, <2>2 DEF Has, SameEntries
      <3> HIDE DEF gone
      <3>2. Stamps(k)' = Stamps(k)
        BY <1>1, <2>2, <3>1 DEF Stamps, Has, SameEntries
      <3> QED
        BY <1>2, <3>2, KeptOrDropped DEF Keeps
    <2> QED
      BY <2>1, <2>2
  <1>4. KeysOf(windows') \subseteq Clients
    BY <1>1 DEF SameEntries, WindowInv
  <1> QED
    BY <1>1, <1>2, <1>3, <1>4 DEF WindowInv

LEMMA TickKeepsWindow ==
  ASSUME WindowInv, WindowTick
  PROVE  WindowInv'
  <1>1. /\ clock' = clock + 1 /\ windows' = windows /\ comeback' = comeback
        /\ granted' = [k \in Clients |-> Fading(granted[k], clock + 1)]
        /\ clock \in Nat \ {0}
    BY DEF WindowTick, WindowInv
  <1>2. ASSUME NEW k \in Clients
        PROVE  ClientOK(k)'
    <2> DEFINE stamps == Stamps(k)
    <2>1. /\ StampsOK(stamps, clock) /\ granted[k] = GrantsOf(stamps, clock)
          /\ ComebackOK(stamps, comeback[k], clock)
      BY DEF WindowInv, ClientOK
    <2>2. Stamps(k)' = stamps
      BY <1>1 DEF Stamps
    <2> HIDE DEF stamps
    <2>3. StampsOK(stamps, clock')
      BY <1>1, <2>1 DEF StampsOK
    <2>4. GrantsOf(stamps, clock + 1) = Fading(GrantsOf(stamps, clock), clock + 1)
      BY <1>1, <2>1, FadingFacts DEF StampsOK
    <2>5. granted'[k] = GrantsOf(stamps, clock')
      BY <1>1, <2>1, <2>4
    <2>6. ComebackOK(stamps, comeback[k], clock')
      BY <1>1, <2>1 DEF ComebackOK
    <2> QED
      BY <1>1, <2>2, <2>3, <2>5, <2>6 DEF ClientOK
  <1> QED
    BY <1>1, <1>2 DEF WindowInv

LEMMA NextKeepsWindow == WindowInv /\ [WindowNext]_windowVars => WindowInv'
  <1> SUFFICES ASSUME WindowInv, [WindowNext]_windowVars PROVE WindowInv'
    OBVIOUS
  <1>1. ASSUME NEW k \in Clients, IsAllowedInWindow(k) PROVE WindowInv'
    BY <1>1, RequestKeepsWindow
  <1>2. ASSUME NEW k \in Clients, GetCurrentCount(k) PROVE WindowInv'
    BY <1>2, CountKeepsWindow
  <1>3. ASSUME NEW k \in Clients, ResetWindow(k) PROVE WindowInv'
    BY <1>3, ResetKeepsWindow
  <1>4. CASE CleanupWindows
    BY <1>4, CleanupKeepsWindow
  <1>5. CASE DestroyWindows
    BY <1>5, DestroyKeepsWindow
  <1>6. CASE WindowTick
    BY <1>6, TickKeepsWindow
  <1>7. CASE UNCHANGED windowVars
    BY <1>7 DEF windowVars, WindowInv, ClientOK, Stamps
  <1> QED
    BY <1>1, <1>2, <1>3, <1>4, <1>5, <1>6, <1>7 DEF WindowNext

LEMMA InitWindow == WindowInit => WindowInv
  <1> SUFFICES ASSUME WindowInit PROVE WindowInv
    OBVIOUS
  <1>1. IsMap(windows) /\ KeysOf(windows) = {} /\ clock = 1
    BY EmptyMapFacts DEF WindowInit
  <1>2. \A k \in Clients : /\ Stamps(k) = <<>> /\ granted[k] = NoneGranted
                           /\ comeback[k] = Anytime
    BY <1>1 DEF WindowInit, Stamps, Has
  <1>3. \A k \in Clients : ClientOK(k)
    BY <1>1, <1>2, NoStamps DEF ClientOK
  <1>4. DOMAIN granted = Clients /\ DOMAIN comeback = Clients
    BY DEF WindowInit
  <1> QED
    BY <1>1, <1>3, <1>4 DEF WindowInv

\* The two halves of WindowPromises, for one key and one step.
LEMMA NeverOver ==
  ASSUME WindowInv, NEW k \in Clients
  PROVE  granted[k][MaxRequests + 1] = NotInWindow
  <1>1. /\ granted[k] = GrantsOf(Stamps(k), clock)
        /\ Len(Stamps(k)) \in Nat /\ Len(Stamps(k)) <= MaxRequests
    BY DEF WindowInv, ClientOK, StampsOK
  <1>2. MaxRequests + 1 \in 1..MaxRequests + 1 /\ ~(MaxRequests + 1 <= Len(Stamps(k)))
    BY <1>1, WindowConstants
  <1> QED
    BY <1>1, <1>2 DEF GrantsOf

LEMMA RefusalExact ==
  ASSUME WindowInv, NEW k \in Clients, IsAllowedInWindow(k)
  PROVE  /\ comeback'[k] # Anytime => granted'[k][MaxRequests] # NotInWindow
         /\ comeback[k] # Anytime => (clock >= comeback[k] <=> comeback'[k] = Anytime)
  <1> DEFINE stamps == Stamps(k)
             p == Pruned(stamps)
             allowed == Len(p) < MaxRequests
  <1>1. /\ granted'[k] = IF allowed THEN Noting(granted[k]) ELSE granted[k]
        /\ comeback'[k] = IF allowed THEN Anytime ELSE p[1] + WindowSize
    BY RequestFacts
  <1>2. /\ clock \in Nat \ {0} /\ StampsOK(stamps, clock)
        /\ granted[k] = GrantsOf(stamps, clock)
        /\ ComebackOK(stamps, comeback[k], clock)
    BY DEF WindowInv, ClientOK
  <1> HIDE DEF stamps
  <1>3. /\ StampsOK(p, clock) /\ GrantsOf(p, clock) = granted[k]
        /\ \A i \in 1..Len(p) : InWindow(p[i])
        /\ Len(stamps) = MaxRequests =>
             (Len(p) = MaxRequests <=> clock < stamps[1] + WindowSize)
    BY <1>2, PrunedFacts
  <1>4. /\ Len(p) \in Nat /\ Len(p) <= MaxRequests
        /\ \A i \in 1..Len(p) : p[i] \in Nat \ {0}
    BY <1>2, <1>3 DEF StampsOK
  <1>5. stamps = <<>> => p = <<>>
    BY DEF Pruned
  <1> HIDE DEF p
  <1>6. ~allowed => Len(p) = MaxRequests /\ p[1] \in Nat \ {0} /\ InWindow(p[1])
    <2>1. ~allowed => Len(p) = MaxRequests /\ 1 \in 1..Len(p)
      BY <1>4, WindowConstants
    <2> QED
      BY <1>3, <1>4, <2>1
  <1>7. allowed <=> comeback'[k] = Anytime
    BY <1>1, <1>6, WindowConstants DEF Anytime
  <1>8. ~allowed => granted'[k][MaxRequests] # NotInWindow
    <2> SUFFICES ASSUME ~allowed PROVE granted'[k][MaxRequests] # NotInWindow
      OBVIOUS
    <2>1. granted'[k] = GrantsOf(p, clock) /\ Len(p) + 1 - MaxRequests = 1
      BY <1>1, <1>3, <1>6, WindowConstants
    <2>2. MaxRequests \in 1..MaxRequests + 1 /\ MaxRequests <= Len(p)
      BY <1>6, WindowConstants
    <2>3. p[1] > clock - WindowSize
      BY <1>6 DEF InWindow
    <2>4. GrantsOf(p, clock)[MaxRequests] = p[1]
      BY <2>1, <2>2, <2>3 DEF GrantsOf
    <2> QED
      BY <1>6, <2>1, <2>4 DEF NotInWindow
  <1>9. ASSUME comeback[k] # Anytime
        PROVE  clock >= comeback[k] <=> allowed
    <2>1. CASE Len(stamps) = MaxRequests /\ comeback[k] = stamps[1] + WindowSize
      <3>1. stamps[1] \in Nat
        BY <1>2, <2>1, WindowConstants DEF StampsOK
      <3> QED
        BY <1>2, <1>3, <1>4, <2>1, <3>1, WindowConstants
    <2>2. CASE stamps = <<>> /\ comeback[k] \in Nat /\ clock >= comeback[k]
      <3>1. Len(p) = 0
        BY <1>5, <2>2
      <3> QED
        BY <2>2, <3>1, WindowConstants
    <2> QED
      BY <1>2, <1>9, <2>1, <2>2 DEF ComebackOK
  <1> QED
    BY <1>7, <1>8, <1>9

\* Never more than MaxRequests requests of a key are allowed within a window,
\* and what a refused client is told is exact, whatever others do and the timer
\* sweeps meanwhile.
THEOREM WindowAlways == WindowSpec => WindowPromises
  <1>1. WindowInv => WindowRespected
    BY NeverOver DEF WindowRespected
  <1>2. WindowInv /\ [WindowNext]_windowVars =>
          [\A k \in Clients :
             /\ comeback'[k] \notin {comeback[k], Anytime} =>
                  granted'[k][MaxRequests] # NotInWindow
             /\ IsAllowedInWindow(k) /\ comeback[k] # Anytime =>
                  (clock >= comeback[k] <=> comeback'[k] = Anytime)]_windowVars
    <2> SUFFICES ASSUME WindowInv, WindowNext, NEW k \in Clients
                 PROVE  /\ comeback'[k] \notin {comeback[k], Anytime} =>
                             granted'[k][MaxRequests] # NotInWindow
                        /\ IsAllowedInWindow(k) /\ comeback[k] # Anytime =>
                             (clock >= comeback[k] <=> comeback'[k] = Anytime)
      OBVIOUS
    <2>1. CASE IsAllowedInWindow(k)
      BY <2>1, RefusalExact
    <2>2. ASSUME NEW j \in Clients, IsAllowedInWindow(j), j # k
          PROVE  comeback'[k] \in {comeback[k], Anytime}
      BY <2>2, RequestFacts DEF Keeps, Drops
    <2>3. ASSUME NEW j \in Clients, GetCurrentCount(j)
          PROVE  comeback'[k] \in {comeback[k], Anytime}
      <3>1. /\ DOMAIN comeback = Clients
            /\ comeback' = Forgetting(DroppedByGet(windows, j), comeback, Anytime)
        BY <2>3 DEF GetCurrentCount, WindowInv
      <3> QED
        BY <3>1 DEF Forgetting
    <2>4. ASSUME NEW j \in Clients, ResetWindow(j)
          PROVE  comeback'[k] \in {comeback[k], Anytime}
      <3>1. /\ DOMAIN comeback = Clients
            /\ comeback' = [comeback EXCEPT ![j] = Anytime]
        BY <2>4 DEF ResetWindow, WindowInv
      <3> QED
        BY <3>1
    <2>5. ASSUME CleanupWindows \/ WindowTick
          PROVE  comeback'[k] \in {comeback[k], Anytime}
      BY <2>5 DEF CleanupWindows, WindowTick
    <2>6. ASSUME DestroyWindows
          PROVE  comeback'[k] \in {comeback[k], Anytime}
      BY <2>6 DEF DestroyWindows
    <2>7. IsAllowedInWindow(k) \/ comeback'[k] \in {comeback[k], Anytime}
      BY <2>2, <2>3, <2>4, <2>5, <2>6 DEF WindowNext
    <2> QED
      BY <2>1, <2>7
  <1> QED
    BY <1>1, <1>2, InitWindow, NextKeepsWindow, PTL
    DEF WindowSpec, WindowPromises, ResetIsExact

---------------------------------------------------------------------------
(* SessionManager: the request times a session needs are kept, whatever    *)
(* happens to the other sessions, and idle sessions end.                   *)

\* The request times of a session: in the order in which they were made.
TimesOK(times, t) ==
  /\ times \in Seq(Nat)
  /\ \A i \in 1..Len(times) : times[i] \in 1..t
  /\ \A i, j \in 1..Len(times) : i <= j => times[i] <= times[j]

\* What the history of the requests should be, from the times that are kept.
Shown(times, t) ==
  [n \in 1..Burst |->
     IF n <= Len(times) /\ t - times[Len(times) + 1 - n] < BurstSpan
     THEN times[Len(times) + 1 - n] ELSE LongAgo]

NoneMade == [n \in 1..Burst |-> LongAgo]

(* The inductive invariant: the history of a session held is the one that  *)
(* its request times show, and ids that were not drawn have none.          *)
TimesInv ==
  /\ time \in Nat \ {0} /\ issued \subseteq Ids
  /\ IsMap(sessions) /\ KeysOf(sessions) \subseteq issued
  /\ DOMAIN requestTimes = KeysOf(sessions)
  /\ \A id \in KeysOf(sessions) : TimesOK(requestTimes[id], time)
  /\ DOMAIN recent = Ids
  /\ \A id \in KeysOf(sessions) : recent[id] = Shown(requestTimes[id], time)
  /\ \A id \in Ids \ issued : recent[id] = NoneMade

LEMMA SessionConstants ==
  /\ Burst \in Nat \ {0} /\ BurstSpan \in Nat \ {0}
  /\ MaxTimes \in Nat /\ MaxTimes >= Burst
  /\ MaxSessionAge \in Nat /\ CleanupInterval \in Nat \ {0}
  BY SessionAssumption

\* A list with the current time added: the others move on by one.
LEMMA NewestEntries ==
  ASSUME time \in Nat, NEW times \in Seq(Nat), NEW g, g = Newest(times)
  PROVE  /\ g \in Seq(Nat) /\ Len(g) \in Nat \ {0} /\ g[Len(g)] = time
         /\ Len(g) = Len(times) + 1 \/ (Len(g) = Len(times) /\ Len(g) >= Burst)
         /\ \A i \in 1..Len(g) - 1 :
              /\ i + Len(times) - Len(g) + 1 \in 1..Len(times)
              /\ g[i] = times[i + Len(times) - Len(g) + 1]
  <1> DEFINE L == Len(times)
  <1>1. L \in Nat
    OBVIOUS
  <1>2. CASE L < MaxTimes
    <2>1. g = Append(times, time)
      BY <1>2 DEF Newest
    <2>2. /\ g \in Seq(Nat) /\ Len(g) = L + 1 /\ g[L + 1] = time
          /\ \A i \in 1..L : g[i] = times[i]
      BY <2>1
    <2>3. \A i \in 1..L : i + L - Len(g) + 1 = i
      BY <1>1, <2>2
    <2>4. Len(g) \in Nat \ {0} /\ Len(g) - 1 = L /\ g[Len(g)] = time
      BY <1>1, <2>2
    <2>5. \A i \in 1..Len(g) - 1 :
            /\ i + L - Len(g) + 1 \in 1..L
            /\ g[i] = times[i + L - Len(g) + 1]
      BY <2>2, <2>3, <2>4
    <2> QED
      BY <2>2, <2>4, <2>5
  <1>3. CASE ~(L < MaxTimes)
    <2>1. L >= 1 /\ L >= Burst
      BY <1>1, <1>3, SessionConstants
    <2>2. /\ Tail(times) \in Seq(Nat) /\ Len(Tail(times)) = L - 1
          /\ \A i \in 1..L - 1 : Tail(times)[i] = times[i + 1]
      BY <1>1, <2>1
    <2>3. g = Append(Tail(times), time)
      BY <1>3 DEF Newest
    <2>4. /\ g \in Seq(Nat) /\ Len(g) = L /\ g[L] = time
          /\ \A i \in 1..L - 1 : g[i] = times[i + 1]
      BY <1>1, <2>1, <2>2, <2>3
    <2> QED
      BY <1>1, <2>1, <2>4
  <1> QED
    BY <1>2, <1>3

\* The newest MaxTimes times are in order.
LEMMA NewestOK ==
  ASSUME time \in Nat \ {0}, NEW times, TimesOK(times, time)
  PROVE  TimesOK(Newest(times), time)
  <1> DEFINE L == Len(times)
             g == Newest(times)
             K == Len(g)
             older(i) == i + L - K + 1
  <1>1. /\ L \in Nat /\ times \in Seq(Nat) /\ time \in Nat
        /\ \A i \in 1..L : times[i] \in 1..time
        /\ \A i, j \in 1..L : i <= j => times[i] <= times[j]
    BY DEF TimesOK
  <1>2. /\ g \in Seq(Nat) /\ K \in Nat \ {0} /\ g[K] = time
        /\ \A i \in 1..K - 1 : older(i) \in 1..L /\ g[i] = times[older(i)]
    BY <1>1, NewestEntries
  <1> HIDE DEF g, L, K
  <1>3. \A i \in 1..K - 1 : g[i] \in 1..time
    BY <1>1, <1>2
  <1>4. ASSUME NEW i \in 1..K, NEW j \in 1..K, i <= j
        PROVE  g[i] <= g[j]
    <2>1. CASE j = K
      <3>1. g[j] = time /\ (i = K \/ g[i] \in 1..time)
        BY <1>2, <1>3, <2>1
      <3> QED
        BY <1>1, <1>2, <2>1, <3>1
    <2>2. CASE j # K
      <3>1. i \in 1..K - 1 /\ j \in 1..K - 1
        BY <1>2, <1>4, <2>2
      <3>2. older(i) <= older(j)
        BY <1>1, <1>2, <1>4
      <3> HIDE DEF older
      <3> QED
        BY <1>1, <1>2, <3>1, <3>2
    <2> QED
      BY <2>1, <2>2
  <1>5. \A i \in 1..K : g[i] \in 1..time
    BY <1>1, <1>2, <1>3
  <1> QED
    BY <1>2, <1>4, <1>5 DEF TimesOK, g, K

\* A request is shown as the newest one, the others move on by one.
LEMMA NewestShown ==
  ASSUME time \in Nat \ {0}, NEW times, TimesOK(times, time)
  PROVE  Shown(Newest(times), time) = Noted(Shown(times, time))
  <1> DEFINE L == Len(times)
             g == Newest(times)
             K == Len(g)
  <1>1. L \in Nat /\ times \in Seq(Nat) /\ time \in Nat
    BY DEF TimesOK
  <1>2. /\ K \in Nat \ {0} /\ g[K] = time
        /\ K = L + 1 \/ (K = L /\ K >= Burst)
        /\ \A i \in 1..K - 1 : g[i] = times[i + L - K + 1]
    BY <1>1, NewestEntries
  <1> HIDE DEF g, K, L
  <1>3. ASSUME NEW n \in 1..Burst
        PROVE  Shown(g, time)[n] = Noted(Shown(times, time))[n]
    <2>1. Shown(g, time)[n] = IF n <= K /\ time - g[K + 1 - n] < BurstSpan
                        THEN g[K + 1 - n] ELSE LongAgo
      BY DEF Shown, K
    <2>2. CASE n = 1
      <3>1. Noted(Shown(times, time))[n] = time
        BY <2>2 DEF Noted
      <3>2. K + 1 - n = K /\ n <= K /\ time - g[K] < BurstSpan
        BY <1>1, <1>2, <2>2, SessionConstants
      <3> QED
        BY <1>2, <2>1, <3>1, <3>2
    <2>3. CASE n # 1
      <3>1. n \in Int /\ n > 1 /\ n <= Burst /\ n - 1 \in 1..Burst
        BY <2>3, SessionConstants
      <3>2. Noted(Shown(times, time))[n] = Shown(times, time)[n - 1]
        BY <2>3 DEF Noted
      <3>3. Shown(times, time)[n - 1] =
              IF n - 1 <= L /\ time - times[L + 1 - (n - 1)] < BurstSpan
              THEN times[L + 1 - (n - 1)] ELSE LongAgo
        BY <3>1 DEF Shown, L
      <3>4. n <= K <=> n - 1 <= L
        BY <1>1, <1>2, <3>1, SessionConstants
      <3>5. ASSUME n <= K
            PROVE  g[K + 1 - n] = times[L + 1 - (n - 1)]
        <4>1. K + 1 - n \in 1..K - 1 /\ (K + 1 - n) + L - K + 1 = L + 1 - (n - 1)
          BY <1>1, <1>2, <3>1, <3>5
        <4> QED
          BY <1>2, <4>1
      <3> QED
        BY <2>1, <3>2, <3>3, <3>4, <3>5
    <2> QED
      BY <2>2, <2>3
  <1>4. /\ Shown(g, time) = [n \in 1..Burst |-> Shown(g, time)[n]]
        /\ Noted(Shown(times, time)) = [n \in 1..Burst |-> Noted(Shown(times, time))[n]]
    BY DEF Shown, Noted
  <1> QED
    BY <1>3, <1>4 DEF g

\* The first request of a session.
LEMMA FirstShown ==
  ASSUME time \in Nat \ {0}
  PROVE  TimesOK(<<time>>, time) /\ Shown(<<time>>, time) = Noted(NoneMade)
  <1>1. <<time>> \in Seq(Nat) /\ Len(<<time>>) = 1 /\ <<time>>[1] = time
    OBVIOUS
  <1>2. TimesOK(<<time>>, time)
    BY <1>1 DEF TimesOK
  <1>3. ASSUME NEW n \in 1..Burst
        PROVE  Shown(<<time>>, time)[n] = Noted(NoneMade)[n]
    BY <1>1, SessionConstants DEF Shown, Noted, NoneMade
  <1>4. /\ Shown(<<time>>, time) = [n \in 1..Burst |-> Shown(<<time>>, time)[n]]
        /\ Noted(NoneMade) = [n \in 1..Burst |-> Noted(NoneMade)[n]]
    BY DEF Shown, Noted
  <1> QED
    BY <1>2, <1>3, <1>4

\* What is shown as time passes.
LEMMA AgedShown ==
  ASSUME NEW t \in Nat, NEW u \in Nat, u >= t, NEW times \in Seq(Nat)
  PROVE  Shown(times, u) = Aged(Shown(times, t), u)
  <1>1. ASSUME NEW n \in 1..Burst
        PROVE  Shown(times, u)[n] = Aged(Shown(times, t), u)[n]
    <2> DEFINE there == n <= Len(times)
               nth == times[Len(times) + 1 - n]
               made == Shown(times, t)
    <2>1. made[n] = IF there /\ t - nth < BurstSpan THEN nth ELSE LongAgo
      BY DEF Shown
    <2>2. Shown(times, u)[n] = IF there /\ u - nth < BurstSpan THEN nth ELSE LongAgo
      BY DEF Shown
    <2>3. there => nth \in Nat
      OBVIOUS
    <2> HIDE DEF there, nth, made
    <2>4. Aged(made, u)[n] = IF u - made[n] < BurstSpan THEN made[n] ELSE LongAgo
      BY DEF Aged
    <2>5. Shown(times, u)[n] = Aged(made, u)[n]
      BY <2>1, <2>2, <2>3, <2>4, SessionConstants DEF LongAgo
    <2> QED
      BY <2>5 DEF made
  <1>2. /\ Shown(times, u) = [n \in 1..Burst |-> Shown(times, u)[n]]
        /\ Aged(Shown(times, t), u) = [n \in 1..Burst |-> Aged(Shown(times, t), u)[n]]
    BY DEF Shown, Aged
  <1> QED
    BY <1>1, <1>2

\* The velocity check sees what the history shows.
LEMMA SpikeShown ==
  ASSUME time \in Nat \ {0}, NEW times, TimesOK(times, time)
  PROVE  VelocitySpike(times) <=> \A n \in 1..Burst : Shown(times, time)[n] # LongAgo
  <1> DEFINE L == Len(times)
             nth(n) == times[L + 1 - n]
  <1>1. /\ L \in Nat
        /\ \A i \in 1..L : times[i] \in Nat \ {0}
        /\ \A i, j \in 1..L : i <= j => times[i] <= times[j]
    BY DEF TimesOK
  <1>2. \A n \in 1..Burst :
          Shown(times, time)[n] # LongAgo <=> n <= L /\ time - nth(n) < BurstSpan
    BY <1>1, SessionConstants DEF Shown, LongAgo
  <1>3. VelocitySpike(times) <=> Burst <= L /\ time - nth(Burst) < BurstSpan
    <2>1. L - Burst + 1 = L + 1 - Burst
      BY <1>1, SessionConstants
    <2> QED
      BY <1>1, <2>1, SessionConstants DEF VelocitySpike
  <1>4. ASSUME VelocitySpike(times), NEW n \in 1..Burst
        PROVE  n <= L /\ time - nth(n) < BurstSpan
    <2>1. L + 1 - n \in 1..L /\ L + 1 - Burst \in 1..L /\ L + 1 - Burst <= L + 1 - n
      BY <1>1, <1>3, <1>4, SessionConstants
    <2>2. nth(Burst) <= nth(n) /\ nth(n) \in Nat /\ nth(Burst) \in Nat
      BY <1>1, <2>1
    <2> HIDE DEF nth
    <2> QED
      BY <1>1, <1>3, <1>4, <2>2, SessionConstants
  <1>5. Burst \in 1..Burst
    BY SessionConstants
  <1> QED
    BY <1>2, <1>3, <1>4, <1>5

\* The use of a session leaves the others' times alone, or drops them.
LEMMA ResumeFacts ==
  ASSUME TimesInv, NEW id \in issued, Resume(id)
  PROVE  LET lost == DroppedByGet(sessions, id) IN
         /\ id \in KeysOf(sessions) \ lost /\ IsMap(sessions')
         /\ KeysOf(sessions') = KeysOf(sessions) \ lost
         /\ ValueOf(sessions', id) = time
         /\ \A j \in KeysOf(sessions') \ {id} : ValueOf(sessions', j) = ValueOf(sessions, j)
         /\ DOMAIN requestTimes' = KeysOf(sessions')
         /\ requestTimes'[id] = Newest(requestTimes[id])
         /\ \A j \in KeysOf(sessions') \ {id} : requestTimes'[j] = requestTimes[j]
  <1> DEFINE lost == DroppedByGet(sessions, id)
             kept == TimesWithout(lost)
             after == AfterGet(sessions, id)
  <1>1. id \in KeysOf(sessions) /\ IsMap(sessions) /\ DOMAIN requestTimes = KeysOf(sessions)
    BY DEF Resume, Has, TimesInv
  <1>2. /\ IsMap(after) /\ id \notin lost /\ KeysOf(after) = KeysOf(sessions) \ lost
        /\ \A j \in KeysOf(after) : ValueOf(after, j) = ValueOf(sessions, j)
    BY <1>1, AfterGetFacts DEF SameEntries
  <1>3. /\ DOMAIN kept = KeysOf(sessions) \ lost
        /\ \A j \in DOMAIN kept : kept[j] = requestTimes[j]
    BY <1>1 DEF TimesWithout, Without
  <1>4. /\ sessions' = Mutate(after, id, time)
        /\ requestTimes' = Put(kept, id, Newest(IF id \in DOMAIN kept THEN kept[id] ELSE <<>>))
    BY DEF Resume
  <1> HIDE DEF lost, kept, after
  <1>5. /\ IsMap(sessions') /\ KeysOf(sessions') = KeysOf(after)
        /\ ValueOf(sessions', id) = time
        /\ \A j \in KeysOf(after) \ {id} : ValueOf(sessions', j) = ValueOf(after, j)
    BY <1>1, <1>2, <1>4, MutateFacts
  <1>6. requestTimes' = Put(kept, id, Newest(requestTimes[id]))
    BY <1>1, <1>2, <1>3, <1>4
  <1>7. /\ DOMAIN requestTimes' = DOMAIN kept
        /\ requestTimes'[id] = Newest(requestTimes[id])
        /\ \A j \in DOMAIN kept \ {id} : requestTimes'[j] = kept[j]
    BY <1>1, <1>2, <1>3, <1>6 DEF Put
  <1> QED
    BY <1>1, <1>2, <1>3, <1>5, <1>7 DEF lost

LEMMA CreateFacts ==
  ASSUME TimesInv, NEW id \in Ids, Create(id)
  PROVE  LET lost == DroppedBySet(sessions, id) IN
         /\ id \notin issued /\ IsMap(sessions')
         /\ KeysOf(sessions') = (KeysOf(sessions) \ lost) \cup {id}
         /\ ValueOf(sessions', id) = time
         /\ \A j \in KeysOf(sessions') \ {id} : ValueOf(sessions', j) = ValueOf(sessions, j)
         /\ DOMAIN requestTimes' = KeysOf(sessions')
         /\ requestTimes'[id] = <<time>>
         /\ \A j \in KeysOf(sessions') \ {id} : requestTimes'[j] = requestTimes[j]
  <1> DEFINE lost == DroppedBySet(sessions, id)
             kept == TimesWithout(lost)
  <1>1. /\ id \notin issued /\ IsMap(sessions) /\ id \notin KeysOf(sessions)
        /\ DOMAIN requestTimes = KeysOf(sessions)
    BY DEF Create, TimesInv
  <1>2. /\ DOMAIN kept = KeysOf(sessions) \ lost
        /\ \A j \in DOMAIN kept : kept[j] = requestTimes[j]
    BY <1>1 DEF TimesWithout, Without
  <1>3. sessions' = AfterSet(sessions, id, time) /\ requestTimes' = Put(kept, id, <<time>>)
    BY DEF Create
  <1> HIDE DEF kept
  <1>4. /\ DOMAIN requestTimes' = DOMAIN kept \cup {id}
        /\ requestTimes'[id] = <<time>>
        /\ \A j \in DOMAIN kept \ {id} : requestTimes'[j] = kept[j]
    BY <1>3 DEF Put
  <1>5. /\ IsMap(sessions') /\ id \notin lost
        /\ KeysOf(sessions') = (KeysOf(sessions) \ lost) \cup {id}
        /\ ValueOf(sessions', id) = time
        /\ \A j \in KeysOf(sessions) \ (lost \cup {id}) :
             ValueOf(sessions', j) = ValueOf(sessions, j)
    BY <1>1, <1>3, AfterSetFacts
  <1> HIDE DEF lost
  <1> QED
    BY <1>1, <1>2, <1>4, <1>5 DEF lost

\* Sessions that are looked at, or that leave, take their times along.
LEMMA LeaveKeepsTimes ==
  ASSUME TimesInv, NEW S, IsMap(sessions'),
         SameEntries(sessions, sessions', KeysOf(sessions) \ S),
         requestTimes' = TimesWithout(S), UNCHANGED <<time, issued, recent>>
  PROVE  TimesInv'
  <1>1. /\ DOMAIN requestTimes' = KeysOf(sessions')
        /\ \A id \in KeysOf(sessions') :
             id \in KeysOf(sessions) /\ requestTimes'[id] = requestTimes[id]
    BY DEF TimesInv, SameEntries, TimesWithout, Without
  <1>2. \A id \in KeysOf(sessions') : TimesOK(requestTimes'[id], time')
    BY <1>1 DEF TimesInv, TimesOK
  <1>3. \A id \in KeysOf(sessions') : recent'[id] = Shown(requestTimes'[id], time')
    BY <1>1 DEF TimesInv
  <1> QED
    BY <1>1, <1>2, <1>3 DEF TimesInv

LEMMA ResumeKeepsTimes ==
  ASSUME TimesInv, NEW id \in issued, Resume(id)
  PROVE  TimesInv'
  <1>1. /\ id \in KeysOf(sessions) /\ id \in Ids /\ IsMap(sessions')
        /\ KeysOf(sessions') \subseteq KeysOf(sessions)
        /\ DOMAIN requestTimes' = KeysOf(sessions')
        /\ requestTimes'[id] = Newest(requestTimes[id])
        /\ \A j \in KeysOf(sessions') \ {id} : requestTimes'[j] = requestTimes[j]
    BY ResumeFacts DEF TimesInv
  <1>2. /\ time' = time /\ issued' = issued
        /\ recent' = [recent EXCEPT ![id] = Noted(@)]
    BY DEF Resume
  <1>3. /\ TimesOK(requestTimes[id], time) /\ time \in Nat \ {0} /\ id \in DOMAIN recent
        /\ recent[id] = Shown(requestTimes[id], time)
    BY <1>1 DEF TimesInv
  <1>4. /\ TimesOK(Newest(requestTimes[id]), time)
        /\ Shown(Newest(requestTimes[id]), time) = Noted(recent[id])
    BY <1>3, NewestOK, NewestShown
  <1>5. ASSUME NEW j \in KeysOf(sessions')
        PROVE  TimesOK(requestTimes'[j], time') /\ recent'[j] = Shown(requestTimes'[j], time')
    <2>1. CASE j = id
      <3>1. recent'[j] = Noted(recent[id])
        BY <1>2, <1>3, <2>1
      <3> QED
        BY <1>1, <1>2, <1>4, <2>1, <3>1 DEF TimesOK
    <2>2. CASE j # id
      <3>1. /\ requestTimes'[j] = requestTimes[j] /\ recent'[j] = recent[j]
            /\ j \in KeysOf(sessions)
        BY <1>1, <1>2, <1>5, <2>2 DEF TimesInv
      <3> QED
        BY <1>2, <3>1 DEF TimesInv, TimesOK
    <2> QED
      BY <2>1, <2>2
  <1>6. \A j \in Ids \ issued : recent'[j] = recent[j]
    BY <1>2 DEF TimesInv
  <1> QED
    BY <1>1, <1>2, <1>5, <1>6 DEF TimesInv

LEMMA CreateKeepsTimes ==
  ASSUME TimesInv, NEW id \in Ids, Create(id)
  PROVE  TimesInv'
  <1>1. /\ id \notin issued /\ IsMap(sessions')
        /\ KeysOf(sessions') \subseteq KeysOf(sessions) \cup {id}
        /\ DOMAIN requestTimes' = KeysOf(sessions')
        /\ requestTimes'[id] = <<time>>
        /\ \A j \in KeysOf(sessions') \ {id} : requestTimes'[j] = requestTimes[j]
    BY CreateFacts
  <1>2. /\ time' = time /\ issued' = issued \cup {id}
        /\ recent' = [recent EXCEPT ![id] = Noted(@)]
    BY DEF Create
  <1>3. time \in Nat \ {0} /\ id \in DOMAIN recent /\ recent[id] = NoneMade
    BY <1>1 DEF TimesInv
  <1>4. TimesOK(<<time>>, time) /\ Shown(<<time>>, time) = Noted(NoneMade)
    BY <1>3, FirstShown
  <1>5. ASSUME NEW j \in KeysOf(sessions')
        PROVE  TimesOK(requestTimes'[j], time') /\ recent'[j] = Shown(requestTimes'[j], time')
    <2>1. CASE j = id
      <3>1. recent'[j] = Noted(NoneMade) /\ requestTimes'[j] = <<time>>
        BY <1>1, <1>2, <1>3, <2>1
      <3>2. TimesOK(<<time>>, time')
        BY <1>2, <1>4 DEF TimesOK
      <3> QED
        BY <1>2, <1>4, <3>1, <3>2 DEF TimesOK
    <2>2. CASE j # id
      <3>1. /\ requestTimes'[j] = requestTimes[j] /\ recent'[j] = recent[j]
            /\ j \in KeysOf(sessions)
        BY <1>1, <1>2, <1>5, <2>2 DEF TimesInv
      <3> QED
        BY <1>2, <3>1 DEF TimesInv, TimesOK
    <2> QED
      BY <2>1, <2>2
  <1>6. \A j \in Ids \ issued' : recent'[j] = recent[j]
    BY <1>2 DEF TimesInv
  <1> QED
    BY <1>1, <1>2, <1>5, <1>6 DEF TimesInv

LEMMA TickKeepsTimes == TimesInv /\ SessionTick => TimesInv'
  <1> SUFFICES ASSUME TimesInv, SessionTick PROVE TimesInv'
    OBVIOUS
  <1>1. /\ time' = time + 1 /\ sessions' = sessions /\ issued' = issued
        /\ requestTimes' = requestTimes
        /\ recent' = [id \in Ids |-> Aged(recent[id], time + 1)]
        /\ time \in Nat \ {0}
    BY DEF SessionTick, TimesInv
  <1>2. ASSUME NEW id \in KeysOf(sessions)
        PROVE  /\ TimesOK(requestTimes'[id], time')
               /\ recent'[id] = Shown(requestTimes'[id], time')
    <2> DEFINE times == requestTimes[id]
    <2>1. /\ TimesOK(times, time) /\ times \in Seq(Nat) /\ id \in Ids
          /\ recent[id] = Shown(times, time) /\ requestTimes'[id] = times
      BY <1>1 DEF TimesInv, TimesOK
    <2> HIDE DEF times
    <2>2. Shown(times, time + 1) = Aged(Shown(times, time), time + 1)
      BY <1>1, <2>1, AgedShown
    <2>3. recent'[id] = Shown(times, time')
      BY <1>1, <2>1, <2>2
    <2>4. TimesOK(requestTimes'[id], time')
      <3>1. \A i \in 1..Len(times) : times[i] \in 1..time'
        BY <1>1, <2>1 DEF TimesOK
      <3> QED
        BY <1>1, <2>1, <3>1 DEF TimesOK
    <2> QED
      BY <2>1, <2>3, <2>4
  <1>3. ASSUME NEW id \in Ids \ issued
        PROVE  recent'[id] = NoneMade
    <2>1. recent'[id] = Aged(NoneMade, time + 1)
      BY <1>1 DEF TimesInv
    <2> QED
      BY <2>1 DEF Aged, NoneMade
  <1> QED
    BY <1>1, <1>2, <1>3 DEF TimesInv

LEMMA NextKeepsTimes == TimesInv /\ [SessionNext]_sessionVars => TimesInv'
  <1> SUFFICES ASSUME TimesInv, [SessionNext]_sessionVars PROVE TimesInv'
    OBVIOUS
  <1>1. ASSUME NEW token \in issued \cup {NoSession}, ProcessRequest(token)
        PROVE  TimesInv'
    <2>1. CASE Resume(token)
      <3>1. token \in issued
        BY <2>1 DEF Resume, Has, TimesInv
      <3> QED
        BY <2>1, <3>1, ResumeKeepsTimes
    <2>2. CASE \E id \in Ids : Create(id)
      BY <2>2, CreateKeepsTimes
    <2> QED
      BY <1>1, <2>1, <2>2 DEF ProcessRequest
  <1>2. ASSUME NEW id \in issued, AddVerdict(id)
        PROVE  TimesInv'
    <2>1. /\ IsMap(sessions')
          /\ SameEntries(sessions, sessions', KeysOf(sessions) \ DroppedByGet(sessions, id))
      BY <1>2, AfterGetFacts DEF AddVerdict, TimesInv
    <2> QED
      BY <1>2, <2>1, LeaveKeepsTimes DEF AddVerdict
  <1>3. CASE CleanupSessions
    <2>1. /\ IsMap(sessions')
          /\ SameEntries(sessions, sessions', KeysOf(sessions) \ Expired)
      BY <1>3, AfterDeleteAllFacts DEF CleanupSessions, TimesInv
    <2> QED
      BY <1>3, <2>1, LeaveKeepsTimes DEF CleanupSessions
  <1>4. CASE DestroySessions
    <2>1. /\ IsMap(sessions') /\ KeysOf(sessions') = {} /\ DOMAIN requestTimes' = {}
      BY <1>4, EmptyMapFacts DEF DestroySessions, NoEntries
    <2> QED
      BY <1>4, <2>1 DEF DestroySessions, TimesInv
  <1>5. CASE SessionTick
    BY <1>5, TickKeepsTimes
  <1>6. CASE UNCHANGED sessionVars
    BY <1>6 DEF sessionVars, TimesInv, TimesOK
  <1> QED
    BY <1>1, <1>2, <1>3, <1>4, <1>5, <1>6 DEF SessionNext

LEMMA InitTimes == SessionInit => TimesInv
  BY EmptyMapFacts DEF SessionInit, TimesInv, NoneMade, NoEntries

\* A session that is held, and no other one, has request times, and the signal
\* of the velocity check is given exactly when Burst requests were made less
\* than BurstSpan ago.
THEOREM VelocityAlways == SessionSpec => []RequestTimesExact
  <1>1. TimesInv => RequestTimesExact
    <2> SUFFICES ASSUME TimesInv, NEW id \in KeysOf(sessions)
                 PROVE  /\ DOMAIN requestTimes = KeysOf(sessions)
                        /\ VelocitySpike(requestTimes[id]) <=>
                             \A n \in 1..Burst : recent[id][n] # LongAgo
      BY DEF RequestTimesExact, TimesMatchSessions, SpikeIffBurst, TimesInv
    <2> QED
      BY SpikeShown DEF TimesInv
  <1> QED
    BY <1>1, InitTimes, NextKeepsTimes, PTL DEF SessionSpec

(* Why no session is resumed late: the timer is not overdue, and what the  *)
(* last cleanup left was used within MaxSessionAge before it.              *)
IdleInv ==
  /\ TimesInv
  /\ cleanupDue \in Nat
  /\ \A id \in KeysOf(sessions) : ValueOf(sessions, id) \in 1..time
  /\ cleanupDue # Stopped =>
       /\ time \in cleanupDue - CleanupInterval..cleanupDue
       /\ \A id \in KeysOf(sessions) :
            ValueOf(sessions, id) >= cleanupDue - CleanupInterval - MaxSessionAge

LEMMA InitIdle == SessionInit => IdleInv
  BY InitTimes, EmptyMapFacts, SessionConstants DEF SessionInit, IdleInv

\* A session that is new or used has been active now, the others stay or go.
LEMMA UsedIdle ==
  ASSUME IdleInv, TimesInv', UNCHANGED <<time, cleanupDue>>,
         \A id \in KeysOf(sessions') :
           \/ ValueOf(sessions', id) = time
           \/ id \in KeysOf(sessions) /\ ValueOf(sessions', id) = ValueOf(sessions, id)
  PROVE  IdleInv'
  <1>1. time \in Nat \ {0} /\ cleanupDue \in Nat
    BY DEF IdleInv, TimesInv
  <1>2. ASSUME NEW id \in KeysOf(sessions')
        PROVE  /\ ValueOf(sessions', id) \in 1..time
               /\ cleanupDue # Stopped =>
                    ValueOf(sessions', id) >= cleanupDue - CleanupInterval - MaxSessionAge
    <2>1. CASE ValueOf(sessions', id) = time
      BY <1>1, <2>1, SessionConstants DEF IdleInv
    <2>2. CASE id \in KeysOf(sessions) /\ ValueOf(sessions', id) = ValueOf(sessions, id)
      BY <2>2 DEF IdleInv
    <2> QED
      BY <1>2, <2>1, <2>2
  <1> QED
    BY <1>1, <1>2 DEF IdleInv, Stopped

LEMMA CleanupIdle == IdleInv /\ TimesInv' /\ CleanupSessions => IdleInv'
  <1> SUFFICES ASSUME IdleInv, TimesInv', CleanupSessions PROVE IdleInv'
    OBVIOUS
  <1>1. /\ time \in Nat \ {0} /\ cleanupDue \in Nat /\ time' = time
        /\ time = cleanupDue /\ cleanupDue' = time + CleanupInterval
    BY SessionConstants DEF IdleInv, TimesInv, CleanupSessions
  <1>2. SameEntries(sessions, sessions', KeysOf(sessions) \ Expired)
    BY AfterDeleteAllFacts DEF CleanupSessions, IdleInv, TimesInv
  <1>3. ASSUME NEW id \in KeysOf(sessions')
        PROVE  /\ ValueOf(sessions', id) \in 1..time'
               /\ ValueOf(sessions', id) >= cleanupDue' - CleanupInterval - MaxSessionAge
    <2> DEFINE last == ValueOf(sessions, id)
    <2>1. /\ id \in KeysOf(sessions) /\ last \in 1..time /\ ValueOf(sessions', id) = last
          /\ ~(Idle(id) > MaxSessionAge)
      BY <1>2 DEF SameEntries, Expired, IdleInv
    <2>2. Idle(id) = time - last
      BY DEF Idle
    <2> HIDE DEF last
    <2> QED
      BY <1>1, <2>1, <2>2, SessionConstants
  <1> QED
    BY <1>1, <1>3, SessionConstants DEF IdleInv

LEMMA NextIdle == IdleInv /\ [SessionNext]_sessionVars => IdleInv'
  <1> SUFFICES ASSUME IdleInv, [SessionNext]_sessionVars PROVE IdleInv'
    OBVIOUS
  <1>1. TimesInv /\ TimesInv'
    BY NextKeepsTimes DEF IdleInv
  <1>2. ASSUME NEW token \in issued \cup {NoSession}, ProcessRequest(token)
        PROVE  IdleInv'
    <2>1. CASE Resume(token)
      <3>1. token \in issued
        BY <1>1, <2>1 DEF Resume, Has, TimesInv
      <3>2. \A id \in KeysOf(sessions') :
              \/ ValueOf(sessions', id) = time
              \/ id \in KeysOf(sessions) /\ ValueOf(sessions', id) = ValueOf(sessions, id)
        BY <1>1, <2>1, <3>1, ResumeFacts
      <3>3. UNCHANGED <<time, cleanupDue>>
        BY <2>1 DEF Resume
      <3> QED
        BY <1>1, <3>2, <3>3, UsedIdle
    <2>2. ASSUME NEW id \in Ids, Create(id)
          PROVE  IdleInv'
      <3>1. \A j \in KeysOf(sessions') :
              \/ ValueOf(sessions', j) = time
              \/ j \in KeysOf(sessions) /\ ValueOf(sessions', j) = ValueOf(sessions, j)
        BY <1>1, <2>2, CreateFacts
      <3>2. UNCHANGED <<time, cleanupDue>>
        BY <2>2 DEF Create
      <3> QED
        BY <1>1, <3>1, <3>2, UsedIdle
    <2> QED
      BY <1>2, <2>1, <2>2 DEF ProcessRequest
  <1>3. ASSUME NEW id \in issued, AddVerdict(id)
        PROVE  IdleInv'
    <2>1. SameEntries(sessions, sessions', KeysOf(sessions) \ DroppedByGet(sessions, id))
      BY <1>1, <1>3, AfterGetFacts DEF AddVerdict, TimesInv
    <2>2. UNCHANGED <<time, cleanupDue>>
      BY <1>3 DEF AddVerdict
    <2> QED
      BY <1>1, <2>1, <2>2, UsedIdle DEF SameEntries
  <1>4. CASE CleanupSessions
    BY <1>1, <1>4, CleanupIdle
  <1>5. CASE DestroySessions
    <2>1. KeysOf(sessions') = {} /\ cleanupDue' = Stopped
      BY <1>5, EmptyMapFacts DEF DestroySessions
    <2> QED
      BY <1>1, <2>1 DEF IdleInv, Stopped
  <1>6. CASE SessionTick
    <2>1. /\ time' = time + 1 /\ sessions' = sessions /\ cleanupDue' = cleanupDue
          /\ cleanupDue = Stopped \/ time < cleanupDue
          /\ time \in Nat \ {0} /\ cleanupDue \in Nat
      BY <1>1, <1>6 DEF SessionTick, IdleInv, TimesInv
    <2> QED
      BY <1>1, <2>1, SessionConstants DEF IdleInv, Stopped
  <1>7. CASE UNCHANGED sessionVars
    BY <1>1, <1>7 DEF sessionVars, IdleInv
  <1> QED
    BY <1>2, <1>3, <1>4, <1>5, <1>6, <1>7 DEF SessionNext

\* While the timer runs, no session is resumed that was idle for more than
\* MaxSessionAge and one cleanup interval.
THEOREM StaleAlways == SessionSpec => StaleNotResumed
  <1>1. IdleInv /\ [SessionNext]_sessionVars =>
          [\A id \in issued :
             Resume(id) /\ cleanupDue # Stopped =>
               Idle(id) <= MaxSessionAge + CleanupInterval]_sessionVars
    <2> SUFFICES ASSUME IdleInv, NEW id \in issued, Resume(id), cleanupDue # Stopped
                 PROVE  Idle(id) <= MaxSessionAge + CleanupInterval
      OBVIOUS
    <2> DEFINE last == ValueOf(sessions, id)
    <2>1. /\ cleanupDue \in Nat /\ time \in Nat /\ time <= cleanupDue
          /\ last \in 1..time /\ last >= cleanupDue - CleanupInterval - MaxSessionAge
      BY DEF IdleInv, TimesInv, Resume, Has
    <2>2. Idle(id) = time - last
      BY DEF Idle
    <2> HIDE DEF last
    <2> QED
      BY <2>1, <2>2, SessionConstants
  <1> QED
    BY <1>1, InitIdle, NextIdle, PTL DEF SessionSpec, StaleNotResumed
-----------------------------------------------------------------------------
(* AdaptiveLimiter.  Sums(q) is a recursive function: it has the values    *)
(* its definition promises because such a function exists up to every      *)
(* position, by induction on the position.                                 *)
IsSums(f, q, n) ==
  f = [i \in 0..n |-> IF i = 0 THEN 0 ELSE f[i - 1] + q[i]]

LEMMA SumsUpTo ==
  ASSUME NEW q, NEW L \in Nat
  PROVE  \E f : IsSums(f, q, L)
  <1> DEFINE T == {n \in Nat : ~ \E f : IsSums(f, q, n)}
  <1> SUFFICES ASSUME T # {} PROVE FALSE
    OBVIOUS
  <1>1. PICK n \in T : \A m \in T : n <= m
    BY LeastOf
  <1>2. n \in Nat /\ n # 0
    <2>1. IsSums([i \in 0..0 |-> 0], q, 0)
      BY DEF IsSums
    <2> QED
      BY <1>1, <2>1
  <1>3. n - 1 \in Nat /\ n - 1 \notin T
    BY <1>1, <1>2
  <1>4. PICK f : IsSums(f, q, n - 1)
    BY <1>3
  <1> DEFINE g == [i \in 0..n |-> IF i < n THEN f[i] ELSE f[n - 1] + q[n]]
  <1>5. ASSUME NEW i \in 0..n
        PROVE  g[i] = IF i = 0 THEN 0 ELSE g[i - 1] + q[i]
    <2>1. \A j \in 0..n - 1 : g[j] = f[j]
      BY <1>2
    <2>2. \A j \in 0..n - 1 : f[j] = IF j = 0 THEN 0 ELSE f[j - 1] + q[j]
      BY <1>4 DEF IsSums
    <2>3. g[n] = f[n - 1] + q[n]
      BY <1>2
    <2> HIDE DEF g
    <2>4. CASE i = n
      BY <1>2, <2>1, <2>3, <2>4
    <2>5. CASE i # n
      <3>1. i \in 0..n - 1 /\ (i # 0 => i - 1 \in 0..n - 1)
        BY <1>2, <2>5
      <3> QED
        BY <2>1, <2>2, <3>1
    <2> QED
      BY <2>4, <2>5
  <1>6. IsSums(g, q, n)
    <2> DEFINE h == [i \in 0..n |-> IF i = 0 THEN 0 ELSE g[i - 1] + q[i]]
    <2>1. g = [i \in 0..n |-> g[i]]
      OBVIOUS
    <2>2. \A i \in 0..n : g[i] = h[i]
      BY <1>5
    <2> HIDE DEF g
    <2>3. g = h
      BY <2>1, <2>2
    <2> QED
      BY <2>3 DEF IsSums
  <1> QED
    BY <1>1, <1>6

LEMMA SumsFacts ==
  ASSUME NEW q \in Seq(Nat)
  PROVE  /\ Sums(q)[0] = 0
         /\ \A i \in 1..Len(q) : Sums(q)[i] = Sums(q)[i - 1] + q[i]
  <1> Len(q) \in Nat
    OBVIOUS
  <1>1. PICK f : IsSums(f, q, Len(q))
    BY SumsUpTo
  <1>2. Sums(q) = [i \in 0..Len(q) |-> IF i = 0 THEN 0 ELSE Sums(q)[i - 1] + q[i]]
    BY <1>1 DEF IsSums, Sums
  <1> DEFINE s == Sums(q)
  <1>3. \A i \in 0..Len(q) : s[i] = IF i = 0 THEN 0 ELSE s[i - 1] + q[i]
    BY <1>2
  <1> QED
    BY <1>3

\* The numbers add up to a natural number, positive once one of them is.
LEMMA TotalFacts ==
  ASSUME NEW q \in Seq(Nat)
  PROVE  Total(q) \in Nat /\ \A j \in 1..Len(q) : q[j] > 0 => Total(q) > 0
  <1> DEFINE s == Sums(q)
             L == Len(q)
  <1>1. L \in Nat /\ \A i \in 1..L : q[i] \in Nat
    OBVIOUS
  <1>2. s[0] = 0 /\ \A i \in 1..L : s[i] = s[i - 1] + q[i]
    BY SumsFacts
  <1> HIDE DEF s
  <1>3. \A i \in 0..L : s[i] \in Nat
    <2> DEFINE T == {n \in 0..L : s[n] \notin Nat}
    <2> SUFFICES ASSUME T # {} PROVE FALSE
      OBVIOUS
    <2> T \in SUBSET Nat
      BY <1>1
    <2>1. PICK n \in T : \A m \in T : n <= m
      BY LeastOf
    <2>2. n \in 1..L /\ n - 1 \in 0..L /\ n - 1 \notin T
      BY <1>1, <1>2, <2>1
    <2>3. s[n] = s[n - 1] + q[n] /\ s[n - 1] \in Nat /\ q[n] \in Nat
      BY <1>1, <1>2, <2>2
    <2> QED
      BY <2>1, <2>3
  <1>4. ASSUME NEW j \in 1..L, q[j] > 0
        PROVE  s[L] > 0
    <2> DEFINE T == {n \in j..L : ~(s[n] > 0)}
    <2> SUFFICES ASSUME T # {} PROVE FALSE
      BY <1>1
    <2> T \in SUBSET Nat
      BY <1>1
    <2>1. PICK n \in T : \A m \in T : n <= m
      BY LeastOf
    <2>2. /\ n \in 1..L /\ n - 1 \in 0..L /\ s[n] = s[n - 1] + q[n]
          /\ s[n - 1] \in Nat /\ q[n] \in Nat
      BY <1>1, <1>2, <1>3, <2>1
    <2>3. CASE n = j
      BY <1>4, <2>1, <2>2, <2>3
    <2>4. CASE n # j
      <3>1. n - 1 \in j..L /\ n - 1 \notin T
        BY <1>1, <2>1, <2>2, <2>4
      <3> QED
        BY <2>1, <2>2, <3>1
    <2> QED
      BY <2>3, <2>4
  <1> QED
    BY <1>1, <1>3, <1>4 DEF Total, s

\* While an attack is on, the intervals without requests so far are those
\* after one that had some, and the history still remembers that one.
StillRemembered(history, quiet) ==
  Len(history) >= 5 /\ Len(history) > quiet /\ history[Len(history) - quiet] > 0

AttackInv ==
  /\ rates \in Seq(Nat) /\ Len(rates) <= HistorySize /\ counted \in Nat
  /\ multiplier \in 10..30 /\ attack \in BOOLEAN /\ idle \in 0..11
  /\ ~attack => multiplier = 10
  /\ attack => multiplier + 2 * idle <= 30 /\ StillRemembered(rates, idle)

\* The history after one more interval.
LEMMA HistoryFacts ==
  ASSUME NEW history \in Seq(Nat), NEW requests \in Nat, Len(history) <= HistorySize,
         NEW all, all = Append(history, requests),
         NEW kept, kept = IF Len(all) > HistorySize THEN Tail(all) ELSE all
  PROVE  /\ kept \in Seq(Nat) /\ Len(kept) \in Nat /\ Len(kept) <= HistorySize
         /\ Len(kept) > 0 /\ kept[Len(kept)] = requests
         /\ \A quiet \in 0..10 :
              StillRemembered(history, quiet) => StillRemembered(kept, quiet + 1)
  <1> DEFINE L == Len(history)
  <1>1. /\ HistorySize \in Nat /\ HistorySize > 11 /\ L \in Nat /\ L <= HistorySize
        /\ all \in Seq(Nat) /\ Len(all) = L + 1 /\ all[L + 1] = requests
        /\ \A i \in 1..L : all[i] = history[i]
    BY AdaptiveAssumption
  <1>2. ASSUME NEW quiet \in 0..10, StillRemembered(history, quiet)
        PROVE  L >= 5 /\ L > quiet /\ history[L - quiet] > 0
    BY <1>2 DEF StillRemembered
  <1> HIDE DEF L
  <1>3. CASE L < HistorySize
    <2>1. kept = all /\ Len(kept) = L + 1
      BY <1>1, <1>3
    <2>2. ASSUME NEW quiet \in 0..10, StillRemembered(history, quiet)
          PROVE  StillRemembered(kept, quiet + 1)
      <3>0. L >= 5 /\ L > quiet /\ history[L - quiet] > 0
        BY <1>2, <2>2
      <3>1. /\ L + 1 - (quiet + 1) = L - quiet /\ L - quiet \in 1..L
            /\ L + 1 >= 5 /\ L + 1 > quiet + 1
        BY <1>1, <3>0
      <3>2. kept[L - quiet] > 0
        BY <1>1, <2>1, <3>0, <3>1
      <3>3. kept[Len(kept) - (quiet + 1)] > 0
        <4>1. Len(kept) - (quiet + 1) = L - quiet
          BY <1>1, <2>1
        <4> QED
          BY <3>2, <4>1
      <3>4. Len(kept) >= 5 /\ Len(kept) > quiet + 1
        BY <2>1, <3>1
      <3> QED
        BY <3>3, <3>4 DEF StillRemembered
    <2>3. /\ kept \in Seq(Nat) /\ Len(kept) \in Nat /\ Len(kept) <= HistorySize
          /\ Len(kept) > 0 /\ kept[Len(kept)] = requests
      BY <1>1, <1>3, <2>1
    <2> HIDE DEF L
    <2> QED
      BY <2>2, <2>3, Zenon
  <1>4. CASE L = HistorySize
    <2>1. /\ kept = Tail(all) /\ kept \in Seq(Nat) /\ Len(kept) = L
          /\ \A i \in 1..L : kept[i] = all[i + 1]
      BY <1>1, <1>4
    <2>2. ASSUME NEW quiet \in 0..10, StillRemembered(history, quiet)
          PROVE  StillRemembered(kept, quiet + 1)
      <3>1. /\ L - (quiet + 1) \in 1..L /\ (L - (quiet + 1)) + 1 = L - quiet
            /\ L - quiet \in 1..L /\ L >= 5 /\ L > quiet + 1
        BY <1>1, <1>4
      <3>2. kept[L - (quiet + 1)] = all[(L - (quiet + 1)) + 1]
        BY <2>1, <3>1
      <3>3. kept[L - (quiet + 1)] = history[L - quiet] /\ history[L - quiet] > 0
        BY <1>1, <1>2, <2>2, <3>1, <3>2
      <3> QED
        BY <2>1, <3>1, <3>3 DEF StillRemembered
    <2>3. kept[L] = requests /\ L > 0
      BY <1>1, <1>4, <2>1
    <2> QED
      BY <1>1, <1>4, <2>1, <2>2, <2>3
  <1> QED
    BY <1>1, <1>3, <1>4

LEMMA AttackInvInit == AdaptiveInit => AttackInv
  <1> SUFFICES ASSUME AdaptiveInit PROVE AttackInv
    OBVIOUS
  <1>1. rates = <<>> /\ counted = 0 /\ multiplier = 10 /\ attack = FALSE /\ idle = 0
    BY DEF AdaptiveInit
  <1>2. rates \in Seq(Nat) /\ Len(rates) = 0 /\ Len(rates) <= HistorySize
    BY <1>1, AdaptiveAssumption
  <1>3. attack \in BOOLEAN /\ ~attack
    BY <1>1
  <1>4. counted \in Nat /\ multiplier \in 10..30 /\ idle \in 0..11
    BY <1>1
  <1> QED
    BY <1>1, <1>2, <1>3, <1>4 DEF AttackInv

LEMMA CheckKeeps == AttackInv /\ Check => AttackInv'
  BY AdaptiveAssumption DEF AttackInv, Check, StillRemembered

\* A step back never goes below 1.0, and the attack is over only there.
LEMMA RelaxFacts ==
  ASSUME NEW m \in 10..30, multiplier = m
  PROVE  /\ Relaxed \in 10..30 /\ Relaxed <= m
         /\ \A on \in AttackGoesOn :
              /\ on \in BOOLEAN
              /\ ~on => Relaxed = 10
              /\ on => Relaxed = m - 2
  <1>1. CASE m = 12
    <2>1. Relaxed = 10 /\ m - 2 = 10
      BY <1>1 DEF Relaxed
    <2> QED
      BY <1>1, <2>1 DEF AttackGoesOn
  <1>2. CASE m # 12
    <2>1. /\ Relaxed \in 10..30 /\ Relaxed <= m
          /\ ~(Relaxed > 10) => Relaxed = 10
          /\ Relaxed > 10 => Relaxed = m - 2
      BY DEF Relaxed
    <2>2. AttackGoesOn = {Relaxed > 10} /\ (Relaxed > 10) \in BOOLEAN
      BY <1>2 DEF AttackGoesOn
    <2> QED
      BY <2>1, <2>2
  <1> QED
    BY <1>1, <1>2

LEMMA AnalyzeKeeps == AttackInv /\ AnalyzeTraffic => AttackInv'
  <1> SUFFICES ASSUME AttackInv, AnalyzeTraffic PROVE AttackInv'
    OBVIOUS
  <1> DEFINE all == Append(rates, counted)
             kept == IF Len(all) > HistorySize THEN Tail(all) ELSE all
             n == Len(kept)
             s == Total(kept)
             spread == n * Total([i \in DOMAIN kept |-> kept[i] * kept[i]]) - s * s
             above == n * counted - s
             short == 10 * n - s
             spike == /\ above > 0 /\ above * above > 4 * spread
                      /\ short < 0 \/ 4 * spread > short * short
             normal == above < 0 \/ above * above < spread
  <1>1. /\ rates' = kept /\ counted' = 0
        /\ idle' = IF counted > 0 THEN 0 ELSE IF idle < 11 THEN idle + 1 ELSE idle
        /\ IF n >= 5 /\ spike
             THEN attack' = TRUE /\ multiplier' = Tightened
             ELSE IF n >= 5 /\ attack /\ normal
             THEN multiplier' = Relaxed /\ attack' \in AttackGoesOn
             ELSE attack' = attack /\ multiplier' = multiplier
    BY DEF AnalyzeTraffic
  <1>2. /\ kept \in Seq(Nat) /\ n \in Nat /\ n <= HistorySize /\ n > 0 /\ kept[n] = counted
        /\ \A quiet \in 0..10 :
             StillRemembered(rates, quiet) => StillRemembered(kept, quiet + 1)
    <2>1. rates \in Seq(Nat) /\ counted \in Nat /\ Len(rates) <= HistorySize
      BY DEF AttackInv
    <2> HIDE DEF all, kept
    <2>2. kept = IF Len(all) > HistorySize THEN Tail(all) ELSE all
      BY DEF kept
    <2>3. all = Append(rates, counted)
      BY DEF all
    <2> QED
      BY HistoryFacts, <2>1, <2>2, <2>3
  <1>3. s \in Nat /\ \A j \in 1..n : kept[j] > 0 => s > 0
    BY <1>2, TotalFacts
  <1>4. counted = 0 => ~(above > 0) /\ (s > 0 => above < 0)
    BY <1>2, <1>3
  <1>5. spike => counted > 0
    BY <1>4 DEF AttackInv
  <1>6. s > 0 /\ counted = 0 => normal
    BY <1>4
  <1> HIDE DEF kept, n, s, spread, above, short, spike, normal
  <1>7. counted > 0 /\ n >= 5 => StillRemembered(kept, 0)
    BY <1>2 DEF StillRemembered, n
  <1>8. attack => n >= 5
    <2> SUFFICES ASSUME attack PROVE n >= 5
      OBVIOUS
    <2>1. idle \in 0..10 /\ StillRemembered(rates, idle)
      BY DEF AttackInv
    <2> QED
      BY <1>2, <2>1 DEF StillRemembered, n
  <1>9. CASE n >= 5 /\ spike
    <2>1. Tightened \in 10..30 /\ idle' = 0 /\ counted > 0
      BY <1>1, <1>5, <1>9 DEF Tightened, AttackInv
    <2> QED
      BY <1>1, <1>2, <1>7, <1>9, <2>1 DEF AttackInv, n
  <1>10. CASE ~(n >= 5 /\ spike) /\ attack /\ normal
    <2>1. multiplier' = Relaxed /\ attack' \in AttackGoesOn
      BY <1>1, <1>8, <1>10
    <2>2. /\ multiplier' \in 10..30 /\ attack' \in BOOLEAN
          /\ ~attack' => multiplier' = 10
          /\ attack' => multiplier' = multiplier - 2
      BY <2>1, RelaxFacts DEF AttackInv
    <2>3. CASE counted > 0
      <3>1. /\ idle' = 0 /\ StillRemembered(kept, 0)
            /\ rates' = kept /\ counted' = 0 /\ kept \in Seq(Nat) /\ Len(kept) <= HistorySize
        BY <1>1, <1>2, <1>7, <1>8, <1>10, <2>3 DEF n
      <3>2. 0 \in 0..11 /\ multiplier' + 2 * 0 <= 30
        <4> DEFINE m == multiplier'
        <4>1. m \in 10..30
          BY <2>2
        <4> HIDE DEF m
        <4>2. 0 \in 0..11 /\ m + 2 * 0 <= 30
          BY <4>1
        <4> QED
          BY <4>2 DEF m
      <3>3. \A x : x = 0 => (x \in 0..11 /\ StillRemembered(kept, x)
                              /\ (attack' => multiplier' + 2 * x <= 30))
        BY <3>1, <3>2
      <3> QED
        BY <2>2, <3>1, <3>3 DEF AttackInv
    <2>4. CASE counted = 0
      <3>1. idle \in 0..10 /\ StillRemembered(rates, idle) /\ multiplier + 2 * idle <= 30
        BY <1>10 DEF AttackInv
      <3>2. idle' = idle + 1 /\ StillRemembered(kept, idle + 1)
        BY <1>1, <1>2, <2>4, <3>1
      <3>3. rates' = kept /\ counted' = 0 /\ kept \in Seq(Nat) /\ Len(kept) <= HistorySize
        BY <1>1, <1>2 DEF n
      <3>4. attack' => multiplier' + 2 * (idle + 1) <= 30
        <4>1. multiplier \in Int
          BY DEF AttackInv
        <4> QED
          BY <2>2, <3>1, <4>1
      <3>5. idle + 1 \in 0..11
        BY <3>1
      <3> QED
        BY <2>2, <3>2, <3>3, <3>4, <3>5 DEF AttackInv
    <2> QED
      BY <2>3, <2>4 DEF AttackInv
  <1>11. CASE ~(n >= 5 /\ spike) /\ ~(attack /\ normal)
    <2>1. attack' = attack /\ multiplier' = multiplier
      BY <1>1, <1>11
    <2>2. CASE attack
      <3>1. idle \in 0..10 /\ StillRemembered(rates, idle) /\ multiplier + 2 * idle <= 30
        BY <2>2 DEF AttackInv
      <3>2. StillRemembered(kept, idle + 1)
        BY <1>2, <3>1
      <3>3. n - (idle + 1) \in 1..n /\ kept[n - (idle + 1)] > 0
        <4>1. n > idle + 1 /\ kept[n - (idle + 1)] > 0
          BY <3>2 DEF StillRemembered, n
        <4> QED
          BY <1>2, <3>1, <4>1
      <3>4. counted > 0
        BY <1>3, <1>6, <1>11, <2>2, <3>3 DEF AttackInv
      <3>5. idle' = 0 /\ StillRemembered(kept, 0)
        BY <1>1, <1>7, <1>8, <2>2, <3>4
      <3> QED
        BY <1>1, <1>2, <2>1, <2>2, <3>5 DEF AttackInv, n
    <2>3. CASE ~attack
      BY <1>1, <1>2, <2>1, <2>3 DEF AttackInv, n
    <2> QED
      BY <2>2, <2>3
  <1> QED
    BY <1>9, <1>10, <1>11

\* "Limits relax to avoid false positives", whatever the traffic: requests
\* cost more exactly while an attack is on, and no attack outlasts eleven
\* intervals without a request, for every size of the history above eleven.
\* The history must still remember the last interval that had requests: only
\* because of it is an idle interval below what is normal.
THEOREM AttackAlways == AdaptiveSpec => []AttackEnds
  <1>1. AttackInv /\ [AdaptiveNext]_adaptiveVars => AttackInv'
    <2>1. AttackInv /\ UNCHANGED adaptiveVars => AttackInv'
      BY DEF AttackInv, adaptiveVars
    <2> QED
      BY <2>1, CheckKeeps, AnalyzeKeeps DEF AdaptiveNext
  <1>2. AttackInv => AttackEnds
    BY DEF AttackInv, AttackEnds, Cost
  <1> QED
    BY <1>1, <1>2, AttackInvInit, PTL DEF AdaptiveSpec

-----------------------------------------------------------------------------
(* AddressTrackers: what is reported of an address has happened.           *)

IsStepwise(f, n, S, first, g) ==
  /\ f \in [0..n -> S] /\ f[0] = first
  /\ \A i \in 1..n : f[i] = g[<<f[i - 1], i>>]

\* A function over 0..n that begins with first and goes on with g exists.
LEMMA StepwiseExists ==
  ASSUME NEW n \in Nat, NEW S, NEW first \in S, NEW g \in [S \X (1..n) -> S]
  PROVE  \E f : IsStepwise(f, n, S, first, g)
<1> DEFINE Good(m) == \E f : IsStepwise(f, m, S, first, g)
           Bad == {m \in 0..n : ~Good(m)}
<1>0. Good(0)
  <2> DEFINE f == [i \in 0..0 |-> first]
  <2>1. IsStepwise(f, 0, S, first, g)
    <3>1. f \in [0..0 -> S] /\ f[0] = first
      OBVIOUS
    <3>2. \A i \in 1..0 : FALSE
      OBVIOUS
    <3> HIDE DEF f
    <3> QED
      BY <3>1, <3>2 DEF IsStepwise
  <2> HIDE DEF f
  <2> QED
    BY <2>1
<1> HIDE DEF Good
<1> SUFFICES ASSUME Bad # {} PROVE FALSE
  <2>1. n \in 0..n
    OBVIOUS
  <2> QED
    BY <2>1 DEF Good
<1>1. PICK m \in Bad : \A k \in Bad : m <= k
  <2>1. Bad \in SUBSET Nat
    OBVIOUS
  <2> HIDE DEF Bad
  <2> QED
    BY <2>1, LeastOf
<1>2. m \in 1..n /\ Good(m - 1)
  BY <1>0, <1>1
<1>3. PICK f : IsStepwise(f, m - 1, S, first, g)
  BY <1>2 DEF Good
<1> DEFINE new == g[<<f[m - 1], m>>]
           h == [i \in 0..m |-> IF i = m THEN new ELSE f[i]]
<1>4. f \in [0..(m - 1) -> S] /\ f[0] = first
      /\ \A i \in 1..(m - 1) : f[i] = g[<<f[i - 1], i>>]
  BY <1>3 DEF IsStepwise
<1>5. f[m - 1] \in S
  BY <1>2, <1>4
<1>6. new \in S
  BY <1>2, <1>5
<1>7. h[m] = g[<<f[m - 1], m>>] /\ \A i \in 0..(m - 1) : h[i] = f[i]
  BY <1>2
<1>8. h \in [0..m -> S]
  <2> HIDE DEF new
  <2>1. \A i \in 0..m : i # m => f[i] \in S
    BY <1>2, <1>4
  <2> QED
    BY <1>6, <2>1
<1> HIDE DEF h, new
<1>9. h[0] = first
  BY <1>2, <1>4, <1>7
<1>10. \A i \in 1..m : h[i] = g[<<h[i - 1], i>>]
  <2> SUFFICES ASSUME NEW i \in 1..m PROVE h[i] = g[<<h[i - 1], i>>]
    OBVIOUS
  <2>1. h[i - 1] = f[i - 1]
    <3>1. i - 1 \in 0..(m - 1)
      BY <1>2
    <3> QED
      BY <3>1, <1>7
  <2>2. CASE i = m
    BY <1>7, <2>1, <2>2
  <2>3. CASE i # m
    <3>1. i \in 1..(m - 1) /\ i \in 0..(m - 1)
      BY <1>2, <2>3
    <3> QED
      BY <3>1, <1>4, <1>7, <2>1
  <2> QED
    BY <2>2, <2>3
<1>11. Good(m)
  BY <1>8, <1>9, <1>10 DEF IsStepwise, Good
<1> QED
  BY <1>1, <1>11

IsYounger(f, visits, span) ==
  f = [i \in 0..Len(visits) |->
         IF i = 0 THEN <<>>
         ELSE IF date - visits[i].at < span THEN Append(f[i - 1], visits[i])
         ELSE f[i - 1]]

LEMMA YoungerExists ==
  ASSUME NEW T, NEW visits \in Seq(T), NEW span
  PROVE  \E f : IsYounger(f, visits, span)
<1> DEFINE n == Len(visits)
           step(s, i) == IF date - visits[i].at < span THEN Append(s, visits[i]) ELSE s
           g == [x \in Seq(T) \X (1..n) |-> step(x[1], x[2])]
<1>1. n \in Nat /\ <<>> \in Seq(T)
  OBVIOUS
<1>2. \A s \in Seq(T), i \in 1..n : step(s, i) \in Seq(T)
  <2> SUFFICES ASSUME NEW s \in Seq(T), NEW i \in 1..n PROVE step(s, i) \in Seq(T)
    OBVIOUS
  <2>1. visits[i] \in T
    OBVIOUS
  <2>2. Append(s, visits[i]) \in Seq(T)
    BY <2>1
  <2> QED
    BY <2>2
<1> HIDE DEF n, step
<1>3. /\ g \in [Seq(T) \X (1..n) -> Seq(T)]
      /\ \A s \in Seq(T), i \in 1..n : g[<<s, i>>] = step(s, i)
  BY <1>2
<1> HIDE DEF g
<1>4. PICK f : IsStepwise(f, n, Seq(T), <<>>, g)
  BY <1>1, <1>3, StepwiseExists
<1>5. /\ f = [i \in 0..n |-> f[i]] /\ f[0] = <<>>
      /\ \A i \in 0..n : f[i] \in Seq(T)
      /\ \A i \in 1..n : f[i] = g[<<f[i - 1], i>>]
  BY <1>4 DEF IsStepwise
<1>6. \A i \in 1..n : f[i] = step(f[i - 1], i)
  <2> SUFFICES ASSUME NEW i \in 1..n PROVE f[i] = step(f[i - 1], i)
    OBVIOUS
  <2>1. i - 1 \in 0..n
    BY <1>1
  <2> QED
    BY <1>3, <1>5, <2>1
<1> DEFINE h == [i \in 0..n |-> IF i = 0 THEN <<>> ELSE step(f[i - 1], i)]
<1>7. \A i \in 0..n : f[i] = h[i]
  <2> SUFFICES ASSUME NEW i \in 0..n PROVE f[i] = h[i]
    OBVIOUS
  <2>1. CASE i = 0
    BY <1>5, <2>1
  <2>2. CASE i # 0
    <3>1. i \in 1..n
      BY <1>1, <2>2
    <3> QED
      BY <1>6, <2>2, <3>1
  <2> QED
    BY <2>1, <2>2
<1>8. f = h
  <2> HIDE DEF h
  <2>1. h = [i \in 0..n |-> h[i]]
    BY DEF h
  <2> QED
    BY <1>5, <1>7, <2>1
<1>9. IsYounger(f, visits, span)
  BY <1>8, Zenon DEF IsYounger, n, step, h
<1> QED
  BY <1>9

\* The visits at the positions pos: all of the first n that are young, in any
\* case each of them once.
Picks(pos, young, visits, n, span) ==
  /\ pos \in [1..Len(young) -> 1..n]
  /\ \A k, j \in 1..Len(young) : pos[k] = pos[j] => k = j
  /\ \A k \in 1..Len(young) : /\ young[k] = visits[pos[k]]
                              /\ date - visits[pos[k]].at < span
  /\ \A i \in 1..n : date - visits[i].at < span =>
                       \E k \in 1..Len(young) : pos[k] = i

Picked(young, visits, n, span) == \E pos : Picks(pos, young, visits, n, span)

LEMMA PickOneMore ==
  ASSUME NEW T, NEW visits \in Seq(T), NEW span, NEW young \in Seq(T),
         NEW i \in 1..Len(visits), Picked(young, visits, i - 1, span),
         date - visits[i].at < span
  PROVE  Picked(Append(young, visits[i]), visits, i, span)
<1> DEFINE n == Len(young)
           more == Append(young, visits[i])
<1>1. PICK pos : Picks(pos, young, visits, i - 1, span)
  BY DEF Picked
<1> DEFINE to == [k \in 1..(n + 1) |-> IF k = n + 1 THEN i ELSE pos[k]]
<1>2. /\ n \in Nat /\ i \in Nat /\ i \in 1..i /\ n + 1 \in 1..(n + 1)
      /\ \A k \in 1..(n + 1) : k = n + 1 \/ k \in 1..n
      /\ \A k \in 1..n : k # n + 1 /\ k \in 1..(n + 1)
      /\ \A j \in 1..i : j = i \/ j \in 1..(i - 1)
      /\ \A j \in 1..(i - 1) : j # i /\ j \in 1..i
  OBVIOUS
<1>3. /\ Len(more) = n + 1 /\ more[n + 1] = visits[i]
      /\ \A k \in 1..n : more[k] = young[k]
  OBVIOUS
<1>4. /\ \A k \in 1..n : pos[k] \in 1..(i - 1)
      /\ \A k, j \in 1..n : pos[k] = pos[j] => k = j
      /\ \A k \in 1..n : young[k] = visits[pos[k]] /\ date - visits[pos[k]].at < span
      /\ \A j \in 1..(i - 1) : date - visits[j].at < span => \E k \in 1..n : pos[k] = j
  BY <1>1 DEF Picks
<1> HIDE DEF n, more
<1>5. /\ to \in [1..(n + 1) -> 1..i] /\ to[n + 1] = i
      /\ \A k \in 1..n : to[k] = pos[k]
  BY <1>2, <1>4
<1> HIDE DEF to
<1>6. \A k, j \in 1..(n + 1) : to[k] = to[j] => k = j
  <2> SUFFICES ASSUME NEW k \in 1..(n + 1), NEW j \in 1..(n + 1), to[k] = to[j]
               PROVE  k = j
    OBVIOUS
  <2>1. \A l \in 1..n : to[l] = pos[l] /\ to[l] # i
    BY <1>2, <1>4, <1>5
  <2>2. CASE k = n + 1
    BY <1>2, <1>5, <2>1, <2>2
  <2>3. CASE k # n + 1
    <3>1. k \in 1..n /\ to[k] = pos[k]
      BY <1>2, <1>5, <2>3
    <3>2. j # n + 1
      BY <1>5, <2>1, <3>1
    <3>3. j \in 1..n /\ to[j] = pos[j]
      BY <1>2, <1>5, <3>2
    <3> QED
      BY <1>4, <3>1, <3>3
  <2> QED
    BY <2>2, <2>3
<1>7. \A k \in 1..(n + 1) : /\ more[k] = visits[to[k]]
                            /\ date - visits[to[k]].at < span
  <2> SUFFICES ASSUME NEW k \in 1..(n + 1)
               PROVE  more[k] = visits[to[k]] /\ date - visits[to[k]].at < span
    OBVIOUS
  <2>1. CASE k = n + 1
    BY <1>3, <1>5, <2>1
  <2>2. CASE k \in 1..n
    <3>1. more[k] = young[k] /\ to[k] = pos[k]
      BY <1>3, <1>5, <2>2
    <3> QED
      BY <1>4, <2>2, <3>1
  <2> QED
    BY <1>2, <2>1, <2>2
<1>8. \A j \in 1..i : date - visits[j].at < span => \E k \in 1..(n + 1) : to[k] = j
  <2> SUFFICES ASSUME NEW j \in 1..i, date - visits[j].at < span
               PROVE  \E k \in 1..(n + 1) : to[k] = j
    OBVIOUS
  <2>1. CASE j = i
    BY <1>2, <1>5, <2>1
  <2>2. CASE j \in 1..(i - 1)
    <3>1. PICK k \in 1..n : pos[k] = j
      BY <1>4, <2>2
    <3> QED
      BY <1>2, <1>5, <3>1
  <2> QED
    BY <1>2, <2>1, <2>2
<1>9. Picks(to, more, visits, i, span)
  BY <1>3, <1>5, <1>6, <1>7, <1>8 DEF Picks
<1> QED
  BY <1>9 DEF Picked, more

\* filter() keeps the young visits.
LEMMA YoungerFacts ==
  ASSUME NEW T, NEW visits \in Seq(T), NEW span
  PROVE  /\ Younger(visits, span) \in Seq(T)
         /\ Picked(Younger(visits, span), visits, Len(visits), span)
<1> DEFINE f == CHOOSE x : IsYounger(x, visits, span)
           n == Len(visits)
<1>1. IsYounger(f, visits, span)
  BY YoungerExists
<1>2. Younger(visits, span) = f[n]
  BY DEF Younger, IsYounger
<1> HIDE DEF f
<1>3. f = [i \in 0..n |-> IF i = 0 THEN <<>>
                          ELSE IF date - visits[i].at < span
                            THEN Append(f[i - 1], visits[i])
                          ELSE f[i - 1]]
  BY <1>1, Zenon DEF IsYounger, n
<1>4. n \in Nat
  OBVIOUS
<1> HIDE DEF n
<1>5. /\ f[0] = <<>>
      /\ \A i \in 1..n : f[i] = IF date - visits[i].at < span
                                  THEN Append(f[i - 1], visits[i]) ELSE f[i - 1]
  <2> DEFINE h == [i \in 0..n |-> IF i = 0 THEN <<>>
                                  ELSE IF date - visits[i].at < span
                                    THEN Append(f[i - 1], visits[i])
                                  ELSE f[i - 1]]
  <2>1. /\ h[0] = <<>>
        /\ \A i \in 1..n : h[i] = IF date - visits[i].at < span
                                    THEN Append(f[i - 1], visits[i]) ELSE f[i - 1]
    BY <1>4
  <2>2. f = h
    BY <1>3
  <2> HIDE DEF h
  <2> QED
    BY <2>1, <2>2
<1> DEFINE Good(i) == f[i] \in Seq(T) /\ Picked(f[i], visits, i, span)
           Bad == {i \in 0..n : ~Good(i)}
<1>6. Good(0)
  <2>1. Picks(<<>>, <<>>, visits, 0, span)
    BY DEF Picks
  <2>2. f[0] \in Seq(T)
    BY <1>5
  <2> QED
    BY <1>5, <2>1, <2>2 DEF Picked
<1>7. ASSUME NEW i \in 1..n, Good(i - 1) PROVE Good(i)
  <2>1. i \in 1..Len(visits) /\ visits[i] \in T
    BY DEF n
  <2>2. CASE date - visits[i].at < span
    <3>1. f[i] = Append(f[i - 1], visits[i])
      BY <1>5, <2>2
    <3> QED
      BY <1>7, <2>1, <2>2, <3>1, PickOneMore
  <2>3. CASE ~(date - visits[i].at < span)
    <3>1. f[i] = f[i - 1]
      BY <1>5, <2>3
    <3>2. PICK pos : Picks(pos, f[i - 1], visits, i - 1, span)
      BY <1>7 DEF Picked
    <3>3. \A j \in 1..i : date - visits[j].at < span => j \in 1..(i - 1)
      BY <2>3
    <3>4. \A j \in 1..(i - 1) : j \in 1..i
      OBVIOUS
    <3>5. Picks(pos, f[i], visits, i, span)
      BY <3>1, <3>2, <3>3, <3>4 DEF Picks
    <3> QED
      BY <1>7, <3>1, <3>5 DEF Picked
  <2> QED
    BY <2>2, <2>3
<1> HIDE DEF Good
<1>8. Bad = {}
  <2> SUFFICES ASSUME Bad # {} PROVE FALSE
    OBVIOUS
  <2>1. Bad \in SUBSET Nat
    OBVIOUS
  <2>2. PICK i \in Bad : \A k \in Bad : i <= k
    <3> HIDE DEF Bad
    <3> QED
      BY <2>1, LeastOf
  <2>3. i \in 1..n /\ i - 1 \in 0..n /\ i - 1 \notin Bad
    BY <1>4, <1>6, <2>2
  <2> QED
    BY <1>7, <2>2, <2>3
<1>9. Good(n)
  BY <1>4, <1>8
<1> QED
  BY <1>2, <1>9 DEF Good, n

-----------------------------------------------------------------------------
(* Requests that exceed a rate over a longer time exceed half of it within *)
(* one minute.                                                             *)

LEMMA TimesGrow ==
  ASSUME NEW i \in Nat, NEW j \in Nat, NEW k \in Nat, i <= j
  PROVE  i * k <= j * k /\ k * i <= k * j /\ i * k \in Nat /\ j * k \in Nat
  OBVIOUS

LEMMA OneMore ==
  ASSUME NEW i \in Nat, NEW k \in Nat
  PROVE  (i + 1) * k = i * k + k /\ i * k \in Nat
  OBVIOUS

\* The requests of R from x to y.
During(R, at, x, y) == {i \in R : at[i] \in x..y}

LEMMA DuringFacts ==
  ASSUME NEW R, IsFiniteSet(R), NEW at, NEW x, NEW y
  PROVE  /\ IsFiniteSet(During(R, at, x, y))
         /\ Cardinality(During(R, at, x, y)) \in Nat
<1>1. During(R, at, x, y) \in SUBSET R
  BY DEF During
<1> QED
  BY <1>1, FS_Subset, FS_CardinalityType

LEMMA DuringGrows ==
  ASSUME NEW R, IsFiniteSet(R), NEW at, \A i \in R : at[i] \in Int,
         NEW x \in Int, NEW y \in Int, NEW z \in Int, y <= z
  PROVE  Cardinality(During(R, at, x, y)) <= Cardinality(During(R, at, x, z))
<1>1. During(R, at, x, y) \in SUBSET During(R, at, x, z)
  BY DEF During
<1> QED
  BY <1>1, DuringFacts, FS_Subset

LEMMA DuringSplits ==
  ASSUME NEW R, IsFiniteSet(R), NEW at, \A i \in R : at[i] \in Int,
         NEW x \in Int, NEW y \in Int, NEW z \in Int, x <= y, y <= z
  PROVE  Cardinality(During(R, at, x, z - 1))
           <= Cardinality(During(R, at, x, y - 1)) + Cardinality(During(R, at, y, z - 1))
<1> DEFINE A == During(R, at, x, y - 1)
           B == During(R, at, y, z - 1)
           C == During(R, at, x, z - 1)
<1>1. C \subseteq A \cup B
  BY DEF During
<1>2. /\ IsFiniteSet(A) /\ IsFiniteSet(B)
      /\ Cardinality(A) \in Nat /\ Cardinality(B) \in Nat /\ Cardinality(C) \in Nat
  BY DuringFacts
<1> HIDE DEF A, B, C
<1>3. IsFiniteSet(A \cup B) /\ IsFiniteSet(A \cap B)
      /\ Cardinality(A \cup B) = Cardinality(A) + Cardinality(B) - Cardinality(A \cap B)
  <2>1. A \cap B \in SUBSET A
    OBVIOUS
  <2> QED
    BY <1>2, <2>1, FS_Union, FS_Subset
<1>4. Cardinality(A \cap B) \in Nat /\ Cardinality(A \cup B) \in Nat
  BY <1>3, FS_CardinalityType
<1>5. Cardinality(C) <= Cardinality(A \cup B)
  <2>1. C \in SUBSET (A \cup B)
    BY <1>1
  <2> QED
    BY <1>3, <2>1, FS_Subset
<1>6. Cardinality(C) <= Cardinality(A) + Cardinality(B)
  BY <1>2, <1>3, <1>4, <1>5
<1> QED
  BY <1>6 DEF A, B, C

LEMMA MinutesAddUp ==
  ASSUME NEW R, IsFiniteSet(R), NEW at, \A i \in R : at[i] \in Int,
         NEW first \in Nat, NEW today \in Nat, first <= today,
         \A t \in 0..today :
           2 * Cardinality(During(R, at, t, t + Minute - 1)) <= MostPerMinute
  PROVE  \A n \in Nat :
           n * Minute <= today - first =>
             2 * Cardinality(During(R, at, first, (first + (n + 1) * Minute) - 1))
               <= (n + 1) * MostPerMinute
<1>0. Minute \in Nat \ {0} /\ MostPerMinute \in Nat
  BY TrackersAssumption
<1> DEFINE M == Minute
           most == MostPerMinute
           Good(n) == 2 * Cardinality(During(R, at, first, (first + (n + 1) * M) - 1))
                        <= (n + 1) * most
           Bad == {n \in Nat : n * M <= today - first /\ ~Good(n)}
<1>1. ASSUME NEW n \in Nat, n * M <= today - first,
             2 * Cardinality(During(R, at, first, (first + n * M) - 1)) <= n * most
      PROVE  Good(n)
  <2> DEFINE t == first + n * M
             last == first + (n + 1) * M
  <2>1. n * M \in Nat /\ (n + 1) * M = n * M + M /\ n * most \in Nat
        /\ (n + 1) * most = n * most + most
    BY <1>0, OneMore
  <2>2. t \in 0..today /\ t \in Int /\ last \in Int /\ first <= t /\ t <= last
        /\ last - 1 = t + Minute - 1
    BY <1>0, <1>1, <2>1
  <2>3. 2 * Cardinality(During(R, at, t, last - 1)) <= most
    BY <2>2
  <2> HIDE DEF t, last
  <2>4. Cardinality(During(R, at, first, last - 1))
          <= Cardinality(During(R, at, first, t - 1)) + Cardinality(During(R, at, t, last - 1))
    BY <2>2, DuringSplits
  <2>5. /\ Cardinality(During(R, at, first, last - 1)) \in Nat
        /\ Cardinality(During(R, at, first, t - 1)) \in Nat
        /\ Cardinality(During(R, at, t, last - 1)) \in Nat
    BY DuringFacts
  <2>6. 2 * Cardinality(During(R, at, first, t - 1)) <= n * most
    BY <1>1, Zenon DEF t
  <2> HIDE DEF most
  <2>7. most \in Nat
    BY <1>0 DEF most
  <2>8. 2 * Cardinality(During(R, at, first, last - 1)) <= n * most + most
    BY <2>1, <2>3, <2>4, <2>5, <2>6, <2>7
  <2> HIDE DEF M
  <2>9. 2 * Cardinality(During(R, at, first, last - 1)) <= (n + 1) * most
    BY <2>1, <2>8 DEF most
  <2> QED
    BY <2>9, Zenon DEF last
<1>2. Good(0)
  <2>1. During(R, at, first, (first + 0 * M) - 1) = {}
    BY <1>0 DEF During
  <2>2. 0 * M = 0 /\ 0 * most = 0
    BY <1>0
  <2>3. 2 * Cardinality(During(R, at, first, (first + 0 * M) - 1)) <= 0 * most
    <3>1. Cardinality(During(R, at, first, (first + 0 * M) - 1)) = 0
      BY <2>1, FS_EmptySet, Zenon
    <3> QED
      BY <2>2, <3>1
  <2> HIDE DEF Good
  <2> QED
    BY <1>1, <2>2, <2>3
<1>3. Bad = {}
  <2> SUFFICES ASSUME Bad # {} PROVE FALSE
    OBVIOUS
  <2> HIDE DEF Good
  <2>1. Bad \in SUBSET Nat
    OBVIOUS
  <2>2. PICK n \in Bad : \A k \in Bad : n <= k
    <3> HIDE DEF Bad
    <3> QED
      BY <2>1, LeastOf
  <2>3. n \in Nat /\ n # 0 /\ n - 1 \in Nat /\ ~(n <= n - 1) /\ n * M <= today - first
        /\ ~Good(n)
    BY <1>2, <2>2
  <2>4. (n - 1) * M <= n * M /\ (n - 1) * M \in Nat /\ n * M \in Nat
    BY <1>0, <2>3, TimesGrow
  <2>5. (n - 1) * M <= today - first
    BY <2>3, <2>4
  <2>6. Good(n - 1)
    BY <2>2, <2>3, <2>5
  <2>7. 2 * Cardinality(During(R, at, first, (first + n * M) - 1)) <= n * most
    <3>1. (n - 1) + 1 = n
      BY <2>3
    <3> QED
      BY <2>6, <3>1 DEF Good
  <2> QED
    BY <1>1, <2>3, <2>7
<1> QED
  BY <1>3

\* More requests than the rate allows, from first on: some minute had more than
\* half of the rate.
LEMMA SomeMinuteBusy ==
  ASSUME NEW R, IsFiniteSet(R), NEW at, \A i \in R : at[i] \in Int,
         NEW first \in Nat, NEW today \in Nat, first <= today,
         NEW count \in Nat, count <= Cardinality(During(R, at, first, today)),
         NEW span \in Nat, Minute <= span, today - first <= span,
         count * Minute > MostPerMinute * span
  PROVE  \E t \in 0..today :
           2 * Cardinality(During(R, at, t, t + Minute - 1)) > MostPerMinute
<1> SUFFICES ASSUME ~ \E t \in 0..today :
               2 * Cardinality(During(R, at, t, t + Minute - 1)) > MostPerMinute
             PROVE  FALSE
  OBVIOUS
<1>0. Minute \in Nat \ {0} /\ MostPerMinute \in Nat
  BY TrackersAssumption
<1>1. \A t \in 0..today :
        2 * Cardinality(During(R, at, t, t + Minute - 1)) <= MostPerMinute
  <2> SUFFICES ASSUME NEW t \in 0..today
               PROVE  2 * Cardinality(During(R, at, t, t + Minute - 1)) <= MostPerMinute
    OBVIOUS
  <2>1. Cardinality(During(R, at, t, t + Minute - 1)) \in Nat
    BY DuringFacts
  <2> QED
    BY <1>0, <2>1
<1> DEFINE old == today - first
           Beyond == {n \in Nat : n * Minute > old}
<1>2. old \in Nat
  OBVIOUS
<1>3. PICK n \in Beyond : \A k \in Beyond : n <= k
  <2>1. old + 1 \in Beyond
    <3>1. (old + 1) * 1 <= (old + 1) * Minute
      BY <1>0, <1>2, TimesGrow
    <3>2. (old + 1) * Minute \in Nat
      BY <1>0, <1>2
    <3> HIDE DEF old
    <3> QED
      BY <1>2, <3>1, <3>2
  <2>2. Beyond \in SUBSET Nat /\ Beyond # {}
    BY <2>1
  <2> HIDE DEF Beyond
  <2> QED
    BY <2>2, LeastOf
<1>4. n \in Nat /\ n * Minute > old
  BY <1>3
<1>5. n # 0
  <2>1. 0 * Minute = 0
    BY <1>0
  <2> QED
    BY <1>2, <1>4, <2>1
<1> DEFINE m == n - 1
<1>6. m \in Nat /\ m + 1 = n /\ ~(n <= m)
  BY <1>4, <1>5
<1>7. m * Minute <= old
  <2>1. m * Minute \in Nat
    BY <1>0, <1>6
  <2>2. m \notin Beyond
    BY <1>3, <1>6
  <2> HIDE DEF m, old
  <2> QED
    BY <1>2, <1>6, <2>1, <2>2
<1> HIDE DEF m, Beyond
<1> DEFINE total == Cardinality(During(R, at, first, today))
           all == Cardinality(During(R, at, first, (first + n * Minute) - 1))
<1>8. 2 * all <= n * MostPerMinute
  <2>1. 2 * Cardinality(During(R, at, first, (first + (m + 1) * Minute) - 1))
          <= (m + 1) * MostPerMinute
    BY <1>1, <1>6, <1>7, MinutesAddUp
  <2> QED
    BY <1>6, <2>1
<1>9. n * Minute \in Nat /\ n * Minute = m * Minute + Minute /\ m * Minute \in Nat
  BY <1>0, <1>4, <1>6, OneMore
<1>10. total <= all
  <2>1. (first + n * Minute) - 1 \in Int /\ today <= (first + n * Minute) - 1
    BY <1>4, <1>9
  <2> QED
    BY <2>1, DuringGrows
<1>11. total \in Nat /\ all \in Nat
  BY DuringFacts
<1> HIDE DEF total, all
<1>12. 2 * count <= n * MostPerMinute
  <2>1. count <= total
    BY DEF total
  <2>2. n * MostPerMinute \in Nat
    BY <1>0, <1>4
  <2> QED
    BY <1>8, <1>10, <1>11, <2>1, <2>2
<1>13. n * Minute <= 2 * span
  BY <1>0, <1>7, <1>9
<1>14. (2 * count) * Minute <= (n * MostPerMinute) * Minute
  <2>1. n * MostPerMinute \in Nat /\ 2 * count \in Nat
    BY <1>0, <1>4
  <2> QED
    BY <1>0, <1>12, <2>1, TimesGrow
<1>15. (n * Minute) * MostPerMinute <= (2 * span) * MostPerMinute
  BY <1>0, <1>9, <1>13, TimesGrow
<1>16. /\ (n * MostPerMinute) * Minute = (n * Minute) * MostPerMinute
       /\ (2 * count) * Minute = 2 * (count * Minute)
       /\ (2 * span) * MostPerMinute = 2 * (MostPerMinute * span)
       /\ (n * Minute) * MostPerMinute \in Nat
       /\ count * Minute \in Nat /\ MostPerMinute * span \in Nat
  BY <1>0, <1>4
<1> QED
  BY <1>14, <1>15, <1>16

-----------------------------------------------------------------------------
(* The rates.                                                              *)

Logged == [by : {"rates", "proxies", "prints"}, ip : Ips,
           print : Prints \cup {NoPrint}, at : Nat]

LogInv ==
  /\ date \in Nat /\ log \in Seq(Logged)
  /\ \A i \in 1..Len(log) : log[i].at <= date

\* One more entry.
IsLonger(m, l, e) ==
  /\ m \in Seq(Logged) /\ Len(m) = Len(l) + 1 /\ m[Len(l) + 1] = e
  /\ \A i \in 1..Len(l) : m[i] = l[i]

LEMMA SeenFacts ==
  ASSUME LogInv, NEW by \in {"rates", "proxies", "prints"}, NEW ip \in Ips,
         NEW print \in Prints \cup {NoPrint}, Seen(by, ip, print)
  PROVE  LET e == [by |-> by, ip |-> ip, print |-> print, at |-> date] IN
         /\ LogInv' /\ date' = date /\ swept' = swept
         /\ e \in Logged /\ IsLonger(log', log, e)
         /\ Len(log') = Len(log) + 1 /\ Len(log) \in Nat /\ Latest' = e
<1> DEFINE e == [by |-> by, ip |-> ip, print |-> print, at |-> date]
<1>1. e \in Logged
  BY DEF LogInv, Logged
<1>2. /\ log' = Append(log, e) /\ date' = date /\ swept' = swept
      /\ log \in Seq(Logged) /\ date \in Nat /\ e.at = date
  BY DEF Seen, LogInv
<1> HIDE DEF e
<1>3. /\ log' \in Seq(Logged) /\ Len(log') = Len(log) + 1 /\ Len(log) \in Nat
      /\ log'[Len(log) + 1] = e
      /\ \A i \in 1..Len(log) : log'[i] = log[i]
  BY <1>1, <1>2
<1>4. \A i \in 1..Len(log') : log'[i].at <= date'
  <2> SUFFICES ASSUME NEW i \in 1..Len(log') PROVE log'[i].at <= date'
    OBVIOUS
  <2>1. CASE i = Len(log) + 1
    BY <1>2, <1>3, <2>1
  <2>2. CASE i \in 1..Len(log)
    <3>1. log'[i] = log[i]
      BY <1>3, <2>2
    <3> QED
      BY <1>2, <2>2, <3>1 DEF LogInv
  <2> QED
    BY <1>3, <2>1, <2>2
<1>5. LogInv'
  BY <1>2, <1>3, <1>4 DEF LogInv
<1>6. Latest' = e
  BY <1>3 DEF Latest
<1>7. IsLonger(log', log, e)
  BY <1>3 DEF IsLonger
<1> QED
  BY <1>1, <1>2, <1>3, <1>5, <1>6, <1>7 DEF e

RequestsIn(l, ip) == {i \in 1..Len(l) : l[i].by = "rates" /\ l[i].ip = ip}
TimesOf(l) == [i \in 1..Len(l) |-> l[i].at]

\* The record says no more than the log.
Rated(rate, l, ip, today) ==
  /\ rate \in [count : Nat, first : Nat, last : Nat] /\ rate.first <= today
  /\ rate.count <= Cardinality(During(RequestsIn(l, ip), TimesOf(l), rate.first, today))

RatesInv ==
  /\ IsMap(ipRequestCounts)
  /\ \A ip \in KeysOf(ipRequestCounts) :
       Rated(ValueOf(ipRequestCounts, ip), log, ip, date)

LEMMA RequestsInFacts ==
  ASSUME NEW l \in Seq(Logged), NEW ip
  PROVE  /\ IsFiniteSet(RequestsIn(l, ip))
         /\ \A i \in RequestsIn(l, ip) : TimesOf(l)[i] = l[i].at /\ TimesOf(l)[i] \in Int
         /\ \A x, y : {i \in {j \in {k \in DOMAIN l : l[k].by = "rates"} : l[j].ip = ip} :
                         l[i].at \in x..y}
                        = During(RequestsIn(l, ip), TimesOf(l), x, y)
<1>1. Len(l) \in Nat /\ DOMAIN l = 1..Len(l)
      /\ \A i \in 1..Len(l) : l[i] \in Logged
  OBVIOUS
<1>2. RequestsIn(l, ip) \in SUBSET (1..Len(l))
  BY DEF RequestsIn
<1>3. IsFiniteSet(RequestsIn(l, ip))
  <2>1. IsFiniteSet(1..Len(l))
    BY <1>1, FS_Interval
  <2> QED
    BY <1>2, <2>1, FS_Subset
<1>4. \A i \in RequestsIn(l, ip) : TimesOf(l)[i] = l[i].at /\ TimesOf(l)[i] \in Int
  BY <1>1, <1>2 DEF TimesOf, Logged
<1>5. ASSUME NEW x, NEW y
      PROVE  {i \in {j \in {k \in DOMAIN l : l[k].by = "rates"} : l[j].ip = ip} :
                         l[i].at \in x..y}
                        = During(RequestsIn(l, ip), TimesOf(l), x, y)
  BY <1>1, <1>4 DEF During, RequestsIn
<1> QED
  BY <1>3, <1>4, <1>5

LEMMA RatedLater ==
  ASSUME NEW l \in Seq(Logged), NEW ip, NEW today \in Nat, NEW tomorrow \in Nat,
         today <= tomorrow, NEW rate, Rated(rate, l, ip, today)
  PROVE  Rated(rate, l, ip, tomorrow)
<1> DEFINE R == RequestsIn(l, ip)
           at == TimesOf(l)
<1>1. IsFiniteSet(R) /\ \A i \in R : at[i] \in Int
  BY RequestsInFacts
<1>2. rate.first \in Nat /\ rate.count \in Nat /\ rate.first <= tomorrow
  BY DEF Rated
<1>3. Cardinality(During(R, at, rate.first, today)) \in Nat
      /\ Cardinality(During(R, at, rate.first, tomorrow)) \in Nat
  BY <1>1, DuringFacts
<1>4. Cardinality(During(R, at, rate.first, today))
        <= Cardinality(During(R, at, rate.first, tomorrow))
  BY <1>1, <1>2, DuringGrows
<1> QED
  BY <1>2, <1>3, <1>4 DEF Rated

Counts(e, ip, x, y) == e.by = "rates" /\ e.ip = ip /\ e.at \in x..y
RequestsOfIn(l, ip, x, y) == During(RequestsIn(l, ip), TimesOf(l), x, y)
SameOf(ip, m, l, x, y) == RequestsOfIn(m, ip, x, y) = RequestsOfIn(l, ip, x, y)
OneMoreOf(ip, m, l, x, y) ==
  /\ RequestsOfIn(m, ip, x, y) = RequestsOfIn(l, ip, x, y) \cup {Len(l) + 1}
  /\ Len(l) + 1 \notin RequestsOfIn(l, ip, x, y)

LEMMA RequestsAfter ==
  ASSUME NEW l \in Seq(Logged), NEW e \in Logged, NEW m, IsLonger(m, l, e),
         NEW ip, NEW x \in Int, NEW y \in Int
  PROVE  IF Counts(e, ip, x, y)
           THEN OneMoreOf(ip, m, l, x, y) ELSE SameOf(ip, m, l, x, y)
<1> DEFINE n == Len(l) + 1
           old == During(RequestsIn(l, ip), TimesOf(l), x, y)
           new == During(RequestsIn(m, ip), TimesOf(m), x, y)
<1>1. /\ m \in Seq(Logged) /\ Len(m) = n /\ Len(l) \in Nat /\ m[n] = e
      /\ \A i \in 1..Len(l) : m[i] = l[i]
  BY DEF IsLonger
<1>2. /\ n \notin 1..Len(l) /\ \A i \in 1..n : i = n \/ i \in 1..Len(l)
      /\ \A i \in 1..Len(l) : i \in 1..n /\ i # n
      /\ n \in 1..n
  BY <1>1
<1> HIDE DEF n
<1>3. \A i : i \in old <=> i \in 1..Len(l) /\ l[i].by = "rates" /\ l[i].ip = ip
                           /\ l[i].at \in x..y
  BY DEF During, RequestsIn, TimesOf
<1>4. \A i : i \in new <=> i \in 1..n /\ m[i].by = "rates" /\ m[i].ip = ip
                           /\ m[i].at \in x..y
  BY <1>1 DEF During, RequestsIn, TimesOf
<1> HIDE DEF old, new
<1>5. n \notin old
  BY <1>2, <1>3
<1>6. \A i : i # n => (i \in new <=> i \in old)
  BY <1>1, <1>2, <1>3, <1>4
<1>7. n \in new <=> Counts(e, ip, x, y)
  BY <1>1, <1>2, <1>4 DEF Counts
<1>8. ~Counts(e, ip, x, y) => new = old
  <2> SUFFICES ASSUME ~Counts(e, ip, x, y) PROVE new = old
    OBVIOUS
  <2>1. \A i : i \in new <=> i \in old
    BY <1>5, <1>6, <1>7
  <2> QED
    BY <2>1, Zenon
<1>9. Counts(e, ip, x, y) => new = old \cup {n}
  BY <1>5, <1>6, <1>7
<1> QED
  BY <1>5, <1>8, <1>9 DEF n, old, new, SameOf, OneMoreOf, RequestsOfIn

\* The request of another address, or of another analyzer.
LEMMA RatedBesides ==
  ASSUME NEW l \in Seq(Logged), NEW e \in Logged, NEW m, IsLonger(m, l, e),
         NEW ip, NEW today \in Nat,
         NEW rate, Rated(rate, l, ip, today), ~(e.by = "rates" /\ e.ip = ip)
  PROVE  Rated(rate, m, ip, today)
<1>1. rate.first \in Int /\ today \in Int
  BY DEF Rated
<1>2. ~Counts(e, ip, rate.first, today)
  BY DEF Counts
<1>3. SameOf(ip, m, l, rate.first, today)
  BY <1>1, <1>2, RequestsAfter
<1> QED
  BY <1>3 DEF Rated, SameOf, RequestsOfIn

\* One more request of the address.
LEMMA RatedMore ==
  ASSUME NEW l \in Seq(Logged), NEW e \in Logged, NEW m, IsLonger(m, l, e),
         NEW ip, NEW today \in Nat,
         NEW rate, Rated(rate, l, ip, today),
         e.by = "rates", e.ip = ip, e.at = today,
         NEW more \in [count : Nat, first : Nat, last : Nat],
         more.count = rate.count + 1, more.first = rate.first
  PROVE  Rated(more, m, ip, today)
<1> DEFINE n == Len(l) + 1
           old == During(RequestsIn(l, ip), TimesOf(l), rate.first, today)
           new == During(RequestsIn(m, ip), TimesOf(m),
                         rate.first, today)
<1>1. rate.first \in Nat /\ rate.first <= today /\ rate.count \in Nat
      /\ rate.count <= Cardinality(old)
  BY DEF Rated
<1>2. rate.first \in Int /\ today \in Int /\ e.at \in rate.first..today
  BY <1>1
<1>3. new = old \cup {n} /\ n \notin old
  <2>1. Counts(e, ip, rate.first, today)
    BY <1>2 DEF Counts
  <2>2. OneMoreOf(ip, m, l, rate.first, today)
    BY <1>2, <2>1, RequestsAfter
  <2> QED
    BY <2>2 DEF OneMoreOf, RequestsOfIn
<1>4. IsFiniteSet(old) /\ Cardinality(old) \in Nat
  BY RequestsInFacts, DuringFacts
<1> HIDE DEF n, old, new
<1>5. Cardinality(new) = Cardinality(old) + 1
  BY <1>3, <1>4, FS_AddElement
<1>6. more.count <= Cardinality(new)
  BY <1>1, <1>4, <1>5
<1> QED
  BY <1>1, <1>6 DEF Rated, new

\* A map in which ip has the record `rate' and the others have what they had.
Recorded(f2, f, ip, rate) ==
  /\ IsMap(f2)
  /\ \A j \in KeysOf(f2) : \/ j = ip /\ ValueOf(f2, j) = rate
                           \/ j # ip /\ j \in KeysOf(f) /\ ValueOf(f2, j) = ValueOf(f, j)

LEMMA RecordedFacts ==
  ASSUME NEW f, IsMap(f), NEW ip, NEW rate
  PROVE  Recorded(IF Has(f, ip) THEN Mutate(AfterGet(f, ip), ip, rate)
                                ELSE AfterSet(f, ip, rate), f, ip, rate)
<1>1. CASE Has(f, ip)
  <2> DEFINE g == AfterGet(f, ip)
             h == Mutate(g, ip, rate)
             lost == DroppedByGet(f, ip)
  <2>1. IsMap(g) /\ ip \notin lost /\ SameEntries(f, g, KeysOf(f) \ lost)
    BY AfterGetFacts
  <2> HIDE DEF g, lost
  <2>2. ip \in KeysOf(g) /\ KeysOf(g) \subseteq KeysOf(f)
        /\ \A j \in KeysOf(g) : ValueOf(g, j) = ValueOf(f, j)
    BY <1>1, <2>1 DEF SameEntries, Has
  <2>3. /\ IsMap(h) /\ KeysOf(h) = KeysOf(g) /\ ValueOf(h, ip) = rate
        /\ \A j \in KeysOf(g) \ {ip} : ValueOf(h, j) = ValueOf(g, j)
    BY <2>1, <2>2, MutateFacts
  <2> HIDE DEF h
  <2>4. Recorded(h, f, ip, rate)
    BY <2>2, <2>3 DEF Recorded
  <2> QED
    BY <1>1, <2>4 DEF g, h
<1>2. CASE ~Has(f, ip)
  <2> DEFINE h == AfterSet(f, ip, rate)
             lost == DroppedBySet(f, ip)
  <2>1. /\ IsMap(h) /\ KeysOf(h) = (KeysOf(f) \ lost) \cup {ip}
        /\ ValueOf(h, ip) = rate
        /\ \A j \in KeysOf(f) \ (lost \cup {ip}) : ValueOf(h, j) = ValueOf(f, j)
    BY AfterSetFacts
  <2> HIDE DEF h, lost
  <2>2. Recorded(h, f, ip, rate)
    BY <2>1 DEF Recorded
  <2> QED
    BY <1>2, <2>2 DEF h
<1> QED
  BY <1>1, <1>2

\* A tracker's step leaves the rates alone, and looks at something else.
LEMMA OthersKeepRates ==
  ASSUME LogInv, RatesInv, NEW by \in {"proxies", "prints"}, NEW ip \in Ips,
         NEW print \in Prints \cup {NoPrint}, Seen(by, ip, print),
         ipRequestCounts' = ipRequestCounts
  PROVE  RatesInv'
<1> DEFINE e == [by |-> by, ip |-> ip, print |-> print, at |-> date]
<1>1. /\ date' = date /\ e \in Logged /\ IsLonger(log', log, e) /\ log \in Seq(Logged)
      /\ date \in Nat /\ e.by # "rates"
  BY SeenFacts DEF LogInv
<1> HIDE DEF e
<1>2. ASSUME NEW j \in KeysOf(ipRequestCounts),
             Rated(ValueOf(ipRequestCounts, j), log, j, date)
      PROVE  Rated(ValueOf(ipRequestCounts, j), log', j, date)
  <2> DEFINE rate == ValueOf(ipRequestCounts, j)
  <2>1. Rated(rate, log, j, date)
    BY <1>2
  <2> HIDE DEF rate
  <2>2. Rated(rate, log', j, date)
    BY <1>1, <2>1, RatedBesides
  <2> QED
    BY <2>2 DEF rate
<1> QED
  BY <1>1, <1>2 DEF RatesInv

LEMMA CountedFacts ==
  ASSUME LogInv, RatesInv, NEW ip \in Ips, Seen("rates", ip, NoPrint)
  PROVE  Rated(Counted(ip), log', ip, date)
<1> DEFINE e == [by |-> "rates", ip |-> ip, print |-> NoPrint, at |-> date]
           rate == Counted(ip)
<1>1. /\ e \in Logged /\ IsLonger(log', log, e) /\ log \in Seq(Logged) /\ date \in Nat
      /\ e.by = "rates" /\ e.ip = ip /\ e.at = date
  BY SeenFacts DEF LogInv
<1> HIDE DEF e
<1>2. ASSUME NEW old, Rated(old, log, ip, date),
             rate \in [count : Nat, first : Nat, last : Nat],
             rate.count = old.count + 1, rate.first = old.first
      PROVE  Rated(rate, log', ip, date)
  <2> HIDE DEF rate
  <2> QED
    BY <1>1, <1>2, RatedMore
<1>3. ASSUME rate = [count |-> 1, first |-> date, last |-> date]
      PROVE  Rated(rate, log', ip, date)
  <2> DEFINE new == [count |-> 0, first |-> date, last |-> date]
  <2>1. Cardinality(During(RequestsIn(log, ip), TimesOf(log), date, date)) \in Nat
    BY <1>1, RequestsInFacts, DuringFacts
  <2>2. /\ new \in [count : Nat, first : Nat, last : Nat]
        /\ new.first = date /\ new.count = 0
    BY <1>1
  <2>3. /\ rate \in [count : Nat, first : Nat, last : Nat]
        /\ rate.count = 1 /\ rate.first = date
    BY <1>1, <1>3
  <2> HIDE DEF new, rate
  <2>4. Rated(new, log, ip, date)
    BY <1>1, <2>1, <2>2 DEF Rated
  <2> QED
    BY <1>2, <2>2, <2>3, <2>4
<1>4. CASE ~Has(ipRequestCounts, ip)
  BY <1>3, <1>4 DEF Counted
<1>5. CASE Has(ipRequestCounts, ip)
  <2> DEFINE old == ValueOf(ipRequestCounts, ip)
  <2>1. Rated(old, log, ip, date)
    BY <1>5 DEF RatesInv, Has
  <2>2. old = [count |-> old.count, first |-> old.first, last |-> old.last]
        /\ old.count \in Nat /\ old.first \in Nat
    BY <2>1 DEF Rated
  <2>3. rate = Hourly([old EXCEPT !.count = @ + 1, !.last = date])
    BY <1>5 DEF Counted
  <2> HIDE DEF old
  <2>4. rate = Hourly([count |-> old.count + 1, first |-> old.first, last |-> date])
    <3> DEFINE more == [old EXCEPT !.count = @ + 1]
    <3>1. old \in [count : Nat, first : Nat, last : Nat]
      BY <2>1 DEF Rated
    <3>2. more = [count |-> old.count + 1, first |-> old.first, last |-> old.last]
      BY <3>1
    <3>3. [old EXCEPT !.count = @ + 1, !.last = date] = [more EXCEPT !.last = date]
      BY <3>1
    <3> HIDE DEF more
    <3>4. [more EXCEPT !.last = date]
            = [count |-> old.count + 1, first |-> old.first, last |-> date]
      BY <3>2
    <3> QED
      BY <2>3, <3>3, <3>4
  <2>5. CASE date - old.first > Hour
    <3>1. rate = [count |-> 1, first |-> date, last |-> date]
      BY <2>4, <2>5 DEF Hourly
    <3> QED
      BY <1>3, <3>1
  <2>6. CASE ~(date - old.first > Hour)
    <3>1. rate = [count |-> old.count + 1, first |-> old.first, last |-> date]
      BY <2>4, <2>6 DEF Hourly
    <3> QED
      BY <1>1, <1>2, <2>1, <2>2, <3>1
  <2> QED
    BY <2>5, <2>6
<1> QED
  BY <1>4, <1>5

LEMMA MaxOfTwo ==
  ASSUME NEW m \in Int, NEW n \in Int
  PROVE  Max({m, n}) \in {m, n} /\ m <= Max({m, n}) /\ n <= Max({m, n})
<1>1. \E x \in {m, n} : \A y \in {m, n} : x >= y
  OBVIOUS
<1>2. Max({m, n}) \in {m, n} /\ \A y \in {m, n} : Max({m, n}) >= y
  BY <1>1 DEF Max
<1> QED
  BY <1>2

LEMMA RatesStep ==
  ASSUME LogInv, RatesInv, NEW ip \in Ips, TrackRequestVelocity(ip)
  PROVE  RatesInv' /\ SteadyNotFlagged'
<1> DEFINE e == [by |-> "rates", ip |-> ip, print |-> NoPrint, at |-> date]
           rate == Counted(ip)
<1>1. /\ Seen("rates", ip, NoPrint)
      /\ ipRequestCounts' =
           IF Has(ipRequestCounts, ip)
             THEN Mutate(AfterGet(ipRequestCounts, ip), ip, rate)
             ELSE AfterSet(ipRequestCounts, ip, rate)
      /\ raised' = IF HighVelocity(rate) THEN {"ip.high_velocity"} ELSE {}
  BY DEF TrackRequestVelocity
<1>2. /\ date' = date /\ e \in Logged /\ IsLonger(log', log, e) /\ log \in Seq(Logged)
      /\ date \in Nat /\ e.ip = ip /\ Latest' = e /\ LogInv'
  BY <1>1, SeenFacts DEF LogInv
<1>3. Rated(rate, log', ip, date)
  BY <1>1, CountedFacts
<1> HIDE DEF rate
<1>4. Recorded(ipRequestCounts', ipRequestCounts, ip, rate)
  BY <1>1, RecordedFacts DEF RatesInv
<1> HIDE DEF e
<1>5. ASSUME NEW j \in KeysOf(ipRequestCounts')
      PROVE  Rated(ValueOf(ipRequestCounts', j), log', j, date)
  <2>1. CASE j = ip
    BY <1>3, <1>4, <2>1 DEF Recorded
  <2>2. CASE j # ip
    <3> DEFINE old == ValueOf(ipRequestCounts, j)
    <3>1. Rated(old, log, j, date) /\ ValueOf(ipRequestCounts', j) = old
      BY <1>4, <1>5, <2>2 DEF Recorded, RatesInv
    <3> HIDE DEF old
    <3>2. Rated(old, log', j, date)
      BY <1>2, <2>2, <3>1, RatedBesides
    <3> QED
      BY <3>1, <3>2
  <2> QED
    BY <2>1, <2>2
<1>6. RatesInv'
  BY <1>2, <1>4, <1>5 DEF RatesInv, Recorded
<1>7. ASSUME "ip.high_velocity" \in raised'
      PROVE  \E t \in 0..date :
               2 * Cardinality(During(RequestsIn(log', ip), TimesOf(log'), t, t + Minute - 1))
                 > MostPerMinute
  <2> DEFINE R == RequestsIn(log', ip)
             at == TimesOf(log')
             span == Max({date - rate.first, Minute})
  <2>1. rate.count * Minute > MostPerMinute * span
    BY <1>1, <1>7 DEF HighVelocity
  <2>2. /\ rate.first \in Nat /\ rate.first <= date /\ rate.count \in Nat
        /\ rate.count <= Cardinality(During(R, at, rate.first, date))
    BY <1>3 DEF Rated
  <2>3. IsFiniteSet(R) /\ \A i \in R : at[i] \in Int
    BY <1>2, RequestsInFacts DEF IsLonger
  <2>4. span \in Nat /\ Minute <= span /\ date - rate.first <= span
    <3>1. Minute \in Nat
      BY TrackersAssumption
    <3> DEFINE age == date - rate.first
    <3>2. age \in Nat
      BY <1>2, <2>2
    <3> HIDE DEF age
    <3>3. /\ Max({age, Minute}) \in {age, Minute}
          /\ age <= Max({age, Minute}) /\ Minute <= Max({age, Minute})
      <4>1. age \in Int /\ Minute \in Int
        BY <3>1, <3>2
      <4> QED
        BY <4>1, MaxOfTwo, Zenon
    <3>4. Max({age, Minute}) \in Nat
      BY <3>1, <3>2, <3>3
    <3> QED
      BY <3>3, <3>4 DEF age
  <2> HIDE DEF R, at, span
  <2>5. \E t \in 0..date : 2 * Cardinality(During(R, at, t, t + Minute - 1)) > MostPerMinute
    BY <1>2, <2>1, <2>2, <2>3, <2>4, SomeMinuteBusy
  <2> QED
    BY <2>5 DEF R, at
<1>8. SteadyNotFlagged'
  <2>1. \A x, y : {i \in {j \in {k \in DOMAIN log' : log'[k].by = "rates"} : log'[j].ip = ip} :
                     log'[i].at \in x..y}
                    = During(RequestsIn(log', ip), TimesOf(log'), x, y)
    BY <1>2, RequestsInFacts DEF IsLonger
  <2>2. Latest'.ip = ip
    BY <1>2
  <2> QED
    BY <1>2, <1>7, <2>1, <2>2 DEF SteadyNotFlagged, RequestsOf, LookedAt
<1> QED
  BY <1>6, <1>8

LEMMA RatesCleanUp ==
  ASSUME RatesInv, CleanUpRates
  PROVE  RatesInv'
<1> DEFINE old == {ip \in KeysOf(ipRequestCounts) :
                     date - ValueOf(ipRequestCounts, ip).last > Hour}
<1>1. ipRequestCounts' = AfterDeleteAll(ipRequestCounts, old) /\ date' = date /\ log' = log
  BY DEF CleanUpRates
<1> HIDE DEF old
<1>2. /\ IsMap(ipRequestCounts')
      /\ SameEntries(ipRequestCounts, ipRequestCounts', KeysOf(ipRequestCounts) \ old)
  BY <1>1, AfterDeleteAllFacts DEF RatesInv
<1> QED
  BY <1>1, <1>2 DEF RatesInv, SameEntries

LEMMA RatesTick ==
  ASSUME LogInv, RatesInv, ipRequestCounts' = ipRequestCounts, log' = log,
         date' \in Nat, date <= date'
  PROVE  RatesInv'
<1>1. ASSUME NEW ip \in KeysOf(ipRequestCounts)
      PROVE  Rated(ValueOf(ipRequestCounts, ip), log, ip, date')
  <2> DEFINE rate == ValueOf(ipRequestCounts, ip)
  <2>1. Rated(rate, log, ip, date)
    BY DEF RatesInv
  <2> HIDE DEF rate
  <2>2. Rated(rate, log, ip, date')
    BY <2>1, RatedLater DEF LogInv
  <2> QED
    BY <2>2 DEF rate
<1> QED
  BY <1>1 DEF RatesInv

-----------------------------------------------------------------------------
(* The addresses behind a fingerprint.                                     *)

UsesIn(l, p) == {i \in 1..Len(l) : l[i].by = "prints" /\ l[i].print = p}

\* From the i-th request to the u-th, the fingerprint is not silent for long.
Chained(l, p, i, u) ==
  \A j \in UsesIn(l, p) : i <= j /\ j < u =>
    \E k \in UsesIn(l, p) : k > j /\ l[k].at - l[j].at <= PrintSpan + 1

\* Its last use was the u-th request, and its addresses used it up to then.
SharedUpTo(entry, l, p, u) ==
  /\ u \in UsesIn(l, p) /\ l[u].at = entry.last /\ \A k \in UsesIn(l, p) : k <= u
  /\ \A ip \in entry.ips : \E i \in UsesIn(l, p) : l[i].ip = ip /\ Chained(l, p, i, u)
Shared(entry, l, p) == \E u : SharedUpTo(entry, l, p, u)

PrintsInv ==
  sweeping =>
    \A p \in DOMAIN prints :
      /\ Shared(prints[p], log, p) /\ prints[p].last \in Nat
      /\ date - prints[p].last <= PrintSpan + 1
      /\ swept => date - prints[p].last <= PrintSpan

LEMMA UsesAfter ==
  ASSUME NEW l \in Seq(Logged), NEW e \in Logged, NEW m, IsLonger(m, l, e), NEW p
  PROVE  /\ \A i : i \in UsesIn(m, p) <=> \/ i \in UsesIn(l, p)
                                          \/ i = Len(l) + 1 /\ e.by = "prints" /\ e.print = p
         /\ \A i \in UsesIn(l, p) : m[i] = l[i] /\ i \in 1..Len(l) /\ l[i].at \in Nat
<1>1. /\ m \in Seq(Logged) /\ Len(m) = Len(l) + 1 /\ Len(l) \in Nat /\ m[Len(l) + 1] = e
      /\ \A i \in 1..Len(l) : m[i] = l[i]
  BY DEF IsLonger
<1>2. \A i \in 1..Len(l) : l[i].at \in Nat
  <2>1. \A i \in 1..Len(l) : l[i] \in Logged
    OBVIOUS
  <2>2. \A x \in Logged : x.at \in Nat
    BY DEF Logged
  <2> QED
    BY <2>1, <2>2
<1>3. \A i \in 1..(Len(l) + 1) : i = Len(l) + 1 \/ i \in 1..Len(l)
  BY <1>1
<1>4. Len(l) + 1 \in 1..(Len(l) + 1) /\ \A i \in 1..Len(l) : i \in 1..(Len(l) + 1)
  BY <1>1
<1> QED
  BY <1>1, <1>2, <1>3, <1>4 DEF UsesIn

LEMMA SharedBesides ==
  ASSUME NEW l \in Seq(Logged), NEW e \in Logged, NEW m, IsLonger(m, l, e), NEW p,
         ~(e.by = "prints" /\ e.print = p), NEW entry, Shared(entry, l, p)
  PROVE  Shared(entry, m, p)
<1>1. PICK u : SharedUpTo(entry, l, p, u)
  BY DEF Shared
<1>2. UsesIn(m, p) = UsesIn(l, p) /\ \A i \in UsesIn(l, p) : m[i] = l[i]
  <2>1. \A i : i \in UsesIn(m, p) <=> i \in UsesIn(l, p)
    BY UsesAfter
  <2>2. \A i \in UsesIn(l, p) : m[i] = l[i]
    BY UsesAfter
  <2>3. UsesIn(m, p) = UsesIn(l, p)
    BY <2>1, Zenon
  <2> QED
    BY <2>2, <2>3
<1>3. ASSUME NEW i, Chained(l, p, i, u) PROVE Chained(m, p, i, u)
  BY <1>2, <1>3 DEF Chained
<1>4. SharedUpTo(entry, m, p, u)
  BY <1>1, <1>2, <1>3 DEF SharedUpTo
<1> QED
  BY <1>4 DEF Shared

\* One more use.
LEMMA SharedMore ==
  ASSUME NEW l \in Seq(Logged), NEW e \in Logged, NEW m, IsLonger(m, l, e), NEW p,
         e.by = "prints", e.print = p, NEW old,
         \A x \in old : \E u : /\ u \in UsesIn(l, p) /\ e.at - l[u].at <= PrintSpan + 1
                               /\ \A k \in UsesIn(l, p) : k <= u
                               /\ \E i \in UsesIn(l, p) : l[i].ip = x /\ Chained(l, p, i, u)
  PROVE  SharedUpTo([last |-> e.at, ips |-> old \cup {e.ip}], m, p, Len(l) + 1)
<1> DEFINE n == Len(l) + 1
           entry == [last |-> e.at, ips |-> old \cup {e.ip}]
<1>1. /\ m[n] = e /\ n \in Nat
      /\ \A i \in UsesIn(l, p) : /\ m[i] = l[i] /\ i \in Nat /\ i < n
                                 /\ l[i].at \in Nat
  BY UsesAfter DEF IsLonger
<1>2. \A i : i \in UsesIn(m, p) <=> i \in UsesIn(l, p) \/ i = n
  BY UsesAfter
<1>3. entry.last = e.at /\ entry.ips = old \cup {e.ip}
  OBVIOUS
<1>4. e.at \in Nat
  BY DEF Logged
<1> HIDE DEF n, entry
<1>5. n \in UsesIn(m, p) /\ m[n].at = entry.last /\ \A k \in UsesIn(m, p) : k <= n
  BY <1>1, <1>2, <1>3
<1>6. ASSUME NEW x \in entry.ips
      PROVE  \E i \in UsesIn(m, p) : m[i].ip = x /\ Chained(m, p, i, n)
  <2>1. CASE x = e.ip
    <3>1. Chained(m, p, n, n)
      BY <1>1, <1>2 DEF Chained
    <3> QED
      BY <1>1, <1>5, <2>1, <3>1
  <2>2. CASE x \in old
    <3>1. PICK u : /\ u \in UsesIn(l, p) /\ e.at - l[u].at <= PrintSpan + 1
                   /\ \A k \in UsesIn(l, p) : k <= u
                   /\ \E i \in UsesIn(l, p) : l[i].ip = x /\ Chained(l, p, i, u)
      BY <2>2
    <3>2. PICK i \in UsesIn(l, p) : l[i].ip = x /\ Chained(l, p, i, u)
      BY <3>1
    <3>3. ASSUME NEW j \in UsesIn(m, p), i <= j, j < n
          PROVE  \E k \in UsesIn(m, p) : k > j /\ m[k].at - m[j].at <= PrintSpan + 1
      <4>1. j \in UsesIn(l, p) /\ m[j] = l[j] /\ j \in Nat /\ j <= u /\ u \in Nat
        BY <1>1, <1>2, <3>1, <3>3
      <4>2. CASE j = u
        BY <1>1, <1>2, <3>1, <4>1, <4>2
      <4>3. CASE j # u
        <5>1. PICK k \in UsesIn(l, p) : k > j /\ l[k].at - l[j].at <= PrintSpan + 1
          BY <3>2, <3>3, <4>1, <4>3 DEF Chained
        <5> QED
          BY <1>1, <1>2, <4>1, <5>1
      <4> QED
        BY <4>2, <4>3
    <3>4. Chained(m, p, i, n)
      BY <3>3 DEF Chained
    <3> QED
      BY <1>1, <1>2, <3>2, <3>4
  <2> QED
    BY <1>3, <2>1, <2>2
<1> QED
  BY <1>5, <1>6 DEF SharedUpTo, n, entry

\* All that is shared was used without a pause.
LEMMA SharedCount ==
  ASSUME NEW l \in Seq(Logged), NEW p, NEW entry, SharedUpTo(entry, l, p, Len(l)),
         Cardinality(entry.ips) > MostSharing, NEW shared,
         shared = {i \in UsesIn(l, p) : Chained(l, p, i, Len(l))}
  PROVE  Cardinality({l[i].ip : i \in shared}) > MostSharing
<1> DEFINE f == [i \in 1..Len(l) |-> l[i].ip]
           T == {l[i].ip : i \in shared}
<1>1. shared \in SUBSET (1..Len(l)) /\ Len(l) \in Nat
  BY DEF UsesIn
<1>2. T = {f[i] : i \in shared}
  BY <1>1
<1>3. IsFiniteSet(shared)
  <2>1. 1 \in Int /\ Len(l) \in Int
    BY <1>1
  <2>2. IsFiniteSet(1..Len(l))
    BY <2>1, FS_Interval
  <2> QED
    BY <1>1, <2>2, FS_Subset
<1>4. IsFiniteSet(T)
  <2> HIDE DEF f, T
  <2>1. IsFiniteSet({f[i] : i \in shared})
    <3> DEFINE U == {f[i] : i \in shared}
               g == [i \in shared |-> f[i]]
    <3>1. g \in Surjection(shared, U)
      BY DEF Surjection
    <3> QED
      BY <1>3, <3>1, FS_Surjection
  <2> QED
    BY <1>2, <2>1
<1>5. entry.ips \in SUBSET T
  <2>1. ASSUME NEW x \in entry.ips PROVE x \in T
    <3>1. PICK i \in UsesIn(l, p) : l[i].ip = x /\ Chained(l, p, i, Len(l))
      BY <2>1 DEF SharedUpTo
    <3> QED
      BY <3>1
  <2> QED
    BY <2>1
<1> HIDE DEF T
<1>6. Cardinality(entry.ips) <= Cardinality(T) /\ Cardinality(T) \in Nat
      /\ Cardinality(entry.ips) \in Nat /\ MostSharing \in Nat
  BY <1>4, <1>5, FS_Subset, FS_CardinalityType, TrackersAssumption
<1>7. Cardinality(T) > MostSharing
  BY <1>6
<1> QED
  BY <1>7 DEF T

LEMMA PrintsStep ==
  ASSUME LogInv, PrintsInv, NEW p \in Prints, NEW ip \in Ips,
         TrackFingerprintFrequency(p, ip)
  PROVE  PrintsInv' /\ SharedWithoutPause'
<1> SUFFICES ASSUME sweeping PROVE PrintsInv' /\ SharedWithoutPause'
  BY DEF TrackFingerprintFrequency, PrintsInv, SharedWithoutPause
<1> DEFINE e == [by |-> "prints", ip |-> ip, print |-> p, at |-> date]
           before == ValueOr(prints, p, [last |-> date, ips |-> {}]).ips
           entry == [last |-> date, ips |-> before \cup {ip}]
<1>1. /\ Seen("prints", ip, p) /\ prints' = Put(prints, p, entry)
      /\ raised' = IF Cardinality(before \cup {ip}) > MostSharing
                     THEN {"tls.fingerprint_botnet_heuristic"} ELSE {}
      /\ sweeping' = sweeping
  BY DEF TrackFingerprintFrequency
<1>2. /\ date' = date /\ swept' = swept /\ e \in Logged /\ IsLonger(log', log, e)
      /\ Len(log') = Len(log) + 1 /\ Len(log) \in Nat /\ log \in Seq(Logged)
      /\ date \in Nat /\ Latest' = e /\ log' \in Seq(Logged)
  BY <1>1, SeenFacts DEF LogInv
<1>3. e.by = "prints" /\ e.print = p /\ e.ip = ip /\ e.at = date
  OBVIOUS
<1>4. entry = [last |-> e.at, ips |-> before \cup {e.ip}]
      /\ entry.last = date /\ entry.ips = before \cup {ip}
  OBVIOUS
<1>5. \A x \in before : \E u : /\ u \in UsesIn(log, p)
                               /\ e.at - log[u].at <= PrintSpan + 1
                               /\ \A k \in UsesIn(log, p) : k <= u
                               /\ \E i \in UsesIn(log, p) :
                                    log[i].ip = x /\ Chained(log, p, i, u)
  <2>1. CASE p \in DOMAIN prints
    <3>1. before = prints[p].ips
      BY <2>1 DEF ValueOr
    <3>2. Shared(prints[p], log, p) /\ date - prints[p].last <= PrintSpan + 1
      BY <2>1 DEF PrintsInv
    <3>3. PICK u : SharedUpTo(prints[p], log, p, u)
      BY <3>2 DEF Shared
    <3> HIDE DEF before
    <3> QED
      BY <1>3, <3>1, <3>2, <3>3 DEF SharedUpTo
  <2>2. CASE p \notin DOMAIN prints
    <3>1. before = {}
      BY <2>2 DEF ValueOr
    <3> QED
      BY <3>1
  <2> QED
    BY <2>1, <2>2
<1> HIDE DEF e, before, entry
<1>6. SharedUpTo(entry, log', p, Len(log'))
  <2>1. SharedUpTo([last |-> e.at, ips |-> before \cup {e.ip}], log', p, Len(log) + 1)
    BY <1>2, <1>3, <1>5, SharedMore
  <2> QED
    BY <1>2, <1>4, <2>1
<1>7. PrintsInv'
  <2> SUFFICES ASSUME NEW q \in DOMAIN prints'
               PROVE  /\ Shared(prints'[q], log', q) /\ prints'[q].last \in Nat
                      /\ date - prints'[q].last <= PrintSpan + 1
                      /\ swept => date - prints'[q].last <= PrintSpan
    BY <1>2 DEF PrintsInv
  <2>1. CASE q = p
    <3>1. prints'[q] = entry
      BY <1>1, <2>1 DEF Put
    <3>2. PrintSpan \in Nat
      BY TrackersAssumption
    <3> QED
      BY <1>2, <1>4, <1>6, <2>1, <3>1, <3>2 DEF Shared
  <2>2. CASE q # p
    <3>1. q \in DOMAIN prints /\ prints'[q] = prints[q]
      BY <1>1, <2>2 DEF Put
    <3>2. /\ Shared(prints[q], log, q) /\ prints[q].last \in Nat
          /\ date - prints[q].last <= PrintSpan + 1
          /\ swept => date - prints[q].last <= PrintSpan
      BY <3>1 DEF PrintsInv
    <3>3. ~(e.by = "prints" /\ e.print = q)
      BY <1>3, <2>2
    <3>4. Shared(prints[q], log', q)
      BY <1>2, <3>2, <3>3, SharedBesides
    <3> QED
      BY <3>1, <3>2, <3>4
  <2> QED
    BY <2>1, <2>2
<1>8. SharedWithoutPause'
  <2> SUFFICES ASSUME "tls.fingerprint_botnet_heuristic" \in raised'
               PROVE  Cardinality({log'[i].ip : i \in {u \in Uses(Latest.print)' : Unbroken(u)'}})
                        > MostSharing
    BY DEF SharedWithoutPause
  <2>1. Cardinality(entry.ips) > MostSharing
    BY <1>1, <1>4
  <2> DEFINE shared == {i \in UsesIn(log', p) : Chained(log', p, i, Len(log'))}
  <2>2. Uses(p)' = UsesIn(log', p)
    <3>1. DOMAIN log' = 1..Len(log')
      BY <1>2
    <3> QED
      BY <3>1 DEF Uses, LookedAt, UsesIn
  <2>3. ASSUME NEW i \in UsesIn(log', p)
        PROVE  Unbroken(i)' <=> Chained(log', p, i, Len(log'))
    <3>1. log'[i].print = p
      BY <2>3 DEF UsesIn
    <3>2. \A j \in UsesIn(log', p) : j \in Nat
      BY DEF UsesIn
    <3>3. \A j : j \in UsesIn(log', p) \cap i..(Len(log') - 1)
                   <=> j \in UsesIn(log', p) /\ i <= j /\ j < Len(log')
      BY <1>2, <2>3, <3>2
    <3> QED
      BY <2>2, <3>1, <3>3 DEF Unbroken, Chained
  <2>4. Uses(Latest.print)' = UsesIn(log', p)
    BY <1>2, <1>3, <2>2
  <2>5. {u \in Uses(Latest.print)' : Unbroken(u)'} = shared
    BY <2>3, <2>4
  <2>6. \A U : U = shared => Cardinality({log'[i].ip : i \in U}) > MostSharing
    BY <1>2, <1>6, <2>1, SharedCount
  <2> HIDE DEF shared
  <2> QED
    BY <2>5, <2>6
<1> QED
  BY <1>7, <1>8

LEMMA OthersKeepPrints ==
  ASSUME LogInv, PrintsInv, NEW by \in {"rates", "proxies"}, NEW ip \in Ips,
         NEW print \in Prints \cup {NoPrint}, Seen(by, ip, print),
         prints' = prints, sweeping' = sweeping
  PROVE  PrintsInv'
<1> DEFINE e == [by |-> by, ip |-> ip, print |-> print, at |-> date]
<1>1. /\ date' = date /\ swept' = swept /\ e \in Logged /\ IsLonger(log', log, e)
      /\ log \in Seq(Logged) /\ e.by # "prints"
  BY SeenFacts DEF LogInv
<1> HIDE DEF e
<1>2. ASSUME NEW p \in DOMAIN prints, Shared(prints[p], log, p)
      PROVE  Shared(prints[p], log', p)
  BY <1>1, <1>2, SharedBesides
<1> QED
  BY <1>1, <1>2 DEF PrintsInv

LEMMA SweepStep ==
  ASSUME PrintsInv, date \in Nat, Sweep
  PROVE  PrintsInv'
<1>1. /\ prints' = Without(prints, SilentPrints)
      /\ date' = date /\ log' = log /\ sweeping' = sweeping /\ sweeping
  BY DEF Sweep
<1>2. PrintSpan \in Nat
  BY TrackersAssumption
<1> SUFFICES ASSUME NEW p \in DOMAIN prints'
             PROVE  /\ Shared(prints'[p], log, p) /\ prints'[p].last \in Nat
                    /\ date - prints'[p].last <= PrintSpan + 1
                    /\ date - prints'[p].last <= PrintSpan
  BY <1>1 DEF PrintsInv
<1>3. p \in DOMAIN prints /\ prints'[p] = prints[p] /\ p \notin SilentPrints
  BY <1>1 DEF Without
<1>4. /\ Shared(prints[p], log, p) /\ prints[p].last \in Nat
  BY <1>1, <1>3 DEF PrintsInv
<1>5. ~(date - prints[p].last > PrintSpan)
  BY <1>3 DEF SilentPrints
<1> QED
  BY <1>2, <1>3, <1>4, <1>5

LEMMA PrintsTick ==
  ASSUME LogInv, PrintsInv, TrackersTick
  PROVE  PrintsInv'
<1>1. /\ date' = date + 1 /\ swept' = FALSE /\ (sweeping => swept)
      /\ prints' = prints /\ sweeping' = sweeping /\ log' = log /\ date \in Nat
  BY DEF TrackersTick, printVars, LogInv
<1>2. PrintSpan \in Nat
  BY TrackersAssumption
<1> SUFFICES ASSUME sweeping, NEW p \in DOMAIN prints
             PROVE  /\ Shared(prints[p], log, p) /\ prints[p].last \in Nat
                    /\ date + 1 - prints[p].last <= PrintSpan + 1
  BY <1>1 DEF PrintsInv
<1>3. /\ Shared(prints[p], log, p) /\ prints[p].last \in Nat
      /\ date - prints[p].last <= PrintSpan
  BY <1>1 DEF PrintsInv
<1> QED
  BY <1>1, <1>2, <1>3

-----------------------------------------------------------------------------
(* The rotations of a subnet.                                              *)

RotatedVisit == [ip : Ips, print : Prints \cup {NoPrint}, at : Nat]
VisitsIn(l, s) ==
  {i \in 1..Len(l) :
     l[i].by = "proxies" /\ l[i].print # NoPrint /\ SubnetOf[l[i].ip] = s}

\* The visits are entries of the log, each once, and none that is young lacks.
Traces(pos, visits, l, s, today) ==
  /\ pos \in [1..Len(visits) -> VisitsIn(l, s)]
  /\ \A k, j \in 1..Len(visits) : pos[k] = pos[j] => k = j
  /\ \A k \in 1..Len(visits) : /\ visits[k].ip = l[pos[k]].ip
                               /\ visits[k].print = l[pos[k]].print
                               /\ visits[k].at = l[pos[k]].at
  /\ \A i \in VisitsIn(l, s) : today - l[i].at < RotationSpan =>
                                 \E k \in 1..Len(visits) : pos[k] = i
Tracked(visits, l, s, today) ==
  visits \in Seq(RotatedVisit) /\ \E pos : Traces(pos, visits, l, s, today)

ProxyInv ==
  \A s : s # NoSubnet => Tracked(ValueOr(subnets, s, <<>>), log, s, date)

LEMMA VisitsInFacts ==
  ASSUME NEW l \in Seq(Logged), NEW s
  PROVE  \A i \in VisitsIn(l, s) : i \in 1..Len(l) /\ l[i] \in Logged /\ l[i].at \in Nat
<1>1. \A i \in 1..Len(l) : l[i] \in Logged
  OBVIOUS
<1>2. \A x \in Logged : x.at \in Nat
  BY DEF Logged
<1> QED
  BY <1>1, <1>2 DEF VisitsIn

LEMMA TrackedLater ==
  ASSUME NEW l \in Seq(Logged), NEW s, NEW today \in Nat, NEW tomorrow \in Nat,
         today <= tomorrow, NEW visits, Tracked(visits, l, s, today)
  PROVE  Tracked(visits, l, s, tomorrow)
<1>1. PICK pos : Traces(pos, visits, l, s, today)
  BY DEF Tracked
<1>2. RotationSpan \in Nat
  BY TrackersAssumption
<1>3. \A i \in VisitsIn(l, s) : tomorrow - l[i].at < RotationSpan =>
                                  today - l[i].at < RotationSpan
  BY <1>2, VisitsInFacts
<1>4. Traces(pos, visits, l, s, tomorrow)
  BY <1>1, <1>3 DEF Traces
<1> QED
  BY <1>4 DEF Tracked

LEMMA VisitsAfter ==
  ASSUME NEW l \in Seq(Logged), NEW e \in Logged, NEW m, IsLonger(m, l, e), NEW s
  PROVE  /\ \A i : i \in VisitsIn(m, s)
                     <=> \/ i \in VisitsIn(l, s)
                         \/ /\ i = Len(l) + 1
                            /\ e.by = "proxies" /\ e.print # NoPrint /\ SubnetOf[e.ip] = s
         /\ \A i \in VisitsIn(l, s) : m[i] = l[i] /\ i # Len(l) + 1
<1>1. /\ m \in Seq(Logged) /\ Len(m) = Len(l) + 1 /\ Len(l) \in Nat /\ m[Len(l) + 1] = e
      /\ \A i \in 1..Len(l) : m[i] = l[i]
  BY DEF IsLonger
<1>2. \A i \in 1..(Len(l) + 1) : i = Len(l) + 1 \/ i \in 1..Len(l)
  BY <1>1
<1>3. /\ Len(l) + 1 \in 1..(Len(l) + 1)
      /\ \A i \in 1..Len(l) : i \in 1..(Len(l) + 1) /\ i # Len(l) + 1
  BY <1>1
<1> QED
  BY <1>1, <1>2, <1>3 DEF VisitsIn

LEMMA TrackedBesides ==
  ASSUME NEW l \in Seq(Logged), NEW e \in Logged, NEW m, IsLonger(m, l, e), NEW s,
         ~(e.by = "proxies" /\ e.print # NoPrint /\ SubnetOf[e.ip] = s),
         NEW today, NEW visits, Tracked(visits, l, s, today)
  PROVE  Tracked(visits, m, s, today)
<1>1. PICK pos : Traces(pos, visits, l, s, today)
  BY DEF Tracked
<1>2. VisitsIn(m, s) = VisitsIn(l, s) /\ \A i \in VisitsIn(l, s) : m[i] = l[i]
  <2>1. \A i : i \in VisitsIn(m, s) <=> i \in VisitsIn(l, s)
    BY VisitsAfter
  <2>2. \A i \in VisitsIn(l, s) : m[i] = l[i]
    BY VisitsAfter
  <2>3. VisitsIn(m, s) = VisitsIn(l, s)
    BY <2>1, Zenon
  <2> QED
    BY <2>2, <2>3
<1>3. \A k \in 1..Len(visits) : m[pos[k]] = l[pos[k]]
  BY <1>1, <1>2 DEF Traces
<1>4. Traces(pos, visits, m, s, today)
  BY <1>1, <1>2, <1>3 DEF Traces
<1> QED
  BY <1>4 DEF Tracked

\* filter() keeps what it should.
LEMMA TrackedYoung ==
  ASSUME NEW l \in Seq(Logged), NEW s, NEW visits, Tracked(visits, l, s, date)
  PROVE  /\ Tracked(Rotating(visits), l, s, date)
         /\ \A k \in 1..Len(Rotating(visits)) : date - Rotating(visits)[k].at < RotationSpan
<1> DEFINE young == Rotating(visits)
           n == Len(young)
<1>1. PICK pos : Traces(pos, visits, l, s, date)
  BY DEF Tracked
<1>2. visits \in Seq(RotatedVisit)
  BY DEF Tracked
<1>3. young \in Seq(RotatedVisit) /\ Picked(young, visits, Len(visits), RotationSpan)
  BY <1>2, YoungerFacts DEF Rotating
<1>4. PICK at : Picks(at, young, visits, Len(visits), RotationSpan)
  BY <1>3 DEF Picked
<1> DEFINE to == [k \in 1..n |-> pos[at[k]]]
<1> HIDE DEF young
<1>5. /\ \A k \in 1..n : at[k] \in 1..Len(visits)
      /\ \A k, j \in 1..n : at[k] = at[j] => k = j
      /\ \A k \in 1..n : young[k] = visits[at[k]] /\ date - visits[at[k]].at < RotationSpan
      /\ \A i \in 1..Len(visits) : date - visits[i].at < RotationSpan =>
                                     \E k \in 1..n : at[k] = i
  BY <1>4 DEF Picks
<1>6. /\ \A k \in 1..Len(visits) : pos[k] \in VisitsIn(l, s)
      /\ \A k, j \in 1..Len(visits) : pos[k] = pos[j] => k = j
      /\ \A k \in 1..Len(visits) : /\ visits[k].ip = l[pos[k]].ip
                                   /\ visits[k].print = l[pos[k]].print
                                   /\ visits[k].at = l[pos[k]].at
      /\ \A i \in VisitsIn(l, s) : date - l[i].at < RotationSpan =>
                                     \E k \in 1..Len(visits) : pos[k] = i
  BY <1>1 DEF Traces
<1>7. /\ to \in [1..n -> VisitsIn(l, s)]
      /\ \A k \in 1..n : to[k] = pos[at[k]]
  BY <1>5, <1>6
<1> HIDE DEF n, to
<1>8. \A k, j \in 1..n : to[k] = to[j] => k = j
  BY <1>5, <1>6, <1>7
<1>9. \A k \in 1..n : /\ young[k].ip = l[to[k]].ip
                      /\ young[k].print = l[to[k]].print
                      /\ young[k].at = l[to[k]].at
  BY SMTT(30), <1>5, <1>6, <1>7
<1>10. ASSUME NEW i \in VisitsIn(l, s), date - l[i].at < RotationSpan
       PROVE  \E k \in 1..n : to[k] = i
  <2>1. PICK j \in 1..Len(visits) : pos[j] = i
    BY <1>6, <1>10
  <2>2. visits[j].at = l[i].at
    BY <1>6, <2>1
  <2>3. PICK k \in 1..n : at[k] = j
    BY <1>5, <1>10, <2>2
  <2> QED
    BY <1>7, <2>1, <2>3
<1>11. Traces(to, young, l, s, date)
  BY <1>7, <1>8, <1>9, <1>10 DEF Traces, n
<1>12. Tracked(young, l, s, date)
  BY <1>3, <1>11 DEF Tracked
<1>13. \A k \in 1..n : date - young[k].at < RotationSpan
  BY <1>5
<1> QED
  BY <1>12, <1>13 DEF young, n

\* One more visit.
LEMMA TrackedMore ==
  ASSUME NEW l \in Seq(Logged), NEW e \in Logged, NEW m, IsLonger(m, l, e), NEW s,
         e.by = "proxies", e.print # NoPrint, SubnetOf[e.ip] = s,
         NEW today, NEW visits, Tracked(visits, l, s, today), NEW visit \in RotatedVisit,
         visit.ip = e.ip, visit.print = e.print, visit.at = e.at
  PROVE  Tracked(Append(visits, visit), m, s, today)
<1> DEFINE n == Len(visits)
           all == Append(visits, visit)
           new == Len(l) + 1
<1>1. PICK pos : Traces(pos, visits, l, s, today)
  BY DEF Tracked
<1>2. visits \in Seq(RotatedVisit)
  BY DEF Tracked
<1>3. /\ all \in Seq(RotatedVisit) /\ Len(all) = n + 1 /\ n \in Nat
      /\ all[n + 1] = visit
      /\ \A k \in 1..n : all[k] = visits[k]
  BY <1>2
<1>4. /\ n + 1 \in 1..(n + 1)
      /\ \A k \in 1..(n + 1) : k = n + 1 \/ k \in 1..n
      /\ \A k \in 1..n : k # n + 1 /\ k \in 1..(n + 1)
  BY <1>3
<1> DEFINE to == [k \in 1..(n + 1) |-> IF k = n + 1 THEN new ELSE pos[k]]
<1>5. /\ \A i : i \in VisitsIn(m, s) <=> i \in VisitsIn(l, s) \/ i = new
      /\ \A i \in VisitsIn(l, s) : m[i] = l[i] /\ i # new
      /\ m[new] = e
  <2>1. m[new] = e
    BY DEF IsLonger
  <2>2. \A i : i \in VisitsIn(m, s)
                 <=> \/ i \in VisitsIn(l, s)
                     \/ /\ i = Len(l) + 1
                        /\ e.by = "proxies" /\ e.print # NoPrint /\ SubnetOf[e.ip] = s
    BY VisitsAfter
  <2>3. \A i \in VisitsIn(l, s) : m[i] = l[i] /\ i # Len(l) + 1
    BY VisitsAfter
  <2> QED
    BY <2>1, <2>2, <2>3
<1>6. /\ \A k \in 1..n : pos[k] \in VisitsIn(l, s)
      /\ \A k, j \in 1..n : pos[k] = pos[j] => k = j
      /\ \A k \in 1..n : /\ visits[k].ip = l[pos[k]].ip
                         /\ visits[k].print = l[pos[k]].print
                         /\ visits[k].at = l[pos[k]].at
      /\ \A i \in VisitsIn(l, s) : today - l[i].at < RotationSpan =>
                                     \E k \in 1..n : pos[k] = i
  BY <1>1 DEF Traces
<1> HIDE DEF n, all, new
<1>7. /\ to \in [1..(n + 1) -> VisitsIn(m, s)] /\ to[n + 1] = new
      /\ \A k \in 1..n : to[k] = pos[k]
  BY <1>4, <1>5, <1>6
<1> HIDE DEF to
<1>8. ASSUME NEW k \in 1..(n + 1), NEW j \in 1..(n + 1), to[k] = to[j] PROVE k = j
  <2>1. \A i \in 1..n : to[i] = pos[i] /\ to[i] # new
    BY <1>5, <1>6, <1>7
  <2>2. CASE k = n + 1
    BY <1>4, <1>7, <1>8, <2>1, <2>2
  <2>3. CASE k \in 1..n
    <3>1. j \in 1..n
      BY <1>4, <1>7, <1>8, <2>1, <2>3
    <3> QED
      BY <1>6, <1>8, <2>1, <2>3, <3>1
  <2> QED
    BY <1>4, <2>2, <2>3
<1>9. ASSUME NEW k \in 1..(n + 1)
      PROVE  /\ all[k].ip = m[to[k]].ip /\ all[k].print = m[to[k]].print
             /\ all[k].at = m[to[k]].at
  <2>1. CASE k = n + 1
    BY <1>3, <1>5, <1>7, <2>1
  <2>2. CASE k \in 1..n
    BY <1>3, <1>5, <1>6, <1>7, <2>2
  <2> QED
    BY <1>4, <2>1, <2>2
<1>10. ASSUME NEW i \in VisitsIn(m, s), today - m[i].at < RotationSpan
       PROVE  \E k \in 1..(n + 1) : to[k] = i
  <2>1. CASE i = new
    BY <1>4, <1>7, <2>1
  <2>2. CASE i \in VisitsIn(l, s)
    <3>1. PICK k \in 1..n : pos[k] = i
      BY <1>5, <1>6, <1>10, <2>2
    <3> QED
      BY <1>4, <1>7, <3>1
  <2> QED
    BY <1>5, <2>1, <2>2
<1>11. Traces(to, all, m, s, today)
  BY <1>3, <1>7, <1>8, <1>9, <1>10 DEF Traces
<1> QED
  BY <1>3, <1>11 DEF Tracked, all

AllYoung(young, today) == \A k \in 1..Len(young) : today - young[k].at < RotationSpan
FromOthers(young, print, ip) ==
  {k \in DOMAIN young : young[k].print = print /\ young[k].ip # ip}
RotatedIn(l, s, today, print, ip) ==
  {i \in VisitsIn(l, s) : /\ l[i].print = print /\ l[i].ip # ip
                          /\ today - l[i].at < RotationSpan}

\* The list holds as many visits from other addresses as there are in the log.
LEMMA RotatedCount ==
  ASSUME NEW l \in Seq(Logged), NEW s, NEW today, NEW young, Tracked(young, l, s, today),
         AllYoung(young, today), NEW print, NEW ip
  PROVE  Cardinality(FromOthers(young, print, ip))
           = Cardinality(RotatedIn(l, s, today, print, ip))
<1> DEFINE others == FromOthers(young, print, ip)
           rotated == RotatedIn(l, s, today, print, ip)
<1>0. /\ others = {k \in 1..Len(young) : young[k].print = print /\ young[k].ip # ip}
      /\ rotated = {i \in VisitsIn(l, s) : /\ l[i].print = print /\ l[i].ip # ip
                                            /\ today - l[i].at < RotationSpan}
      /\ \A k \in 1..Len(young) : today - young[k].at < RotationSpan
  BY DEF Tracked, FromOthers, RotatedIn, AllYoung
<1> HIDE DEF others, rotated
<1>1. PICK pos : Traces(pos, young, l, s, today)
  BY DEF Tracked
<1>2. /\ \A k \in 1..Len(young) : pos[k] \in VisitsIn(l, s)
      /\ \A k, j \in 1..Len(young) : pos[k] = pos[j] => k = j
      /\ \A k \in 1..Len(young) : /\ young[k].ip = l[pos[k]].ip
                                  /\ young[k].print = l[pos[k]].print
                                  /\ young[k].at = l[pos[k]].at
      /\ \A i \in VisitsIn(l, s) : today - l[i].at < RotationSpan =>
                                     \E k \in 1..Len(young) : pos[k] = i
  BY <1>1 DEF Traces
<1>3. IsFiniteSet(others)
  <2>1. others \in SUBSET (1..Len(young)) /\ Len(young) \in Int /\ 1 \in Int
    BY <1>0 DEF Tracked
  <2>2. IsFiniteSet(1..Len(young))
    BY <2>1, FS_Interval
  <2> QED
    BY <2>1, <2>2, FS_Subset
<1> DEFINE f == [k \in others |-> pos[k]]
<1>4. \A k \in others : pos[k] \in rotated
  BY <1>0, <1>2
<1>5. \A k, j \in others : pos[k] = pos[j] => k = j
  BY <1>0, <1>2
<1>6. ASSUME NEW i \in rotated
      PROVE  \E k \in others : pos[k] = i
  <2>1. /\ i \in VisitsIn(l, s) /\ today - l[i].at < RotationSpan
        /\ l[i].print = print /\ l[i].ip # ip
    BY <1>0
  <2>2. PICK k \in 1..Len(young) : pos[k] = i
    BY <1>2, <2>1
  <2>3. young[k].print = print /\ young[k].ip # ip
    BY <1>2, <2>1, <2>2
  <2> QED
    BY <1>0, <2>2, <2>3
<1>7. f \in Bijection(others, rotated)
  <2>1. f \in [others -> rotated] /\ \A k \in others : f[k] = pos[k]
    BY <1>4
  <2> HIDE DEF f
  <2>2. f \in Injection(others, rotated)
    BY <1>5, <2>1 DEF Injection, IsInjective
  <2>3. f \in Surjection(others, rotated)
    BY <1>6, <2>1 DEF Surjection
  <2> QED
    BY <2>2, <2>3 DEF Bijection
<1>8. ExistsBijection(others, rotated)
  BY <1>7 DEF ExistsBijection
<1> QED
  BY <1>3, <1>8, FS_Bijection DEF others, rotated

LEMMA ProxyStep ==
  ASSUME LogInv, ProxyInv, NEW ip \in Ips, NEW print \in Prints \cup {NoPrint},
         NEW kind \in Kinds, AnalyzeProxy(ip, print, kind)
  PROVE  ProxyInv' /\ RotationExact'
<1> DEFINE e == [by |-> "proxies", ip |-> ip, print |-> print, at |-> date]
           s == SubnetOf[ip]
           visits == ValueOr(subnets, s, <<>>)
           young == Rotating(visits)
           visit == [ip |-> ip, print |-> print, at |-> date]
           others == FromOthers(young, print, ip)
           rotated == RotatedIn(log, s, date, print, ip)
           flow == IF ScraperFlow(FlowOf(ip, kind))
                     THEN {"proxy.non_residential_flow"} ELSE {}
<1>1. /\ Seen("proxies", ip, print)
      /\ subnets' = SubnetVelocity(ip, print).subnets
      /\ raised' = SubnetVelocity(ip, print).signals \cup flow
  BY DEF AnalyzeProxy
<1>2. "proxy.subnet_velocity_anomaly" \notin flow
  OBVIOUS
<1> HIDE DEF flow
<1>3. /\ date' = date /\ e \in Logged /\ IsLonger(log', log, e) /\ log \in Seq(Logged)
      /\ Len(log') = Len(log) + 1 /\ Len(log) \in Nat
      /\ date \in Nat /\ Latest' = e /\ log' \in Seq(Logged)
  BY <1>1, SeenFacts DEF LogInv
<1>4. e.by = "proxies" /\ e.print = print /\ e.ip = ip /\ e.at = date
  OBVIOUS
<1> HIDE DEF e
<1>5. ASSUME NEW q, q # NoSubnet, ValueOr(subnets', q, <<>>) = ValueOr(subnets, q, <<>>),
             print = NoPrint \/ q # s
      PROVE  Tracked(ValueOr(subnets', q, <<>>), log', q, date)
  <2> DEFINE old == ValueOr(subnets, q, <<>>)
  <2>1. Tracked(old, log, q, date)
    BY <1>5 DEF ProxyInv
  <2> HIDE DEF old
  <2>2. ~(e.by = "proxies" /\ e.print # NoPrint /\ SubnetOf[e.ip] = q)
    BY <1>4, <1>5
  <2>3. Tracked(old, log', q, date)
    BY <1>3, <2>1, <2>2, TrackedBesides
  <2> QED
    BY <1>5, <2>3 DEF old
<1>6. CASE print = NoPrint \/ s = NoSubnet
  <2>1. subnets' = subnets
    BY <1>1, <1>6 DEF SubnetVelocity
  <2>2. ProxyInv'
    BY <1>3, <1>5, <1>6, <2>1 DEF ProxyInv
  <2>3. RotationExact'
    BY <1>3, <1>4, <1>6 DEF RotationExact
  <2> QED
    BY <2>2, <2>3
<1>7. CASE print # NoPrint /\ s # NoSubnet
  <2>1. /\ subnets' = Put(subnets, s, Append(young, visit))
        /\ raised' = (IF Cardinality(others) > MostRotations
                        THEN {"proxy.subnet_velocity_anomaly"} ELSE {}) \cup flow
    BY <1>1, <1>7 DEF SubnetVelocity, FromOthers
  <2>2. Tracked(visits, log, s, date)
    BY <1>7 DEF ProxyInv
  <2> HIDE DEF visits
  <2>3. /\ Tracked(young, log, s, date)
        /\ \A k \in 1..Len(young) : date - young[k].at < RotationSpan
    BY <1>3, <2>2, TrackedYoung
  <2> HIDE DEF young
  <2>4. visit \in RotatedVisit /\ visit.ip = ip /\ visit.print = print /\ visit.at = date
    BY <1>3 DEF RotatedVisit
  <2> HIDE DEF visit
  <2>5. Tracked(Append(young, visit), log', s, date)
    BY <1>3, <1>4, <1>7, <2>3, <2>4, TrackedMore
  <2>6. ProxyInv'
    <3> SUFFICES ASSUME NEW q, q # NoSubnet
                 PROVE  Tracked(ValueOr(subnets', q, <<>>), log', q, date)
      BY <1>3 DEF ProxyInv
    <3>1. CASE q = s
      <4>1. ValueOr(subnets', s, <<>>) = Append(young, visit)
        BY <2>1 DEF Put, ValueOr
      <4> QED
        BY <2>5, <3>1, <4>1
    <3>2. CASE q # s
      <4>1. ValueOr(subnets', q, <<>>) = ValueOr(subnets, q, <<>>)
        BY <2>1, <3>2 DEF Put, ValueOr
      <4> QED
        BY <1>5, <3>2, <4>1
    <3> QED
      BY <3>1, <3>2
  <2>7. Cardinality(others) = Cardinality(rotated)
    <3>1. AllYoung(young, date)
      BY <2>3 DEF AllYoung
    <3> QED
      BY <1>3, <2>3, <3>1, RotatedCount
  <2>8. Rotated' = rotated
    <3>1. DOMAIN log' = 1..Len(log')
      BY <1>3
    <3>2. /\ \A i : i \in VisitsIn(log', s)
                      <=> \/ i \in VisitsIn(log, s)
                          \/ /\ i = Len(log) + 1
                             /\ e.by = "proxies" /\ e.print # NoPrint /\ SubnetOf[e.ip] = s
          /\ \A i \in VisitsIn(log, s) : log'[i] = log[i] /\ i # Len(log) + 1
      BY <1>3, VisitsAfter
    <3>3. log'[Len(log) + 1] = e
      BY <1>3 DEF IsLonger
    <3>4. \A i : i \in Rotated' <=> /\ i \in VisitsIn(log', s)
                                    /\ log'[i].print = print /\ log'[i].ip # ip
                                    /\ date - log'[i].at < RotationSpan
      BY <1>3, <1>4, <1>7, <3>1 DEF Rotated, LookedAt, VisitsIn
    <3>5. \A i : i \in Rotated' <=> i \in rotated
      BY <1>4, <3>2, <3>3, <3>4 DEF RotatedIn
    <3> HIDE DEF rotated
    <3> QED
      BY <3>5, Zenon
  <2>9. RotationExact'
    <3>1. "proxy.subnet_velocity_anomaly" \in raised' <=> Cardinality(others) > MostRotations
      BY <1>2, <2>1
    <3> QED
      BY <2>7, <2>8, <3>1 DEF RotationExact
  <2> QED
    BY <2>6, <2>9
<1> QED
  BY <1>6, <1>7

\* What another analyzer looks at is no visit of a subnet.
LEMMA OthersKeepProxies ==
  ASSUME LogInv, ProxyInv, NEW by \in {"rates", "prints"}, NEW ip \in Ips,
         NEW print \in Prints \cup {NoPrint}, Seen(by, ip, print), subnets' = subnets
  PROVE  ProxyInv'
<1> DEFINE e == [by |-> by, ip |-> ip, print |-> print, at |-> date]
<1>1. /\ date' = date /\ e \in Logged /\ IsLonger(log', log, e) /\ log \in Seq(Logged)
      /\ date \in Nat /\ e.by # "proxies"
  BY SeenFacts DEF LogInv
<1> HIDE DEF e
<1>2. ASSUME NEW s, s # NoSubnet
      PROVE  Tracked(ValueOr(subnets, s, <<>>), log', s, date)
  <2> DEFINE old == ValueOr(subnets, s, <<>>)
  <2>1. Tracked(old, log, s, date)
    BY <1>2 DEF ProxyInv
  <2> HIDE DEF old
  <2>2. Tracked(old, log', s, date)
    BY <1>1, <2>1, TrackedBesides
  <2> QED
    BY <2>2 DEF old
<1> QED
  BY <1>1, <1>2 DEF ProxyInv

LEMMA ProxyCleanUp ==
  ASSUME LogInv, ProxyInv, CleanUpProxies
  PROVE  ProxyInv'
<1> DEFINE young == [s \in DOMAIN subnets |-> Rotating(subnets[s])]
           emptied == {s \in DOMAIN young : young[s] = <<>>}
<1>1. /\ subnets' = Without(young, emptied)
      /\ date' = date /\ log' = log /\ date \in Nat /\ log \in Seq(Logged)
  BY DEF CleanUpProxies, LogInv
<1>2. ASSUME NEW s, s # NoSubnet
      PROVE  Tracked(ValueOr(subnets', s, <<>>), log, s, date)
  <2>1. Tracked(ValueOr(subnets, s, <<>>), log, s, date)
    BY <1>2 DEF ProxyInv
  <2>2. CASE s \in DOMAIN subnets
    <3> DEFINE visits == subnets[s]
    <3>1. Tracked(visits, log, s, date)
      BY <2>1, <2>2 DEF ValueOr
    <3>2. ValueOr(subnets', s, <<>>) = Rotating(visits)
      BY <1>1, <2>2 DEF ValueOr, Without
    <3> HIDE DEF visits
    <3>3. Tracked(Rotating(visits), log, s, date)
      BY <1>1, <3>1, TrackedYoung
    <3> QED
      BY <3>2, <3>3
  <2>3. CASE s \notin DOMAIN subnets
    <3>1. ValueOr(subnets', s, <<>>) = <<>> /\ ValueOr(subnets, s, <<>>) = <<>>
      BY <1>1, <2>3 DEF ValueOr, Without
    <3> QED
      BY <2>1, <3>1
  <2> QED
    BY <2>2, <2>3
<1> QED
  BY <1>1, <1>2 DEF ProxyInv

LEMMA ProxyTick ==
  ASSUME LogInv, ProxyInv, subnets' = subnets, log' = log, date' \in Nat, date <= date'
  PROVE  ProxyInv'
<1>1. ASSUME NEW s, s # NoSubnet
      PROVE  Tracked(ValueOr(subnets, s, <<>>), log, s, date')
  <2> DEFINE old == ValueOr(subnets, s, <<>>)
  <2>1. Tracked(old, log, s, date)
    BY <1>1 DEF ProxyInv
  <2> HIDE DEF old
  <2>2. Tracked(old, log, s, date')
    BY <2>1, TrackedLater DEF LogInv
  <2> QED
    BY <2>2 DEF old
<1> QED
  BY <1>1 DEF ProxyInv

\* What was reported stays justified while time passes and the lists are pruned.
LEMMA ReportsKept ==
  ASSUME LogInv, ReportsJustified, log' = log, raised' = raised,
         date' \in Nat, date <= date', sweeping' => sweeping
  PROVE  LogInv' /\ ReportsJustified'
<1>1. LogInv'
  <2>1. \A i \in 1..Len(log) : log[i].at \in Nat
    <3>1. \A i \in 1..Len(log) : log[i] \in Logged
      BY DEF LogInv
    <3> QED
      BY <3>1 DEF Logged
  <2>2. date \in Nat /\ \A i \in 1..Len(log) : log[i].at <= date
    BY DEF LogInv
  <2>3. \A i \in 1..Len(log) : log[i].at <= date'
    BY <2>1, <2>2
  <2> QED
    BY <2>3 DEF LogInv
<1>2. SteadyNotFlagged'
  <2>1. \A t \in 0..date : t \in 0..date'
    BY DEF LogInv
  <2> QED
    BY <2>1 DEF ReportsJustified, SteadyNotFlagged, RequestsOf, LookedAt, Latest
<1>3. RotationExact'
  BY DEF ReportsJustified, RotationExact, Rotated, LookedAt, Latest
<1>4. SharedWithoutPause'
  BY DEF ReportsJustified, SharedWithoutPause, Uses, Unbroken, LookedAt, Latest
<1> QED
  BY <1>1, <1>2, <1>3, <1>4 DEF ReportsJustified

TrackersInv == LogInv /\ RatesInv /\ ProxyInv /\ PrintsInv /\ ReportsJustified

LEMMA TrackersStart == TrackersInit => TrackersInv
<1> SUFFICES ASSUME TrackersInit PROVE TrackersInv
  OBVIOUS
<1>1. /\ date = 0 /\ ipRequestCounts = EmptyMap /\ subnets = NoEntries
      /\ prints = NoEntries /\ log = <<>> /\ raised = {}
  BY DEF TrackersInit
<1>2. LogInv
  BY <1>1 DEF LogInv
<1>3. RatesInv
  BY <1>1, EmptyMapFacts DEF RatesInv
<1>4. ProxyInv
  <2> SUFFICES ASSUME NEW s PROVE Tracked(ValueOr(subnets, s, <<>>), log, s, date)
    BY DEF ProxyInv
  <2>1. ValueOr(subnets, s, <<>>) = <<>>
    BY <1>1 DEF ValueOr, NoEntries
  <2>2. VisitsIn(log, s) = {}
    BY <1>1 DEF VisitsIn
  <2>3. Len(<<>>) = 0 /\ <<>> \in Seq(RotatedVisit)
    OBVIOUS
  <2>4. Traces([k \in 1..0 |-> 0], <<>>, log, s, date)
    BY <2>2, <2>3 DEF Traces
  <2> QED
    BY <2>1, <2>3, <2>4 DEF Tracked
<1>5. PrintsInv
  BY <1>1 DEF PrintsInv, NoEntries
<1>6. ReportsJustified
  BY <1>1 DEF ReportsJustified, SteadyNotFlagged, RotationExact, SharedWithoutPause
<1> QED
  BY <1>2, <1>3, <1>4, <1>5, <1>6 DEF TrackersInv

LEMMA TrackersStep == TrackersInv /\ [TrackersNext]_trackerVars => TrackersInv'
<1> SUFFICES ASSUME LogInv, RatesInv, ProxyInv, PrintsInv, ReportsJustified,
                    [TrackersNext]_trackerVars
             PROVE  TrackersInv'
  BY DEF TrackersInv
<1>0. date \in Nat
  BY DEF LogInv
<1>1. ASSUME NEW ip \in Ips, TrackRequestVelocity(ip)
      PROVE  TrackersInv'
  <2>1. /\ Seen("rates", ip, NoPrint) /\ subnets' = subnets
        /\ prints' = prints /\ sweeping' = sweeping
        /\ raised' \subseteq {"ip.high_velocity"}
    BY <1>1 DEF TrackRequestVelocity, proxyVars, printVars
  <2>2. RatesInv' /\ SteadyNotFlagged'
    BY <1>1, RatesStep
  <2>3. ProxyInv' /\ PrintsInv'
    BY <2>1, OthersKeepProxies, OthersKeepPrints
  <2>4. LogInv' /\ Latest' = [by |-> "rates", ip |-> ip, print |-> NoPrint, at |-> date]
    BY <2>1, SeenFacts
  <2>5. RotationExact' /\ SharedWithoutPause'
    BY <2>1, <2>4 DEF RotationExact, SharedWithoutPause
  <2> QED
    BY <2>2, <2>3, <2>4, <2>5 DEF TrackersInv, ReportsJustified
<1>2. ASSUME NEW ip \in Ips, NEW print \in Prints \cup {NoPrint}, NEW kind \in Kinds,
             AnalyzeProxy(ip, print, kind)
      PROVE  TrackersInv'
  <2>1. /\ Seen("proxies", ip, print) /\ ipRequestCounts' = ipRequestCounts
        /\ prints' = prints /\ sweeping' = sweeping
    BY <1>2 DEF AnalyzeProxy, ipVars, printVars
  <2>2. raised' \subseteq {"proxy.subnet_velocity_anomaly", "proxy.non_residential_flow"}
    BY <1>2 DEF AnalyzeProxy, SubnetVelocity
  <2>3. ProxyInv' /\ RotationExact'
    BY <1>2, ProxyStep
  <2>4. RatesInv' /\ PrintsInv'
    BY <2>1, OthersKeepRates, OthersKeepPrints
  <2>5. LogInv'
    BY <2>1, SeenFacts
  <2>6. SteadyNotFlagged' /\ SharedWithoutPause'
    BY <2>2 DEF SteadyNotFlagged, SharedWithoutPause
  <2> QED
    BY <2>3, <2>4, <2>5, <2>6 DEF TrackersInv, ReportsJustified
<1>3. ASSUME NEW p \in Prints, NEW ip \in Ips, TrackFingerprintFrequency(p, ip)
      PROVE  TrackersInv'
  <2>1. /\ Seen("prints", ip, p) /\ ipRequestCounts' = ipRequestCounts
        /\ subnets' = subnets /\ raised' \subseteq {"tls.fingerprint_botnet_heuristic"}
    BY <1>3 DEF TrackFingerprintFrequency, ipVars, proxyVars
  <2>2. PrintsInv' /\ SharedWithoutPause'
    BY <1>3, PrintsStep
  <2>3. RatesInv' /\ ProxyInv'
    BY <2>1, OthersKeepRates, OthersKeepProxies
  <2>4. LogInv' /\ Latest' = [by |-> "prints", ip |-> ip, print |-> p, at |-> date]
    BY <2>1, SeenFacts
  <2>5. SteadyNotFlagged' /\ RotationExact'
    BY <2>1, <2>4 DEF SteadyNotFlagged, RotationExact
  <2> QED
    BY <2>2, <2>3, <2>4, <2>5 DEF TrackersInv, ReportsJustified
<1>4. CASE CleanUpRates
  <2>1. /\ subnets' = subnets /\ prints' = prints /\ sweeping' = sweeping
        /\ date' = date /\ swept' = swept /\ log' = log /\ raised' = raised
    BY <1>4 DEF CleanUpRates, proxyVars, printVars
  <2>2. RatesInv'
    BY <1>4, RatesCleanUp
  <2>3. ProxyInv'
    BY <1>0, <2>1, ProxyTick
  <2>4. PrintsInv'
    BY <2>1 DEF PrintsInv
  <2>5. LogInv' /\ ReportsJustified'
    BY <1>0, <2>1, ReportsKept
  <2> QED
    BY <2>2, <2>3, <2>4, <2>5 DEF TrackersInv
<1>5. CASE CleanUpProxies
  <2>1. /\ ipRequestCounts' = ipRequestCounts /\ prints' = prints
        /\ sweeping' = sweeping
        /\ date' = date /\ swept' = swept /\ log' = log /\ raised' = raised
    BY <1>5 DEF CleanUpProxies, ipVars, printVars
  <2>2. RatesInv'
    BY <1>0, <2>1, RatesTick
  <2>3. ProxyInv'
    BY <1>5, ProxyCleanUp
  <2>4. PrintsInv'
    BY <2>1 DEF PrintsInv
  <2>5. LogInv' /\ ReportsJustified'
    BY <1>0, <2>1, ReportsKept
  <2> QED
    BY <2>2, <2>3, <2>4, <2>5 DEF TrackersInv
<1>6. CASE DestroyPrints
  <2>1. /\ ipRequestCounts' = ipRequestCounts /\ subnets' = subnets
        /\ sweeping' = FALSE
        /\ date' = date /\ swept' = swept /\ log' = log /\ raised' = raised
    BY <1>6 DEF DestroyPrints, ipVars, proxyVars
  <2>2. RatesInv' /\ ProxyInv'
    BY <1>0, <2>1, RatesTick, ProxyTick
  <2>3. PrintsInv'
    BY <2>1 DEF PrintsInv
  <2>4. LogInv' /\ ReportsJustified'
    BY <1>0, <2>1, ReportsKept
  <2> QED
    BY <2>2, <2>3, <2>4 DEF TrackersInv
<1>7. CASE Sweep
  <2>1. /\ ipRequestCounts' = ipRequestCounts /\ subnets' = subnets
        /\ sweeping' = sweeping
        /\ date' = date /\ log' = log /\ raised' = raised
    BY <1>7 DEF Sweep, ipVars, proxyVars
  <2>2. RatesInv' /\ ProxyInv'
    BY <1>0, <2>1, RatesTick, ProxyTick
  <2>3. PrintsInv'
    BY <1>0, <1>7, SweepStep
  <2>4. LogInv' /\ ReportsJustified'
    BY <1>0, <2>1, ReportsKept
  <2> QED
    BY <2>2, <2>3, <2>4 DEF TrackersInv
<1>8. CASE TrackersTick
  <2>1. /\ ipRequestCounts' = ipRequestCounts /\ subnets' = subnets
        /\ sweeping' = sweeping /\ log' = log /\ raised' = raised
        /\ date' \in Nat /\ date <= date'
    BY <1>0, <1>8 DEF TrackersTick, ipVars, proxyVars, printVars
  <2>2. RatesInv' /\ ProxyInv'
    BY <2>1, RatesTick, ProxyTick
  <2>3. PrintsInv'
    BY <1>8, PrintsTick
  <2>4. LogInv' /\ ReportsJustified'
    BY <2>1, ReportsKept
  <2> QED
    BY <2>2, <2>3, <2>4 DEF TrackersInv
<1>9. CASE UNCHANGED trackerVars
  <2>1. /\ ipRequestCounts' = ipRequestCounts /\ subnets' = subnets
        /\ prints' = prints /\ sweeping' = sweeping
        /\ date' = date /\ swept' = swept /\ log' = log /\ raised' = raised
    BY <1>9 DEF trackerVars, ipVars, proxyVars, printVars
  <2>2. RatesInv' /\ ProxyInv'
    BY <1>0, <2>1, RatesTick, ProxyTick
  <2>3. PrintsInv'
    BY <2>1 DEF PrintsInv
  <2>4. LogInv' /\ ReportsJustified'
    BY <1>0, <2>1, ReportsKept
  <2> QED
    BY <2>2, <2>3, <2>4 DEF TrackersInv
<1> QED
  BY <1>1, <1>2, <1>3, <1>4, <1>5, <1>6, <1>7, <1>8, <1>9
     DEF TrackersNext, RatesNext, ProxyNext, PrintsNext, ClockNext

(***************************************************************************)
(* Whatever is evicted, pruned, swept and started again in between, and    *)
(* for every limit and span: a client that keeps to half the rate limit in *)
(* every minute is not reported as too fast (IPAnalyzer), a rotation is    *)
(* reported exactly when the young visits of the log make one              *)
(* (ResidentialProxyDetector), and a fingerprint is reported as shared     *)
(* only for addresses that used it without a pause (TLSFingerprinter).     *)
(***************************************************************************)
THEOREM ReportsAlways == TrackersSpec => []ReportsJustified
<1>1. TrackersSpec => []TrackersInv
  BY TrackersStart, TrackersStep, PTL DEF TrackersSpec
<1>2. TrackersInv => ReportsJustified
  BY DEF TrackersInv
<1> QED
  BY <1>1, <1>2, PTL

---------------------------------------------------------------------------
(* The types of all of them (MCClientTables), and that no map outgrows     *)
(* maxSize.                                                                *)

WindowSmall == WindowInv /\ Small(windows) /\ clock <= MaxClock /\ armed \in BOOLEAN

\* The window a request uses is stored first, and written to in place.
LEMMA WindowFewer ==
  ASSUME WindowSmall, NEW k, IsAllowedInWindow(k)
  PROVE  Small(windows')
  <1> DEFINE fetched == AfterGet(windows, k)
             stored == IF Has(windows, k) THEN fetched ELSE AfterSet(fetched, k, <<>>)
  <1>1. IsMap(windows) /\ Small(windows)
    BY DEF WindowSmall, WindowInv
  <1>2. IsMap(fetched) /\ Small(fetched)
    BY <1>1, AfterGetFacts, AfterGetIsSmall
  <1>3. IsMap(stored) /\ Small(stored) /\ k \in KeysOf(stored)
    <2>1. CASE Has(windows, k)
      <3>1. k \notin DroppedByGet(windows, k) /\ k \in KeysOf(windows)
        BY <1>1, <2>1, AfterGetFacts DEF Has
      <3>2. KeysOf(fetched) = KeysOf(windows) \ DroppedByGet(windows, k)
        BY <1>1, AfterGetFacts DEF SameEntries
      <3> QED
        BY <1>2, <2>1, <3>1, <3>2
    <2>2. CASE ~Has(windows, k)
      <3> HIDE DEF fetched
      <3>1. /\ IsMap(AfterSet(fetched, k, <<>>)) /\ Small(AfterSet(fetched, k, <<>>))
            /\ k \in KeysOf(AfterSet(fetched, k, <<>>))
        BY <1>2, AfterSetFacts, AfterSetIsSmall
      <3> QED
        BY <2>2, <3>1
    <2> QED
      BY <2>1, <2>2
  <1>4. PICK kept : windows' = Mutate(stored, k, kept)
    BY DEF IsAllowedInWindow
  <1> HIDE DEF stored
  <1> QED
    BY <1>3, <1>4, MutateIsSmall

LEMMA NextWindowSmall == WindowSmall /\ [WindowNext]_windowVars => WindowSmall'
  <1> SUFFICES ASSUME WindowSmall, [WindowNext]_windowVars PROVE WindowSmall'
    OBVIOUS
  <1>0. WindowInv /\ WindowInv' /\ IsMap(windows) /\ Small(windows)
    BY NextKeepsWindow DEF WindowSmall, WindowInv
  <1>1. Small(windows')
    <2>1. ASSUME NEW k \in Clients, IsAllowedInWindow(k) PROVE Small(windows')
      BY <2>1, WindowFewer
    <2>2. ASSUME NEW k \in Clients, GetCurrentCount(k) PROVE Small(windows')
      BY <1>0, <2>2, AfterGetIsSmall DEF GetCurrentCount
    <2>3. ASSUME NEW k \in Clients, ResetWindow(k) PROVE Small(windows')
      BY <1>0, <2>3, AfterDeleteIsSmall DEF ResetWindow
    <2>4. CASE CleanupWindows
      BY <1>0, <2>4, AfterDeleteAllIsSmall DEF CleanupWindows
    <2>5. CASE DestroyWindows
      BY <2>5, EmptyIsSmall DEF DestroyWindows
    <2>6. CASE WindowTick \/ UNCHANGED windowVars
      BY <1>0, <2>6 DEF WindowTick, windowVars
    <2> QED
      BY <2>1, <2>2, <2>3, <2>4, <2>5, <2>6 DEF WindowNext
  <1>2. clock' <= MaxClock /\ armed' \in BOOLEAN
    <2>1. clock \in Nat /\ MaxClock \in Nat /\ clock <= MaxClock /\ armed \in BOOLEAN
      BY SlidingWindowAssumption DEF WindowSmall, WindowInv
    <2>2. clock' = clock \/ (clock < MaxClock /\ clock' = clock + 1)
      BY DEF WindowNext, IsAllowedInWindow, GetCurrentCount, ResetWindow,
             CleanupWindows, DestroyWindows, WindowTick, windowVars
    <2>3. armed' = armed \/ armed' = FALSE
      BY DEF WindowNext, IsAllowedInWindow, GetCurrentCount, ResetWindow,
             CleanupWindows, DestroyWindows, WindowTick, windowVars
    <2>4. clock' <= MaxClock
      BY <2>1, <2>2
    <2> QED
      BY <2>1, <2>3, <2>4, Zenon
  <1> QED
    BY <1>0, <1>1, <1>2 DEF WindowSmall

LEMMA WindowTypes == WindowSmall => WindowTypeOK
  <1> SUFFICES ASSUME WindowSmall PROVE WindowTypeOK
    OBVIOUS
  <1>1. SizeOf(windows) <= MaxSize
    BY SizesOf DEF WindowSmall
  <1>2. ASSUME NEW k \in KeysOf(windows)
        PROVE  /\ Len(ValueOf(windows, k)) <= MaxRequests
               /\ \A i \in DOMAIN ValueOf(windows, k) : ValueOf(windows, k)[i] \in 1..clock
    <2>1. k \in Clients /\ Stamps(k) = ValueOf(windows, k) /\ StampsOK(Stamps(k), clock)
      BY <1>2 DEF WindowSmall, WindowInv, ClientOK, Stamps, Has
    <2> QED
      BY <2>1 DEF StampsOK
  <1>3. clock \in 1..MaxClock /\ armed \in BOOLEAN /\ KeysOf(windows) \subseteq Clients
    BY SlidingWindowAssumption DEF WindowSmall, WindowInv
  <1> QED
    BY <1>1, <1>2, <1>3 DEF WindowTypeOK

SessionsSmall ==
  IdleInv /\ Small(sessions) /\ time <= LastTime /\ totalExpired \in Nat

\* The sessions that leave are some of those held, which are finitely many.
LEMMA HeldFinite ==
  ASSUME NEW f, Small(f), NEW S, S \subseteq KeysOf(f)
  PROVE  Cardinality(S) \in Nat
  <1>1. IsFiniteSet(KeysOf(f))
    BY FS_Union DEF Small, FewKeys, KeysOf
  <1> QED
    BY <1>1, FS_Subset, FS_CardinalityType

LEMMA ResumeFewer ==
  ASSUME SessionsSmall, NEW id, Resume(id)
  PROVE  Small(sessions') /\ totalExpired' \in Nat
  <1>1. IsMap(sessions) /\ Small(sessions) /\ totalExpired \in Nat
    BY DEF SessionsSmall, IdleInv, TimesInv
  <1>2. /\ IsMap(AfterGet(sessions, id)) /\ Small(AfterGet(sessions, id))
        /\ DroppedByGet(sessions, id) \subseteq KeysOf(sessions)
        /\ id \in KeysOf(AfterGet(sessions, id))
    BY <1>1, AfterGetFacts, AfterGetIsSmall DEF Resume, Has, SameEntries
  <1>3. Cardinality(DroppedByGet(sessions, id)) \in Nat
    BY <1>1, <1>2, HeldFinite
  <1> QED
    BY <1>1, <1>2, <1>3, MutateIsSmall DEF Resume

LEMMA NextSessionsSmall == SessionsSmall /\ [SessionNext]_sessionVars => SessionsSmall'
  <1> SUFFICES ASSUME SessionsSmall, [SessionNext]_sessionVars PROVE SessionsSmall'
    OBVIOUS
  <1>0. /\ IdleInv /\ IdleInv' /\ IsMap(sessions) /\ Small(sessions)
        /\ totalExpired \in Nat /\ time \in Nat /\ time <= LastTime /\ LastTime \in Nat
    BY NextIdle, SessionAssumption DEF SessionsSmall, IdleInv, TimesInv
  <1>1. Small(sessions') /\ totalExpired' \in Nat
    <2>1. ASSUME NEW token, Resume(token) PROVE Small(sessions') /\ totalExpired' \in Nat
      BY <2>1, ResumeFewer
    <2>2. ASSUME NEW id, Create(id) PROVE Small(sessions') /\ totalExpired' \in Nat
      <3>1. Cardinality(DroppedBySet(sessions, id)) \in Nat
        BY <1>0, AfterSetFacts, HeldFinite
      <3> QED
        BY <1>0, <2>2, <3>1, AfterSetIsSmall DEF Create
    <2>3. ASSUME NEW id, AddVerdict(id) PROVE Small(sessions') /\ totalExpired' \in Nat
      <3>1. Cardinality(DroppedByGet(sessions, id)) \in Nat
        BY <1>0, AfterGetFacts, HeldFinite
      <3> QED
        BY <1>0, <2>3, <3>1, AfterGetIsSmall DEF AddVerdict
    <2>4. CASE CleanupSessions
      <3>1. Cardinality(Expired) \in Nat
        BY <1>0, HeldFinite DEF Expired
      <3> QED
        BY <1>0, <2>4, <3>1, AfterDeleteAllIsSmall DEF CleanupSessions
    <2>5. CASE DestroySessions
      BY <1>0, <2>5, EmptyIsSmall DEF DestroySessions
    <2>6. CASE SessionTick \/ UNCHANGED sessionVars
      BY <1>0, <2>6 DEF SessionTick, sessionVars
    <2> QED
      BY <2>1, <2>2, <2>3, <2>4, <2>5, <2>6 DEF SessionNext, ProcessRequest
  <1>2. time' <= LastTime
    <2>1. time' = time \/ (time < LastTime /\ time' = time + 1)
      BY DEF SessionNext, ProcessRequest, Resume, Create, AddVerdict,
             CleanupSessions, DestroySessions, SessionTick, sessionVars
    <2> QED
      BY <1>0, <2>1
  <1> QED
    BY <1>0, <1>1, <1>2 DEF SessionsSmall

LEMMA SessionTypes == SessionsSmall => SessionTypeOK
  BY SizesOf, SessionAssumption DEF SessionsSmall, IdleInv, TimesInv, SessionTypeOK

BucketTypes == BucketsOK /\ running \in BOOLEAN
TrafficTypes == AttackInv /\ counted \in Rates \cup {0}

LEMMA NextBucketTypes == BucketTypes /\ [Next]_vars => BucketTypes'
  <1> SUFFICES ASSUME BucketTypes, [Next]_vars PROVE BucketTypes'
    OBVIOUS
  <1>1. running' = running \/ running' = FALSE
    BY DEF Next, IsAllowed, GetStatus, Reset, ResetAll, Destroy, Cleanup, Tick, vars
  <1> QED
    BY <1>1, NextRefines DEF BucketTypes

LEMMA NextTrafficTypes ==
  TrafficTypes /\ [AdaptiveNext]_adaptiveVars => TrafficTypes'
  <1> SUFFICES ASSUME TrafficTypes, [AdaptiveNext]_adaptiveVars PROVE TrafficTypes'
    OBVIOUS
  <1>1. CASE Check
    BY <1>1, CheckKeeps DEF TrafficTypes, Check
  <1>2. CASE AnalyzeTraffic
    BY <1>2, AnalyzeKeeps DEF TrafficTypes, AnalyzeTraffic
  <1>3. CASE UNCHANGED adaptiveVars
    BY <1>3 DEF TrafficTypes, AttackInv, StillRemembered, adaptiveVars
  <1> QED
    BY <1>1, <1>2, <1>3 DEF AdaptiveNext

\* The invariant of the one that is used; the others do not move.
TablesInv ==
  /\ used = "bucket" => BucketTypes
  /\ used = "window" => WindowSmall
  /\ used = "sessions" => SessionsSmall
  /\ used = "traffic" => TrafficTypes

LEMMA TablesStart == InitAny => TablesInv
  <1> SUFFICES ASSUME InitAny PROVE TablesInv
    OBVIOUS
  <1>1. BucketTypes
    BY InitRefines DEF InitAny, Init, BucketTypes
  <1>2. WindowSmall
    BY InitWindow, EmptyIsSmall, SlidingWindowAssumption
    DEF InitAny, WindowInit, WindowSmall
  <1>3. SessionsSmall
    BY InitIdle, EmptyIsSmall, SessionAssumption DEF InitAny, SessionInit, SessionsSmall
  <1>4. TrafficTypes
    BY AttackInvInit DEF InitAny, AdaptiveInit, TrafficTypes
  <1> QED
    BY <1>1, <1>2, <1>3, <1>4 DEF TablesInv

LEMMA TablesStep ==
  ASSUME TablesInv,
         [NextBucket \/ NextWindow \/ NextSessions \/ NextTraffic]_
           <<used, vars, windowVars, sessionVars, adaptiveVars>>
  PROVE  TablesInv'
  <1>1. used' = used
    BY DEF NextBucket, NextWindow, NextSessions, NextTraffic
  <1>2. CASE used = "bucket"
    <2>1. [Next]_vars
      BY <1>2 DEF NextBucket, NextWindow, NextSessions, NextTraffic
    <2>2. BucketTypes'
      BY <1>2, <2>1, NextBucketTypes DEF TablesInv
    <2> QED
      BY <1>1, <1>2, <2>2 DEF TablesInv
  <1>3. CASE used = "window"
    <2>1. [WindowNext]_windowVars
      BY <1>3 DEF NextBucket, NextWindow, NextSessions, NextTraffic
    <2>2. WindowSmall'
      BY <1>3, <2>1, NextWindowSmall DEF TablesInv
    <2> QED
      BY <1>1, <1>3, <2>2 DEF TablesInv
  <1>4. CASE used = "sessions"
    <2>1. [SessionNext]_sessionVars
      BY <1>4 DEF NextBucket, NextWindow, NextSessions, NextTraffic
    <2>2. SessionsSmall'
      BY <1>4, <2>1, NextSessionsSmall DEF TablesInv
    <2> QED
      BY <1>1, <1>4, <2>2 DEF TablesInv
  <1>5. CASE used = "traffic"
    <2>1. [AdaptiveNext]_adaptiveVars
      BY <1>5 DEF NextBucket, NextWindow, NextSessions, NextTraffic
    <2>2. TrafficTypes'
      BY <1>5, <2>1, NextTrafficTypes DEF TablesInv
    <2> QED
      BY <1>1, <1>5, <2>2 DEF TablesInv
  <1>6. CASE used \notin {"bucket", "window", "sessions", "traffic"}
    BY <1>1, <1>6 DEF TablesInv
  <1> QED
    BY <1>2, <1>3, <1>4, <1>5, <1>6

\* What a server keeps about its clients stays well formed and within its
\* limits: no map ever holds more than maxSize keys, no window more than
\* MaxRequests times, no bucket less than nothing or more than it can, and no
\* session was active in the future.
THEOREM TablesWellFormed == SpecAny => []TablesTypeOK
  <1>1. TablesInv => TablesTypeOK
    <2> SUFFICES ASSUME TablesInv PROVE TablesTypeOK
      OBVIOUS
    <2>1. BucketTypes => TypeOK
      BY DEF BucketTypes, BucketsOK, BucketOK, TypeOK
    <2>2. TrafficTypes => AdaptiveTypeOK
      BY DEF TrafficTypes, AttackInv, AdaptiveTypeOK
    <2> QED
      BY <2>1, <2>2, WindowTypes, SessionTypes DEF TablesInv, TablesTypeOK
  <1> QED
    BY <1>1, TablesStart, TablesStep, PTL DEF SpecAny
=============================================================================
