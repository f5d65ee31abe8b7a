--------------------------- MODULE BoundedMapSpec ---------------------------
(***************************************************************************)
(* The bounded map as a state machine: any sequence of set(), get(),       *)
(* delete() and clear() on one BoundedMap (core/src/utils/bounded.ts).     *)
(***************************************************************************)
EXTENDS BoundedMap

CONSTANTS
  Keys, Values,
  NoValue       \* undefined

ASSUME NoValueAssumption == NoValue \notin Values
ASSUME KeysAssumption == IsFiniteSet(Keys)

VARIABLES
  m,         \* the two generations
  call,      \* the last call, and
  answer,    \* what it returned, if it was a get()
  age        \* history: insert() calls since the key was last set or read,
             \* counted up to Forgotten

vars == <<m, call, answer, age>>

Forgotten == GenerationSize + 1

Init ==
  /\ m = EmptyMap
  /\ call = [op |-> "none"]
  /\ answer = NoValue
  /\ age = [k \in Keys |-> Forgotten]

\* The ages after insert() put k into the current generation, and after a use
\* that found it there.
AgedByInsert(k) ==
  [j \in Keys |-> IF j = k THEN 0
                  ELSE IF age[j] < Forgotten THEN age[j] + 1 ELSE Forgotten]
Renewed(k) == [age EXCEPT ![k] = 0]

Set(k, v) ==
  /\ m' = AfterSet(m, k, v)
  /\ call' = [op |-> "set", key |-> k, value |-> v]
  /\ answer' = NoValue
  /\ age' = IF k \in DOMAIN m.current THEN Renewed(k) ELSE AgedByInsert(k)

Get(k) ==
  /\ m' = AfterGet(m, k)
  /\ call' = [op |-> "get", key |-> k]
  /\ answer' = IF Has(m, k) THEN ValueOf(m, k) ELSE NoValue
  /\ age' = IF Promotes(m, k) THEN AgedByInsert(k)
            ELSE IF Has(m, k) THEN Renewed(k) ELSE age

Delete(k) ==
  /\ m' = AfterDelete(m, k)
  /\ call' = [op |-> "delete", key |-> k]
  /\ answer' = NoValue
  /\ age' = [age EXCEPT ![k] = Forgotten]

Clear ==
  /\ m' = EmptyMap
  /\ call' = [op |-> "clear"]
  /\ answer' = NoValue
  /\ age' = [k \in Keys |-> Forgotten]

Next ==
  \/ \E k \in Keys, v \in Values : Set(k, v)
  \/ \E k \in Keys : Get(k) \/ Delete(k)
  \/ Clear

Spec == Init /\ [][Next]_vars

-----------------------------------------------------------------------------
Generations == UNION {[D -> Values] : D \in SUBSET Keys}

Calls == [op : {"none", "clear"}] \cup [op : {"get", "delete"}, key : Keys]
           \cup [op : {"set"}, key : Keys, value : Values]
CallOK == call \in Calls /\ answer \in Values \cup {NoValue}

\* Type invariant: two partial maps, a call with its answer, and bounded ages.
TypeOK ==
  /\ m \in [current : Generations, previous : Generations]
  /\ CallOK
  /\ age \in [Keys -> 0..Forgotten]

\* No key lives in both generations; otherwise delete(), which stops at the
\* first one, would bring back an old value.
Disjoint == DOMAIN m.current \cap DOMAIN m.previous = {}

\* The map holds at most maxSize keys, whatever is set, read or deleted.
SizeBounded == SizeOf(m) <= MaxSize

\* "Every key set or read among the last maxSize / 2 insertions is kept":
\* a key is present until more than GenerationSize insert() calls have
\* passed since it was last set or read.
RecentKept == \A k \in Keys : age[k] <= GenerationSize => Has(m, k)

\* Why the promise holds: a key in the previous generation has been there for
\* at least as many insertions as the current generation holds keys.
PreviousIsOlder ==
  /\ Cardinality(DOMAIN m.current) <= GenerationSize
  /\ Cardinality(DOMAIN m.previous) <= GenerationSize
  /\ \A k \in DOMAIN m.previous : age[k] >= Cardinality(DOMAIN m.current)

IInv == TypeOK /\ Disjoint /\ RecentKept /\ PreviousIsOlder

-----------------------------------------------------------------------------
\* The caller's view: one map holding the entries of both generations.
View == [k \in KeysOf(m) |-> ValueOf(m, k)]

Lossy == INSTANCE LossyMap WITH map <- View

\* The two generations implement the lossy map: a get() returns the last value
\* set, a delete() really removes, and keys vanish only while another key is
\* set or read.
ImplementsLossyMap == Lossy!Spec
=============================================================================
