----------------------------- MODULE BoundedMap -----------------------------
(***************************************************************************)
(* The two-generation map of packages/core/src/utils/bounded.ts as a data  *)
(* structure: operators on a record [current, previous] of two partial     *)
(* functions.  The rate limiters, the IP analyzer and the session manager  *)
(* keep their per-client state in such a map.  The constructor's           *)
(* RangeError is the assumption on MaxSize.                                *)
(***************************************************************************)
EXTENDS Integers, FiniteSets, PartialFunctions

CONSTANT MaxSize

ASSUME MaxSizeAssumption == MaxSize \in Nat /\ MaxSize >= 2

GenerationSize == MaxSize \div 2

EmptyMap == [current |-> NoEntries, previous |-> NoEntries]

KeysOf(m) == DOMAIN m.current \cup DOMAIN m.previous
Has(m, k) == k \in KeysOf(m)
ValueOf(m, k) == IF k \in DOMAIN m.current THEN m.current[k] ELSE m.previous[k]
SizeOf(m) == Cardinality(DOMAIN m.current) + Cardinality(DOMAIN m.previous)

\* Mutant: one key too many before the generations rotate.
IsFullLate(m) == Cardinality(DOMAIN m.current) > GenerationSize
IsFull(m) == Cardinality(DOMAIN m.current) >= GenerationSize

\* insert(): a full current generation becomes the previous one, and the old
\* previous one is dropped, before the key goes into the current one.
Insert(m, k, v) ==
  IF IsFull(m)
  THEN [current |-> Put(NoEntries, k, v), previous |-> m.current]
  ELSE [m EXCEPT !.current = Put(m.current, k, v)]

\* The keys for which insert() calls onEvict.
DroppedByInsert(m) == IF IsFull(m) THEN DOMAIN m.previous ELSE {}

\* set() and get() insert a key that is not in the current generation, after
\* removing it from the previous one; a key of the current one stays in place.
Demote(m, k) == [m EXCEPT !.previous = Without(m.previous, {k})]

AfterSet(m, k, v) ==
  IF k \in DOMAIN m.current
  THEN [m EXCEPT !.current = Put(m.current, k, v)]
  ELSE Insert(Demote(m, k), k, v)

DroppedBySet(m, k) ==
  IF k \in DOMAIN m.current THEN {} ELSE DroppedByInsert(Demote(m, k))

Promotes(m, k) == k \in DOMAIN m.previous /\ k \notin DOMAIN m.current

\* Mutants: get() does not promote; get() inserts with swapped arguments.
GetWithoutPromotion(m, k) == m
GetSwapped(m, k) ==
  IF Promotes(m, k) THEN Insert(Demote(m, k), k, k) ELSE m

AfterGet(m, k) ==
  IF Promotes(m, k) THEN Insert(Demote(m, k), k, m.previous[k]) ELSE m

DroppedByGet(m, k) ==
  IF Promotes(m, k) THEN DroppedByInsert(Demote(m, k)) ELSE {}

\* Mutant: delete() looks at the current generation only.
DeleteCurrentOnly(m, k) == [m EXCEPT !.current = Without(m.current, {k})]

\* delete(): the short-circuit || looks at the previous generation only when
\* the current one did not hold the key.
AfterDelete(m, k) ==
  IF k \in DOMAIN m.current
  THEN [m EXCEPT !.current = Without(m.current, {k})]
  ELSE Demote(m, k)

\* The holder of a reference changes the value in place, without a set().
Mutate(m, k, v) ==
  IF k \in DOMAIN m.current
  THEN [m EXCEPT !.current = Put(m.current, k, v)]
  ELSE [m EXCEPT !.previous = Put(m.previous, k, v)]

\* A loop of deletes over the keys of S (the limiters' and sessions' cleanup).
AfterDeleteAll(m, S) ==
  [current |-> Without(m.current, S), previous |-> Without(m.previous, S)]
=============================================================================
