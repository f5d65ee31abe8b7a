----------------------------- MODULE TokenBucket -----------------------------
(***************************************************************************)
(* TokenBucketLimiter (core/src/modules/rate-limiter).  Buckets are        *)
(* created full on first use, refilled lazily when they are used, kept in  *)
(* a bounded map and deleted by a timer after MaxAge without a refill.     *)
(* Time is in ticks, tokens in the fractions one tick refills.             *)
(***************************************************************************)
EXTENDS BoundedMap

CONSTANTS
  Keys,
  Capacity, Refill,    \* Refill: tokens per tick
  Costs,               \* costs a caller asks for
  MaxAge,
  NoAnswer,
  MaxTime              \* bound: the clock stops there

\* The last conjunct is what makes the cleanup harmless: a bucket that is old
\* enough to be deleted would be full if it were refilled.
ASSUME TokenBucketAssumption ==
  /\ Capacity \in Nat \ {0}
  /\ Refill \in Nat \ {0}
  /\ Costs \subseteq Nat \ {0}
  /\ MaxAge \in Nat
  /\ MaxTime \in Nat
  /\ Capacity <= Refill * MaxAge

VARIABLES
  now,        \* Date.now()
  buckets,    \* bounded map from keys to [tokens, lastRefill]
  running,    \* the cleanup timer is armed
  answer,     \* the last call and what it returned, without retryAfterMs
  promise     \* history: per key, the cost last refused and when to retry

vars == <<now, buckets, running, answer, promise>>

Bucket == [tokens : 0..Capacity, lastRefill : 0..MaxTime]
NoPromise == [cost |-> 0, at |-> 0]

AtMost(limit, x) == IF x <= limit THEN x ELSE limit
\* Mutant: a fraction of a tick is cut off.
FloorDiv(a, b) == a \div b
CeilDiv(a, b) == (a + b - 1) \div b

Init ==
  /\ now = 0
  /\ buckets = EmptyMap
  /\ running = TRUE
  /\ answer = NoAnswer
  /\ promise = [k \in Keys |-> NoPromise]

\* refillBucket(): nothing happens within the tick of the last refill.
Refilled(bucket) ==
  IF now > bucket.lastRefill
  THEN [tokens |-> AtMost(Capacity, bucket.tokens + (now - bucket.lastRefill) * Refill),
        lastRefill |-> now]
  ELSE bucket

FreshBucket == [tokens |-> Capacity, lastRefill |-> now]

Forgiven(S) == [k \in Keys |-> IF k \in S THEN NoPromise ELSE promise[k]]

IsAllowed(k, cost) ==
  LET known   == Has(buckets, k)
      stored  == IF known THEN AfterGet(buckets, k) ELSE AfterSet(buckets, k, FreshBucket)
      lost    == IF known THEN DroppedByGet(buckets, k) ELSE DroppedBySet(buckets, k)
      bucket  == Refilled(ValueOf(stored, k))
      allowed == bucket.tokens >= cost
      left    == IF allowed THEN bucket.tokens - cost ELSE bucket.tokens
      retryAfter == CeilDiv(cost - bucket.tokens, Refill)
  IN  /\ buckets' = Mutate(stored, k, [bucket EXCEPT !.tokens = left])
      /\ answer' = [op |-> "isAllowed", key |-> k, cost |-> cost,
                    allowed |-> allowed, remaining |-> left]
      /\ promise' = [Forgiven(lost) EXCEPT
                       ![k] = IF allowed THEN NoPromise
                              ELSE [cost |-> cost, at |-> now + retryAfter]]
      /\ UNCHANGED <<now, running>>

\* Reading the status uses the key and refills its bucket.
GetStatus(k) ==
  LET found == AfterGet(buckets, k)
  IN  /\ buckets' = IF Has(buckets, k)
                    THEN Mutate(found, k, Refilled(ValueOf(found, k)))
                    ELSE buckets
      /\ answer' = [op |-> "getStatus", key |-> k,
                    tokens |-> IF Has(buckets, k)
                               THEN ValueOf(buckets', k).tokens ELSE Capacity]
      /\ promise' = Forgiven(DroppedByGet(buckets, k))
      /\ UNCHANGED <<now, running>>

Reset(k) ==
  /\ buckets' = AfterDelete(buckets, k)
  /\ answer' = [op |-> "reset", key |-> k]
  /\ promise' = Forgiven({k})
  /\ UNCHANGED <<now, running>>

ResetAll ==
  /\ buckets' = EmptyMap
  /\ answer' = [op |-> "resetAll"]
  /\ promise' = Forgiven(Keys)
  /\ UNCHANGED <<now, running>>

Destroy ==
  /\ running
  /\ running' = FALSE
  /\ buckets' = EmptyMap
  /\ answer' = [op |-> "resetAll"]
  /\ promise' = Forgiven(Keys)
  /\ UNCHANGED now

\* Mutant: the cleanup takes a bucket for stale too early.
StaleEarly(bucket) == now > bucket.lastRefill

Stale(bucket) == now - bucket.lastRefill > MaxAge

Cleanup ==
  /\ running
  /\ buckets' = AfterDeleteAll(buckets,
                  {k \in KeysOf(buckets) : Stale(ValueOf(buckets, k))})
  /\ UNCHANGED <<now, running, answer, promise>>

Tick ==
  /\ now < MaxTime
  /\ now' = now + 1
  /\ UNCHANGED <<buckets, running, answer, promise>>

Next ==
  \/ \E k \in Keys, cost \in Costs : IsAllowed(k, cost)
  \/ \E k \in Keys : GetStatus(k) \/ Reset(k)
  \/ ResetAll
  \/ Destroy
  \/ Cleanup
  \/ Tick

Spec == Init /\ [][Next]_vars

-----------------------------------------------------------------------------
\* Type invariant: levels stay between empty and full.
TypeOK ==
  /\ now \in 0..MaxTime
  /\ running \in BOOLEAN
  /\ KeysOf(buckets) \subseteq Keys
  /\ \A k \in KeysOf(buckets) :
       ValueOf(buckets, k) \in Bucket /\ ValueOf(buckets, k).lastRefill <= now

\* A retryAfterMs is honest: a key that was refused and waits that long is
\* allowed the same cost, whatever the cleanup timer does meanwhile; before
\* that, it is refused again, unless it was forgotten.
RetryAfterIsExact ==
  [][\A k \in Keys, cost \in Costs :
       /\ IsAllowed(k, cost)
       /\ promise[k].cost = cost
       /\ cost <= Capacity
       => (now >= promise[k].at <=> answer'.allowed)]_vars

\* The level the key would have if it were refilled now; an unknown key is full.
Level(k) ==
  IF Has(buckets, k) THEN Refilled(ValueOf(buckets, k)).tokens ELSE Capacity

\* Lazy refills, the bounded map and the cleanup are invisible: the limiter
\* answers every call as the eager bucket does, and as no call is made when
\* the timer deletes stale buckets, no level may change by it.
Eager == INSTANCE EagerBucket WITH level <- [k \in Keys |-> Level(k)]

ImplementsEagerBucket == Eager!Spec
=============================================================================
