------------------------------- MODULE Store -------------------------------
(***************************************************************************)
(* The data of an AegisStore (core/src/store/Store.ts) and what its        *)
(* operations do at time t: one-time claims as a partial function from     *)
(* keys to expiry times, rate-limit windows from keys to the times of      *)
(* their hits, oldest first, values with an expiry time.  MemoryStore does *)
(* this with Date.now(), RedisStore with the Redis server's clock.         *)
(***************************************************************************)
EXTENDS Integers, Sequences, PartialFunctions

\* Mutant: a claim is still held at the moment it expires.
ClaimedLate(once, k, t) == k \in DOMAIN once /\ once[k] >= t

\* claimOnce(): a claim lasts until its time to live has passed.
Claimed(once, k, t) == k \in DOMAIN once /\ once[k] > t
\* Mutant: the claim expires at once.
ClaimNow(once, k, t, ttl) == Put(once, k, t)

AfterClaim(once, k, t, ttl) ==
  IF Claimed(once, k, t) THEN once ELSE Put(once, k, t + ttl)

HitsOf(windows, k) == IF k \in DOMAIN windows THEN windows[k] ELSE <<>>

\* hit(): the while loop drops the oldest hits up to the first one in the
\* window, the hit is added, and the oldest are dropped beyond cap.
InWindow(hits, t, span) ==
  LET live == {i \in DOMAIN hits : hits[i] > t - span}
  IN  IF live = {} THEN <<>>
      ELSE SubSeq(hits, CHOOSE i \in live : \A j \in live : i <= j, Len(hits))
AfterHit(windows, k, t, span, cap) ==
  Put(windows, k,
      NewestOnly(Append(InWindow(HitsOf(windows, k), t, span), t), cap))

\* get() and set() of values; an expired value is as good as none.
Live(values, k, t) == k \in DOMAIN values /\ values[k].expires > t
ValueAt(values, k, t, none) == IF Live(values, k, t) THEN values[k].value ELSE none
AfterSetValue(values, k, v, t, ttl) ==
  Put(values, k, [value |-> v, expires |-> t + ttl])
=============================================================================
