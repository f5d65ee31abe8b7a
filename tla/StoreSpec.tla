----------------------------- MODULE StoreSpec -----------------------------
(***************************************************************************)
(* The two implementations of AegisStore side by side.  Every operation is *)
(* given to a MemoryStore and to a RedisStore, and their answers are       *)
(* compared with what the interface promises, computed from the complete   *)
(* log of the operations.  The clock never goes back.                      *)
(***************************************************************************)
EXTENDS Store, FiniteSets

CONSTANTS
  Names, Contents, Nothing,   \* keys and values; null
  Ttl,          \* of claims and values
  Span,         \* the window of the rate limits (windowMs)
  MaxHits,      \* MAX_HITS_PER_KEY
  StaleAfter,   \* the hour after which MemoryStore forgets a window
  MaxTime, MaxOps   \* bounds: the clock, and the operations per key in a tick

\* The last conjunct is what MemoryStore.cleanup() assumes silently: it takes a
\* window for dead an hour after its last hit (Store.ts:82-83), so no limit may
\* count over more than an hour.
ASSUME StoreAssumption ==
  /\ Nothing \notin Contents
  /\ Ttl \in Nat \ {0} /\ Span \in Nat \ {0} /\ MaxHits \in Nat \ {0}
  /\ StaleAfter \in Nat \ {0} /\ MaxTime \in Nat /\ MaxOps \in Nat
  /\ Span <= StaleAfter

VARIABLES
  now,
  memory, redis,   \* the state of the two stores
  replies,         \* the answers to the last operation, and the promised one
  log              \* history: per key, claims won, hits and values set

storeVars == <<now, memory, redis, replies, log>>

EmptyStore == [once |-> NoEntries, windows |-> NoEntries, values |-> NoEntries]

StoresInit ==
  /\ now = 1
  /\ memory = EmptyStore
  /\ redis = [once |-> NoEntries, windows |-> NoEntries, values |-> NoEntries,
              windowExpires |-> NoEntries]
  /\ replies = [memory |-> Nothing, redis |-> Nothing, promised |-> Nothing]
  /\ log = [k \in Names |-> [won |-> {}, hits |-> <<>>,
                            value |-> Nothing, until |-> 0]]

Answer(m, r, p) == replies' = [memory |-> m, redis |-> r, promised |-> p]

\* "true the first time within ttlMs and false for every repeat".
PromisedClaim(k) == \A t \in log[k].won : t + Ttl <= now

ClaimOnce(k) ==
  /\ Answer(~Claimed(memory.once, k, now), ~Claimed(redis.once, k, now),
            PromisedClaim(k))
  /\ memory' = [memory EXCEPT !.once = AfterClaim(@, k, now, Ttl)]
  /\ redis' = [redis EXCEPT !.once = AfterClaim(@, k, now, Ttl)]
  /\ log' = IF PromisedClaim(k)
            THEN [log EXCEPT ![k].won = @ \cup {now}] ELSE log
  /\ UNCHANGED now

\* "the number of hits in the last windowMs, this one included", saturating
\* at MAX_HITS_PER_KEY.
PromisedCount(k) ==
  LET hits == log[k].hits
      n == Cardinality({i \in DOMAIN hits : hits[i] > now - Span}) + 1
  IN  IF n < MaxHits THEN n ELSE MaxHits

\* The Redis key of a window expires with the window of its last hit.
RedisWindows ==
  Without(redis.windows,
          {k \in DOMAIN redis.windows : redis.windowExpires[k] <= now})

Hit(k) ==
  LET m == AfterHit(memory.windows, k, now, Span, MaxHits)
      r == AfterHit(RedisWindows, k, now, Span, MaxHits)
  IN  /\ Cardinality({i \in DOMAIN log[k].hits : log[k].hits[i] = now}) < MaxOps
      /\ Answer(Len(m[k]), Len(r[k]), PromisedCount(k))
      /\ memory' = [memory EXCEPT !.windows = m]
      /\ redis' = [redis EXCEPT !.windows = r,
                                !.windowExpires = Put(@, k, now + Span)]
      /\ log' = [log EXCEPT ![k].hits = Append(@, now)]
      /\ UNCHANGED now

SetValue(k, v) ==
  /\ Answer(Nothing, Nothing, Nothing)
  /\ memory' = [memory EXCEPT !.values = AfterSetValue(@, k, v, now, Ttl)]
  /\ redis' = [redis EXCEPT !.values = AfterSetValue(@, k, v, now, Ttl)]
  /\ log' = [log EXCEPT ![k].value = v, ![k].until = now + Ttl]
  /\ UNCHANGED now

\* MemoryStore.get() deletes an expired entry it comes across.
GetValue(k) ==
  /\ Answer(ValueAt(memory.values, k, now, Nothing),
            ValueAt(redis.values, k, now, Nothing),
            IF log[k].until > now THEN log[k].value ELSE Nothing)
  /\ memory' = [memory EXCEPT !.values =
                  IF Live(@, k, now) THEN @ ELSE Without(@, {k})]
  /\ UNCHANGED <<now, redis, log>>

\* MemoryStore.cleanup() runs on a timer; nothing depends on when.
Outdated(times) == {k \in DOMAIN times : times[k] <= now}
DeadValues == {k \in DOMAIN memory.values : ~Live(memory.values, k, now)}
StaleWindows ==
  {k \in DOMAIN memory.windows :
     LET hits == memory.windows[k]
     IN  hits[Len(hits)] < now - StaleAfter}

Cleanup ==
  /\ memory' = [once    |-> Without(memory.once, Outdated(memory.once)),
                windows |-> Without(memory.windows, StaleWindows),
                values  |-> Without(memory.values, DeadValues)]
  /\ UNCHANGED <<now, redis, replies, log>>

StoresTick ==
  /\ now < MaxTime
  /\ now' = now + 1
  /\ UNCHANGED <<memory, redis, replies, log>>

StoresNext ==
  \/ \E k \in Names : ClaimOnce(k) \/ Hit(k) \/ GetValue(k)
  \/ \E k \in Names, v \in Contents : SetValue(k, v)
  \/ Cleanup
  \/ StoresTick

StoresSpec == StoresInit /\ [][StoresNext]_storeVars

-----------------------------------------------------------------------------
\* Type invariant.
StoresTypeOK ==
  /\ now \in 1..MaxTime
  /\ \A s \in {memory, redis} :
       DOMAIN s.once \cup DOMAIN s.windows \cup DOMAIN s.values \subseteq Names
  /\ \A k \in DOMAIN memory.windows : Len(memory.windows[k]) \in 1..MaxHits
  /\ \A k \in DOMAIN redis.windows : Len(redis.windows[k]) \in 1..MaxHits

\* Both stores give the promised replies to every operation, whenever the
\* cleanup ran, whatever was trimmed and however often the cap was hit.
PromiseKept ==
  replies.memory = replies.promised /\ replies.redis = replies.promised
=============================================================================
