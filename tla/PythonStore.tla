----------------------------- MODULE PythonStore -----------------------------
(***************************************************************************)
(* The Python server's MemoryStore (server-python/aegis_shield/store.py).  *)
(* Threads read the clock before they get the lock, so an operation can be *)
(* executed after another one with a later time; each of the three tables  *)
(* is kept least recently used first and holds MaxKeys keys.  The tables   *)
(* share nothing, so a behaviour uses one of them, `kind'.                 *)
(***************************************************************************)
EXTENDS Integers, Sequences, FiniteSets, FiniteSetsExt

CONSTANTS
  Keys, Threads,
  Values, Nothing,
  Ttl,           \* of claims and values
  Span,          \* window_seconds
  MaxHits,       \* MAX_HITS_PER_KEY
  MaxKeys,       \* max_keys
  MaxDrops,      \* expired entries dropped at an insertion (8)
  StaleAfter,    \* the hour after which a window is dropped
  MaxWait,       \* assumed: the longest wait for the lock
  MaxTime, MaxMade   \* bounds: the clock, the operations

\* A window that is dropped as stale must not be needed any more, even by a
\* thread that has waited for the lock.
PythonStoreAssumption ==
  /\ {Ttl, Span, MaxHits, MaxKeys, MaxDrops} \subseteq Nat \ {0}
  /\ {StaleAfter, MaxWait, MaxTime, MaxMade} \subseteq Nat
  /\ Span + MaxWait <= StaleAfter
  /\ Nothing \notin Values

VARIABLES
  now,
  kind,     \* "once", "windows" or "values"
  table,    \* that table, its entries from the front to the back
  calls,    \* what each thread does
  answer,   \* the answer to the last operation, and those the interface allows
  log,      \* history: per key, the claims won, hits or values set
  since,    \* history: per key, the others written since it was written
  made

pythonVars == <<now, kind, table, calls, answer, log, since, made>>

Idle == [key |-> Nothing, stamp |-> 0, value |-> Nothing]

PythonInit ==
  /\ now = 1 /\ kind \in {"once", "windows", "values"}
  /\ table = <<>> /\ made = 0
  /\ calls = [t \in Threads |-> Idle]
  /\ answer = [got |-> Nothing, allowed |-> {Nothing}]
  /\ log = [k \in Keys |-> <<>>] /\ since = [k \in Keys |-> {}]

-----------------------------------------------------------------------------
(* The table *)

Stored(k) == \E i \in DOMAIN table : table[i].key = k
At(k) == table[CHOOSE i \in DOMAIN table : table[i].key = k]
Popped(k) ==
  IF Stored(k)
  THEN LET i == CHOOSE j \in DOMAIN table : table[j].key = k
       IN  SubSeq(table, 1, i - 1) \o SubSeq(table, i + 1, Len(table))
  ELSE table

\* What _make_room() is told to take for expired.
Expired(e, stamp) ==
  IF kind = "windows" THEN e.hits[Len(e.hits)] <= stamp - StaleAfter
  ELSE e.until <= stamp

\* Mutant: the entry to make room is taken from the back.
RoomAtBack(entries, stamp) == SubSeq(entries, 1, Min({Len(entries), MaxKeys - 1}))

\* A few expired entries leave the front, then the oldest beyond the cap.
MakeRoom(entries, stamp) ==
  LET drops == Max({n \in 0..Min({MaxDrops, Len(entries)}) :
                      \A i \in 1..n : Expired(entries[i], stamp)})
      excess == Max({0, Len(entries) - drops - MaxKeys + 1})
  IN  SubSeq(entries, drops + excess + 1, Len(entries))

Insert(k, stamp, e) == table' = Append(MakeRoom(Popped(k), stamp), e)

-----------------------------------------------------------------------------
(* The operations: time.time() first, then the lock *)

Call(t, k, value) ==
  /\ calls[t] = Idle /\ made < MaxMade
  /\ value \in IF kind = "values" THEN Values ELSE {Nothing}
  /\ calls' = [calls EXCEPT ![t] = [key |-> k, stamp |-> now, value |-> value]]
  /\ made' = made + 1
  /\ UNCHANGED <<now, kind, table, answer, log, since>>

\* A key after which MaxKeys others were written may be gone; if it is, nothing
\* is owed to it any more.
Crowded(k) == Cardinality(since[k]) >= MaxKeys
Owed(k) == IF Crowded(k) /\ ~Stored(k) THEN <<>> ELSE log[k]

Executed(t, got, allowed, logged) ==
  LET k == calls[t].key
  IN  /\ answer' = [got |-> got, allowed |-> allowed]
      /\ log' = [log EXCEPT ![k] = Owed(k) \o logged]
      /\ since' = [x \in Keys |-> IF x = k THEN {} ELSE since[x] \cup {k}]
      /\ calls' = [calls EXCEPT ![t] = Idle]
      /\ UNCHANGED <<now, kind, made>>

\* claim_once(): "true the first time within ttl_seconds, false on every
\* repeat" - by the time of the call or that of its execution.
WonUntil(k, time) == \E i \in DOMAIN Owed(k) : log[k][i] + Ttl > time

ClaimOnce(t) ==
  LET k == calls[t].key
      stamp == calls[t].stamp
      repeat == Stored(k) /\ At(k).until > stamp
  IN  /\ kind = "once" /\ calls[t] # Idle
      /\ IF repeat THEN table' = Append(Popped(k), At(k))
         ELSE Insert(k, stamp, [key |-> k, until |-> stamp + Ttl])
      /\ Executed(t, ~repeat,
                  {claimed \in BOOLEAN :
                     IF claimed THEN ~WonUntil(k, now)
                     ELSE WonUntil(k, stamp)},
                  IF repeat THEN <<>> ELSE <<stamp>>)

\* hit(): "the hits in the last window_seconds, this one included", saturating.
\* Beyond MaxHits the first to have got the lock leaves, which may be up to
\* MaxWait younger than those that stay: the window may count that much less
\* at its old end.
HitsSince(k, time) == Cardinality({i \in DOMAIN Owed(k) : log[k][i] > time})
Saturated(n) == Min({n, MaxHits})

\* The hits that are left of a window, as a function over the positions.
Later(hits, time) ==
  LET kept[i \in 0..Len(hits)] ==
        IF i = 0 THEN <<>>
        ELSE IF hits[i] > time THEN Append(kept[i - 1], hits[i])
        ELSE kept[i - 1]
  IN  kept[Len(hits)]

Hit(t) ==
  LET k == calls[t].key
      stamp == calls[t].stamp
      before == IF Stored(k) THEN At(k).hits ELSE <<>>
      hits == Append(Later(before, stamp - Span), stamp)
      kept == SubSeq(hits, Max({0, Len(hits) - MaxHits}) + 1, Len(hits))
  IN  /\ kind = "windows" /\ calls[t] # Idle
      /\ Insert(k, stamp, [key |-> k, hits |-> kept])
      /\ Executed(t, Len(kept),
                  Saturated(HitsSince(k, now - Span + MaxWait) + 1)
                    ..Saturated(HitsSince(k, stamp - Span) + 1),
                  <<stamp>>)

SetValue(t) ==
  LET k == calls[t].key
      stamp == calls[t].stamp
      until == stamp + Ttl
  IN  /\ kind = "values" /\ calls[t] # Idle
      /\ Insert(k, stamp, [key |-> k, until |-> until, value |-> calls[t].value])
      /\ Executed(t, Nothing, {Nothing},
                  <<[value |-> calls[t].value, until |-> until]>>)

\* get() reads the clock under the lock, and deletes what has expired.
GetValue(k) ==
  LET live == Stored(k) /\ At(k).until > now
      last == IF Owed(k) = <<>> THEN [value |-> Nothing, until |-> 0]
              ELSE log[k][Len(log[k])]
  IN  /\ kind = "values" /\ made < MaxMade
      /\ made' = made + 1
      /\ table' = IF live THEN table ELSE Popped(k)
      /\ answer' = [got |-> IF live THEN At(k).value ELSE Nothing,
                    allowed |-> {IF last.until > now THEN last.value ELSE Nothing}]
      /\ UNCHANGED <<now, kind, calls, log, since>>

\* A thread gets the lock within MaxWait.
PythonTick ==
  /\ now < MaxTime
  /\ \A t \in Threads : calls[t] = Idle \/ now < calls[t].stamp + MaxWait
  /\ now' = now + 1
  /\ UNCHANGED <<kind, table, calls, answer, log, since, made>>

PythonNext ==
  \/ \E t \in Threads :
       \/ \E k \in Keys, value \in Values \cup {Nothing} : Call(t, k, value)
       \/ ClaimOnce(t) \/ Hit(t) \/ SetValue(t)
  \/ \E k \in Keys : GetValue(k)
  \/ PythonTick

PythonSpec == PythonInit /\ [][PythonNext]_pythonVars

-----------------------------------------------------------------------------
\* Type invariant: a key is stored once, and the table is never too large.
PythonTypeOK ==
  /\ now \in 1..MaxTime /\ made \in 0..MaxMade
  /\ Len(table) <= MaxKeys
  /\ \A i, j \in DOMAIN table : table[i].key = table[j].key => i = j
  /\ \A t \in Threads : calls[t] = Idle \/ calls[t].stamp \in (now - MaxWait)..now

\* Whatever the order in which threads get the lock, an answer is one that the
\* interface allows for a moment between the call and its execution, but that a
\* window of hits may be MaxWait shorter; only a key after which MaxKeys others
\* were written may have been forgotten.
PromiseKept == answer.got \in answer.allowed
=============================================================================
