--------------------------- MODULE SessionManager ---------------------------
(***************************************************************************)
(* SessionManager (core/src/modules/session): the engine's sessions in a   *)
(* bounded map whose eviction callback also drops the session's request    *)
(* times, which live in an unbounded map beside it.  Of a session's record *)
(* only lastActivity decides anything here: reputation, profile, verdict   *)
(* history and the address it is bound to are left out.  Time is in ticks. *)
(***************************************************************************)
EXTENDS BoundedMap, Sequences

CONSTANTS
  Ids,                 \* bound: the session ids that can be drawn
  NoSession,           \* the id in a request without a valid token
  MaxSessionAge, CleanupInterval,
  MaxTimes,            \* request times kept per session (100)
  Burst, BurstSpan,    \* the velocity check (10 requests, one second)
  LastTime             \* bound: the clock stops there

ASSUME SessionAssumption ==
  /\ NoSession \notin Ids /\ IsFiniteSet(Ids)
  /\ MaxSessionAge \in Nat \ {0} /\ CleanupInterval \in Nat \ {0}
  /\ Burst \in Nat \ {0} /\ BurstSpan \in Nat \ {0}
  /\ MaxTimes \in Nat /\ MaxTimes >= Burst
  /\ LastTime \in Nat \ {0}

VARIABLES
  time,           \* Date.now()
  sessions,       \* bounded map from ids to the time of their last activity
  requestTimes,   \* partial function from ids to the times of their requests
  totalExpired,   \* counter shown in the metrics
  cleanupDue,     \* when the cleanup timer fires next
  issued,         \* history: ids handed out so far (random UUIDs, never twice)
  recent          \* history: per id, when its newest Burst requests were made,
                  \* newest first, LongAgo when BurstSpan has passed

sessionVars == <<time, sessions, requestTimes, totalExpired, cleanupDue,
               issued, recent>>

Stopped == 0      \* cleanupDue when the interval is cleared
LongAgo == 0

SessionInit ==
  /\ time = 1
  /\ sessions = EmptyMap
  /\ requestTimes = NoEntries
  /\ totalExpired = 0
  /\ cleanupDue = 1 + CleanupInterval
  /\ issued = {}
  /\ recent = [id \in Ids |-> [n \in 1..Burst |-> LongAgo]]

\* Add the current time to a list that keeps its newest MaxTimes entries.
Newest(times) ==
  IF Len(times) < MaxTimes THEN Append(times, time) ELSE Append(Tail(times), time)

\* The history of an id that makes a request, and as time passes.
Noted(made) == [n \in 1..Burst |-> IF n = 1 THEN time ELSE made[n - 1]]
Aged(made, t) ==
  [n \in 1..Burst |-> IF t - made[n] < BurstSpan THEN made[n] ELSE LongAgo]

\* Mutant: the burst needs one request more.
SpikeLate(times) ==
  Len(times) > Burst /\ time - times[Len(times) - Burst] < BurstSpan

\* detectSessionAnomalies(), the velocity check, before a request is recorded.
VelocitySpike(times) ==
  Len(times) >= Burst /\ time - times[Len(times) - Burst + 1] < BurstSpan

\* Mutant: the request times stay behind.
TimesKept(S) == requestTimes

\* The eviction callback: the times of a dropped session go with it.
TimesWithout(S) == Without(requestTimes, S)

\* The session of a valid token is used; its insertion may evict others.
Resume(id) ==
  LET lost  == DroppedByGet(sessions, id)
      kept  == TimesWithout(lost)
      times == IF id \in DOMAIN kept THEN kept[id] ELSE <<>>
  IN  /\ Has(sessions, id)
      /\ sessions' = Mutate(AfterGet(sessions, id), id, time)
      /\ requestTimes' = Put(kept, id, Newest(times))
      /\ totalExpired' = totalExpired + Cardinality(lost)
      /\ recent' = [recent EXCEPT ![id] = Noted(@)]
      /\ UNCHANGED <<time, cleanupDue, issued>>

\* createSession() and the recording of the session's first request.
Create(id) ==
  LET lost == DroppedBySet(sessions, id)
  IN  /\ id \notin issued
      /\ issued' = issued \cup {id}
      /\ sessions' = AfterSet(sessions, id, time)
      /\ requestTimes' = Put(TimesWithout(lost), id, <<time>>)
      /\ totalExpired' = totalExpired + Cardinality(lost)
      /\ recent' = [recent EXCEPT ![id] = Noted(@)]
      /\ UNCHANGED <<time, cleanupDue>>

\* processRequest(): token is the id that the token's signature vouches for.
ProcessRequest(token) ==
  \/ Resume(token)
  \/ ~Has(sessions, token) /\ \E id \in Ids : Create(id)

\* addVerdict() reads the session, which counts as a use of it.
AddVerdict(id) ==
  LET lost == DroppedByGet(sessions, id)
  IN  /\ sessions' = AfterGet(sessions, id)
      /\ requestTimes' = TimesWithout(lost)
      /\ totalExpired' = totalExpired + Cardinality(lost)
      /\ UNCHANGED <<time, cleanupDue, issued, recent>>

Idle(id) == time - ValueOf(sessions, id)

\* Mutant: the cleanup walks one generation only.
ExpiredCurrent ==
  {id \in DOMAIN sessions.current : Idle(id) > MaxSessionAge}

Expired == {id \in KeysOf(sessions) : Idle(id) > MaxSessionAge}

CleanupSessions ==
  /\ cleanupDue # Stopped
  /\ time >= cleanupDue
  /\ sessions' = AfterDeleteAll(sessions, Expired)
  /\ requestTimes' = TimesWithout(Expired)
  /\ totalExpired' = totalExpired + Cardinality(Expired)
  /\ cleanupDue' = time + CleanupInterval
  /\ UNCHANGED <<time, issued, recent>>

\* destroy(): a request still being analysed may use the manager afterwards.
DestroySessions ==
  /\ cleanupDue # Stopped
  /\ cleanupDue' = Stopped
  /\ sessions' = EmptyMap
  /\ requestTimes' = NoEntries
  /\ UNCHANGED <<time, totalExpired, issued, recent>>

\* Time passes; a due timer is served before the next tick.
SessionTick ==
  /\ time < LastTime
  /\ cleanupDue = Stopped \/ time < cleanupDue
  /\ time' = time + 1
  /\ recent' = [id \in Ids |-> Aged(recent[id], time + 1)]
  /\ UNCHANGED <<sessions, requestTimes, totalExpired, cleanupDue,
                 issued>>

SessionNext ==
  \/ \E token \in issued \cup {NoSession} : ProcessRequest(token)
  \/ \E id \in issued : AddVerdict(id)
  \/ CleanupSessions
  \/ DestroySessions
  \/ SessionTick

SessionSpec == SessionInit /\ [][SessionNext]_sessionVars

-----------------------------------------------------------------------------
\* Type invariant.
SessionTypeOK ==
  /\ time \in 1..LastTime
  /\ cleanupDue \in Nat
  /\ issued \subseteq Ids
  /\ KeysOf(sessions) \subseteq issued /\ SizeOf(sessions) <= MaxSize
  /\ \A id \in KeysOf(sessions) : ValueOf(sessions, id) \in 1..time
  /\ totalExpired \in Nat

\* The unbounded map beside the bounded one does not leak: there are request
\* times for exactly the sessions the manager holds, whether a session left by
\* eviction, by the cleanup or by destroy().
TimesMatchSessions == DOMAIN requestTimes = KeysOf(sessions)

\* The velocity signal of a session's next request is given exactly when Burst
\* requests of the session were made less than BurstSpan ago, although only
\* MaxTimes times are kept and sessions are promoted and evicted around it.
SpikeIffBurst ==
  \A id \in KeysOf(sessions) :
    VelocitySpike(requestTimes[id]) <=>
      \A n \in 1..Burst : recent[id][n] # LongAgo

\* Every session held, and no other one, has the request times it needs for the
\* velocity signal to be exact.
RequestTimesExact == TimesMatchSessions /\ SpikeIffBurst

\* While the timer runs, a session is never resumed after it was idle for more
\* than MaxSessionAge plus one cleanup interval.
StaleNotResumed ==
  [][\A id \in issued :
       Resume(id) /\ cleanupDue # Stopped =>
         Idle(id) <= MaxSessionAge + CleanupInterval]_sessionVars
=============================================================================
