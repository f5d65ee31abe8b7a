---------------------------- MODULE PythonSessions ----------------------------
(***************************************************************************)
(* The Python server's SessionTracker in memory                            *)
(* (server-python/aegis_shield/sessions.py).  Threads serve requests of    *)
(* several browsers; each operation reads the clock before it gets the     *)
(* lock, and a request keeps the Session object it was given while other   *)
(* threads evict or replace it.  A session is the place of its object on   *)
(* the heap, which stands for its random id.                               *)
(***************************************************************************)
EXTENDS Integers, Sequences, FiniteSets, FiniteSetsExt, PartialFunctions

CONSTANTS
  MaxRequests,    \* bound: the requests that are sent
  Browsers,
  MaxAge,         \* max_age
  MaxSessions,    \* max_sessions
  MaxDrops,       \* expired sessions dropped when one is made (8)
  MaxListed,      \* how many request times a session keeps (500)
  Workers,        \* how many threads serve requests
  MaxWait,        \* assumed: the longest wait for the lock
  MaxTime         \* bound: the clock stops there

TrackerAssumption ==
  /\ {MaxSessions, MaxDrops, MaxListed, Workers} \subseteq Nat \ {0}
  /\ {MaxRequests, MaxAge, MaxWait, MaxTime} \subseteq Nat

VARIABLES
  now,
  sessions,       \* the Session objects: last_seen, and the requests listed
  order,          \* _sessions, least recently used first
  serving,        \* the requests, in the order of their arrival
  cookies,        \* per browser, its aegis_sid cookie, or 0
  recorded,       \* history: per session, all its requests, the first first
  newer,          \* history: per session, those obtained since it was
  seen,           \* history: per session, the time of its latest request
  wronged         \* history: sessions dropped although neither idle nor crowded out

trackerVars == <<now, sessions, order, serving, cookies, recorded, newer, seen, wronged>>

TrackerInit ==
  /\ now = 1
  /\ sessions = <<>> /\ order = <<>>
  /\ recorded = <<>> /\ newer = <<>> /\ seen = <<>>
  /\ serving = <<>>
  /\ cookies = [b \in Browsers |-> 0]
  /\ wronged = {}

Tracked(s) == \E i \in DOMAIN order : order[i] = s
Held(s, list) == \E i \in DOMAIN list : list[i] = s
Removed(s, list) ==
  IF Held(s, list)
  THEN LET i == CHOOSE j \in DOMAIN list : list[j] = s
       IN  SubSeq(list, 1, i - 1) \o SubSeq(list, i + 1, Len(list))
  ELSE list

-----------------------------------------------------------------------------
\* move_to_end().
MovedToEnd(list, s) == Append(Removed(s, list), s)

\* Mutant: the sweep does not look at the age.
SweptAnyway(list, stamp) ==
  SubSeq(list, Max({Min({MaxDrops, Len(list)}), Len(list) - MaxSessions + 1}) + 1,
         Len(list))

\* _evict(): a few expired sessions leave the front, then the least recently
\* used beyond the cap.
Evicted(list, stamp) ==
  LET drops == Max({n \in 0..Min({MaxDrops, Len(list)}) :
                      \A i \in 1..n : stamp - sessions[list[i]].lastSeen > MaxAge})
      excess == Max({0, Len(list) - drops - MaxSessions + 1})
  IN  SubSeq(list, drops + excess + 1, Len(list))

\* A session may go when it has been idle (by a clock that was read up to
\* MaxWait before) or when MaxSessions others were obtained after it.
Idle(s, stamp) == stamp - seen[s] > MaxAge - MaxWait
Crowded(s, others) == Cardinality(others[s]) >= MaxSessions

Dropped(kept, others, stamp) ==
  wronged' = wronged \cup
    {s \in {order[i] : i \in DOMAIN order} :
       ~Held(s, kept) /\ ~Idle(s, stamp) /\ ~Crowded(s, others)}

\* A request arrives with its browser's cookie, and the clock is read.
Begin(b) ==
  /\ Len(serving) < MaxRequests
  /\ Cardinality({r \in DOMAIN serving : serving[r].pc # "done"}) < Workers
  /\ serving' = Append(serving,
       [pc |-> "asking", browser |-> b, sid |-> cookies[b], stamp |-> now, isNew |-> FALSE])
  /\ UNCHANGED <<now, sessions, order, cookies, recorded, newer, seen, wronged>>

Obtained(r, s, isNew) ==
  serving' = [serving EXCEPT ![r].pc = "given", ![r].sid = s, ![r].stamp = 0,
                             ![r].isNew = isNew]

\* get_or_create(): a session that is tracked and has not expired ...
Resumable(r) ==
  LET s == serving[r].sid
  IN  s # 0 /\ Tracked(s) /\ serving[r].stamp - sessions[s].lastSeen <= MaxAge

Resume(r) ==
  LET s == serving[r].sid
  IN  /\ serving[r].pc = "asking" /\ Resumable(r)
      /\ order' = MovedToEnd(order, s)
      /\ newer' = [x \in DOMAIN sessions |-> IF x = s THEN {} ELSE newer[x] \cup {s}]
      /\ Obtained(r, s, FALSE)
      /\ UNCHANGED <<now, sessions, cookies, recorded, seen, wronged>>

\* ... or a new one; an expired one is deleted.
Create(r) ==
  LET stamp == serving[r].stamp
      fresh == Len(sessions) + 1
      kept == Evicted(Removed(serving[r].sid, order), stamp)
  IN  /\ serving[r].pc = "asking" /\ ~Resumable(r)
      /\ sessions' = Append(sessions, [lastSeen |-> stamp, times |-> <<>>])
      /\ order' = Append(kept, fresh)
      /\ recorded' = Append(recorded, <<>>)
      /\ newer' = Append([x \in DOMAIN sessions |-> newer[x] \cup {fresh}], {})
      /\ seen' = Append(seen, stamp)
      /\ Dropped(kept, newer', stamp)
      /\ Obtained(r, fresh, TRUE)
      /\ UNCHANGED <<now, cookies>>

\* record_request(): the clock, then the lock.
Clock(r) ==
  /\ serving[r].pc = "given"
  /\ serving' = [serving EXCEPT ![r].pc = "recording", ![r].stamp = now]
  /\ UNCHANGED <<now, sessions, order, cookies, recorded, newer, seen, wronged>>

\* (With the answer, which sets the browser's cookie if the session is new.)
RecordRequest(r) ==
  LET s == serving[r].sid
      stamp == serving[r].stamp
  IN  /\ serving[r].pc = "recording"
      /\ sessions' = [sessions EXCEPT ![s] =
                        [lastSeen |-> stamp,
                         times |-> NewestOnly(Append(@.times, r), MaxListed)]]
      /\ recorded' = [recorded EXCEPT ![s] = Append(@, r)]
      /\ seen' = [seen EXCEPT ![s] = Max({@, stamp})]
      /\ serving' = [serving EXCEPT ![r].pc = "done", ![r].stamp = 0]
      /\ cookies' = IF serving[r].isNew THEN [cookies EXCEPT ![serving[r].browser] = s]
                    ELSE cookies
      /\ UNCHANGED <<now, order, newer, wronged>>

TrackerTick ==
  /\ now < MaxTime
  /\ \A r \in DOMAIN serving :
       serving[r].pc \in {"asking", "recording"} => now < serving[r].stamp + MaxWait
  /\ now' = now + 1
  /\ UNCHANGED <<sessions, order, serving, cookies, recorded, newer, seen, wronged>>

TrackerNext ==
  \/ \E b \in Browsers : Begin(b)
  \/ \E r \in DOMAIN serving :
       \/ Resume(r) \/ Create(r) \/ Clock(r) \/ RecordRequest(r)
  \/ TrackerTick

TrackerSpec == TrackerInit /\ [][TrackerNext]_trackerVars

-----------------------------------------------------------------------------
\* Type invariant: a session is listed once, and never more than MaxSessions.
TrackerTypeOK ==
  /\ now \in 1..MaxTime
  /\ Len(order) <= MaxSessions
  /\ \A i, j \in DOMAIN order : order[i] = order[j] => i = j
  /\ \A i \in DOMAIN order : order[i] \in DOMAIN sessions
  /\ DOMAIN recorded = DOMAIN sessions
  /\ DOMAIN newer = DOMAIN sessions /\ DOMAIN seen = DOMAIN sessions

\* "Kept for max_age seconds of inactivity" (sessions.py:5-6) up to the cap:
\* however threads interleave and in whatever order their times are written,
\* a session is dropped only when no request was recorded in it for max_age
\* (less the wait for a lock), or when max_sessions others were used since.
\* A request that was answered is recorded in the session it was given, though
\* that one may have left the table meanwhile, and in no other; the session
\* lists the MaxListed last of those recorded in it.
SessionsKept ==
  /\ wronged = {}
  /\ \A s \in DOMAIN sessions : sessions[s].times = NewestOnly(recorded[s], MaxListed)
  /\ \A r \in DOMAIN serving, s \in DOMAIN sessions :
       Held(r, recorded[s])
         <=> s = serving[r].sid /\ serving[r].pc = "done"
=============================================================================
