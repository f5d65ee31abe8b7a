----------------------------- MODULE SharedLimits -----------------------------
(***************************************************************************)
(* AegisNode's rate limits with a shared store: checkSharedLimits() hits   *)
(* one window per limit, all at once, for requests of one address that     *)
(* overlap at several instances, while hits fail.                          *)
(***************************************************************************)
EXTENDS Store, FiniteSets

CONSTANTS
  Requests,                \* bound: the requests, each sent once
  Limits,                  \* names in sharedLimits; "window" is the one for
                           \* all paths, the others are for one path each
  MaxHits,                 \* MAX_HITS_PER_KEY (10,000)
  Most, Span,              \* of each limit
  LimitTime,               \* bound: the clock stops there
  MaxFailures              \* bound: hits that fail

LimitsAssumption ==
  /\ "window" \in Limits /\ "none" \notin Limits /\ MaxHits \in Nat
  /\ \A l \in Limits : Most[l] \in 1..(MaxHits - 1) /\ Span[l] \in Nat \ {0}

VARIABLES
  time,         \* the store's clock
  windows,      \* the store's windows of this address
  checks,       \* the requests
  failures

limitVars == <<time, windows, checks, failures>>

NewCheck == [path |-> "none", asked |-> {}, exceeded |-> {}, failed |-> FALSE,
             at |-> [l \in Limits |-> 0]]

LimitsInit ==
  /\ time = 1 /\ windows = NoEntries /\ failures = 0
  /\ checks = [r \in Requests |-> NewCheck]

\* The limits a request of this path is checked against.
Applying(path) == {"window"} \cup ({path} \cap Limits)
Started(r) == checks[r].path # "none"

\* The request arrives; its hits are under way.
Ask(r, path) ==
  /\ ~Started(r)
  /\ checks' = [checks EXCEPT ![r].path = path, ![r].asked = Applying(path)]
  /\ UNCHANGED <<time, windows, failures>>

\* Mutant: the request itself is not expected to be counted.
ExceedsLate(count, l) == count > Most[l] + 1

\* The comparison with the limit, after the hit was counted.
Exceeds(count, l) == count > Most[l]

\* The store counts a hit.
Hit(r, l) ==
  /\ l \in checks[r].asked
  /\ windows' = AfterHit(windows, l, time, Span[l], MaxHits)
  /\ checks' = [checks EXCEPT
       ![r].asked = @ \ {l}, ![r].at[l] = time,
       ![r].exceeded = IF Exceeds(Len(windows'[l]), l) THEN @ \cup {l} ELSE @]
  /\ UNCHANGED <<time, failures>>

\* A hit fails before the store counts it: Promise.all rejects, the other hits
\* go on.
HitFails(r, l) ==
  /\ l \in checks[r].asked /\ failures < MaxFailures
  /\ failures' = failures + 1
  /\ checks' = [checks EXCEPT ![r].asked = @ \ {l}, ![r].failed = TRUE]
  /\ UNCHANGED <<time, windows>>

\* The store counts a hit, but its answer is lost.
HitLost(r, l) ==
  /\ l \in checks[r].asked /\ failures < MaxFailures
  /\ failures' = failures + 1
  /\ windows' = AfterHit(windows, l, time, Span[l], MaxHits)
  /\ checks' = [checks EXCEPT ![r].asked = @ \ {l}, ![r].at[l] = time,
                              ![r].failed = TRUE]
  /\ UNCHANGED time

LimitsTick ==
  /\ time < LimitTime /\ time' = time + 1
  /\ UNCHANGED <<windows, checks, failures>>

LimitsNext ==
  \/ \E r \in Requests : \E path \in Limits : Ask(r, path)
  \/ \E r \in Requests, l \in Limits : 
       Hit(r, l) \/ HitFails(r, l) \/ HitLost(r, l)
  \/ LimitsTick

LimitsSpec == LimitsInit /\ [][LimitsNext]_limitVars

-----------------------------------------------------------------------------
\* checkSharedLimits() returned null, or "rate_limit.exceeded".
Checked(r) == Started(r) /\ checks[r].asked = {}
Limited(r) == Checked(r) /\ ~checks[r].failed /\ checks[r].exceeded # {}
Unlimited(r) == Checked(r) /\ ~checks[r].failed /\ checks[r].exceeded = {}

\* Requests of limit l that the store counted in the span that ends at t.
Counted(l, t) ==
  {r \in Requests : checks[r].at[l] > 0 /\ checks[r].at[l] \in (t - Span[l] + 1)..t}

LimitsTypeOK ==
  /\ time \in 1..LimitTime /\ failures \in 0..MaxFailures
  /\ DOMAIN windows \subseteq Limits
  /\ \A r \in Requests : checks[r].asked \cap checks[r].exceeded = {}

\* Across instances, in every window of every limit, at most max requests are
\* let through, whatever the order of their hits; only a failing hit lets a
\* request through unchecked (and only that request, whether the store counted
\* it or not).  A request is limited only if its window did hold more than max
\* hits.
SharedLimitsHold ==
  /\ \A l \in Limits, t \in 1..LimitTime :
       Cardinality({r \in Counted(l, t) : Unlimited(r)}) <= Most[l]
  /\ \A r \in Requests : Limited(r) =>
       \E l \in checks[r].exceeded :
         Cardinality(Counted(l, checks[r].at[l])) > Most[l]

=============================================================================
