------------------------------- MODULE MCServer -------------------------------
(***************************************************************************)
(* What overlapping requests do to the state of a server, in one run; the  *)
(* initial state picks a part, the others stay idle.  Three requests each. *)
(*                                                                         *)
(* Sessions: one browser and two instances that share a store, enough for  *)
(* telemetry saved while a page request holds a copy of the record and for *)
(* a token that is used after it.  There are as many session ids as        *)
(* requests, so the engines never run out of them.  A record keeps two     *)
(* times and one score, so that save() drops some; and so it is below.     *)
(* Flow: three adapters, one session whose history keeps two requests.     *)
(* Records: two sessions kept in memory, one of which is lost.             *)
(* Limits: a window for all paths and one for a path, with the caps of two *)
(* and one hits that three requests exceed, and spans that differ.         *)
(* Store: the Python store in memory, two threads and one key too many; an *)
(* entry expires, a window saturates and a stale one is dropped.           *)
(* Tracker: four requests of two browsers in two threads, room for two     *)
(* sessions that last two ticks, time for one to expire and for another to *)
(* be resumed in its last tick.                                            *)
(* Edge: one request through the worker and to the origin, whose clock is  *)
(* half a second behind; its token may run out in between.                 *)
(* Isolate: the worker's own limit, two calls and one address too many.    *)
(* Visits: three requests to a Python server with a shared store, as many  *)
(* as it takes to earn both kinds of token and to use one; one of them     *)
(* overlaps with the others, or something fails.                           *)
(***************************************************************************)
EXTENDS NodeSessions, RequestFlow, LocalRecords, EdgeWorker, PythonRequests, TLC

CONSTANTS
  Limits, LimitMost, LimitSpan, MaxHits, LimitTime, MaxFailures,
  Contents, StoreTtl, StoreSpan, StoreKeys, StaleAfter, StoreTime, StoreCalls,
  MaxAge, MaxSessions, Workers, TrackerTime, TrackerRequests,
  MaxDrops, MaxWait

\* For LimitMost and LimitSpan.
FewHits == [l \in Limits |-> IF l = "window" THEN 2 ELSE 1]
ShortSpans == [l \in Limits |-> IF l = "window" THEN 2 ELSE 3]

VARIABLES
  part,
  time, windows, checks, failures,
  storeNow, kind, table, calls, answer, storeLog, since, storeMade,
  trackerNow, sessions, order, threads, cookies, recorded, newer, seen, wronged

limitVars == <<time, windows, checks, failures>>

storeVars == <<storeNow, kind, table, calls, answer, storeLog, since, storeMade>>
trackerVars ==
  <<trackerNow, sessions, order, threads, cookies, recorded, newer, seen, wronged>>
nodeVars == <<vars, flowVars, localVars, limitVars>>
pythonVars == <<storeVars, trackerVars, visitVars>>
otherVars == <<pythonVars, edgeVars, isolateVars>>

Shared == INSTANCE SharedLimits WITH Most <- LimitMost, Span <- LimitSpan
PyStore == INSTANCE PythonStore WITH
  Keys <- Sids, Threads <- Instances, Values <- Contents, Nothing <- None,
  Ttl <- StoreTtl, Span <- StoreSpan, MaxKeys <- StoreKeys,
  MaxTime <- StoreTime, MaxMade <- StoreCalls,
  now <- storeNow, log <- storeLog, made <- storeMade
PyTracker == INSTANCE PythonSessions WITH
  MaxRequests <- TrackerRequests, Browsers <- Instances, MaxTime <- TrackerTime,
  now <- trackerNow, serving <- threads

ASSUME SharedTablesAssumption ==
  /\ Shared!LimitsAssumption
  /\ PyStore!PythonStoreAssumption /\ PyTracker!TrackerAssumption

InitAny ==
  /\ part \in {"sessions", "flow", "records", "limits",
              "store", "tracker", "visits", "edge", "isolate"}
  /\ Init /\ FlowInit /\ LocalInit /\ Shared!LimitsInit
  /\ PyStore!PythonInit /\ PyTracker!TrackerInit /\ VisitsInit
  /\ EdgeInit /\ IsolateInit
  /\ part # "store" => kind = "once"
  /\ part # "visits" => framework = "flask" /\ failOpen

NextSessions ==
  part = "sessions" /\ Next /\ UNCHANGED <<flowVars, localVars, limitVars, otherVars>>
NextFlow ==
  part = "flow" /\ FlowNext /\ UNCHANGED <<vars, localVars, limitVars, otherVars>>
NextRecords ==
  part = "records" /\ LocalNext /\ UNCHANGED <<vars, flowVars, limitVars, otherVars>>
NextLimits ==
  part = "limits" /\ Shared!LimitsNext /\ UNCHANGED <<vars, flowVars, localVars, otherVars>>
NextStore ==
  /\ part = "store" /\ PyStore!PythonNext
  /\ UNCHANGED <<nodeVars, trackerVars, visitVars, edgeVars, isolateVars>>
NextTracker ==
  /\ part = "tracker" /\ PyTracker!TrackerNext
  /\ UNCHANGED <<nodeVars, storeVars, visitVars, edgeVars, isolateVars>>
NextVisits ==
  /\ part = "visits" /\ VisitsNext
  /\ UNCHANGED <<nodeVars, storeVars, trackerVars, edgeVars, isolateVars>>
NextEdge ==
  /\ part = "edge" /\ EdgeNext
  /\ UNCHANGED <<nodeVars, pythonVars, isolateVars>>
NextIsolate ==
  /\ part = "isolate" /\ IsolateNext
  /\ UNCHANGED <<nodeVars, pythonVars, edgeVars>>

NextAny ==
  /\ \/ NextSessions \/ NextFlow \/ NextRecords \/ NextLimits
     \/ NextStore \/ NextTracker \/ NextVisits \/ NextEdge \/ NextIsolate
  /\ UNCHANGED part

SpecAny == InitAny /\ [][NextAny]_<<part, nodeVars, otherVars>>

\* Type invariant of the part that is not idle.
ServerTypeOK ==
  /\ part = "sessions" => TypeOK
  /\ part = "flow" => FlowTypeOK
  /\ part = "records" => LocalTypeOK
  /\ part = "limits" => Shared!LimitsTypeOK
  /\ part = "store" => PyStore!PythonTypeOK
  /\ part = "tracker" => PyTracker!TrackerTypeOK
  /\ part = "visits" => VisitsTypeOK
  /\ part = "edge" => EdgeTypeOK
  /\ part = "isolate" => IsolateTypeOK

\* The tables in which calls are counted keep what they promise, although they
\* drop what is old, serve threads out of order and lose calls: the properties
\* of SharedLimits, EdgeWorker, PythonStore and PythonSessions.
TablesExact ==
  /\ part = "limits" => Shared!SharedLimitsHold
  /\ part = "isolate" => IsolateLimitHolds
  /\ part = "store" => PyStore!PromiseKept
  /\ part = "tracker" => PyTracker!SessionsKept

Symmetry == Permutations(Sids) \cup Permutations(Requests)
              \cup Permutations(Instances)
=============================================================================
