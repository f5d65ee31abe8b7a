--------------------------- MODULE MCClientTables ---------------------------
(***************************************************************************)
(* What a server keeps about its clients, in one run: the initial state    *)
(* picks a token bucket, a sliding window, the sessions or the adaptive    *)
(* limiter's traffic; the others stay idle.                                *)
(* Three keys (or session ids) in maps of two generations of one each, so  *)
(* that keys are evicted while their windows are full, their buckets empty *)
(* and their sessions alive.  A bucket holds four units refilled by two    *)
(* per tick, so that costs leave fractions; the clocks run past MaxAge,    *)
(* past two windows and past the last moment at which StaleNotResumed lets *)
(* a session be resumed, so that sessions expire and bursts decay.         *)
(***************************************************************************)
EXTENDS TokenBucket, SlidingWindow, SessionManager, AdaptiveLimiter, TLC

VARIABLE used     \* the one of this behaviour

InitAny ==
  /\ used \in {"bucket", "window", "sessions", "traffic"}
  /\ Init /\ WindowInit /\ SessionInit /\ AdaptiveInit

NextBucket ==
  /\ used = "bucket" /\ Next
  /\ UNCHANGED <<used, windowVars, sessionVars, adaptiveVars>>
NextWindow ==
  /\ used = "window" /\ WindowNext
  /\ UNCHANGED <<used, vars, sessionVars, adaptiveVars>>
NextSessions ==
  /\ used = "sessions" /\ SessionNext
  /\ UNCHANGED <<used, vars, windowVars, adaptiveVars>>
NextTraffic ==
  /\ used = "traffic" /\ AdaptiveNext
  /\ UNCHANGED <<used, vars, windowVars, sessionVars>>

SpecAny ==
  InitAny
  /\ [][NextBucket \/ NextWindow \/ NextSessions \/ NextTraffic]_
       <<used, vars, windowVars, sessionVars, adaptiveVars>>

\* Type invariant of the one that is not idle.
TablesTypeOK ==
  /\ used = "bucket" => TypeOK
  /\ used = "window" => WindowTypeOK
  /\ used = "sessions" => SessionTypeOK
  /\ used = "traffic" => AdaptiveTypeOK

KeySymmetry == Permutations(Keys)
=============================================================================
