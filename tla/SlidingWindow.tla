---------------------------- MODULE SlidingWindow ----------------------------
(***************************************************************************)
(* SlidingWindowLimiter (core/src/modules/rate-limiter).  Per key, the     *)
(* times of the requests allowed in the last WindowSize milliseconds; the  *)
(* keys live in a bounded map, are pruned lazily when they are used and    *)
(* swept by a timer.  Time is in ticks.                                    *)
(***************************************************************************)
EXTENDS BoundedMap, Sequences

CONSTANTS
  Clients,                     \* the keys
  MaxRequests, WindowSize,
  MaxClock                     \* bound: the clock stops there

ASSUME SlidingWindowAssumption ==
  /\ MaxRequests \in Nat \ {0}
  /\ WindowSize \in Nat \ {0}
  /\ MaxClock \in Nat \ {0}

VARIABLES
  clock,      \* Date.now()
  windows,    \* bounded map from keys to the timestamps of allowed requests
  armed,      \* the cleanup timer is armed
  granted,    \* history: when the newest requests of the key were allowed,
              \* newest first, one more than the limit; NotInWindow for those
              \* before the window or before the key was last forgotten
  comeback    \* history: when the last refusal told the key to come back

windowVars == <<clock, windows, armed, granted, comeback>>

NotInWindow == 0
NoneGranted == [n \in 1..MaxRequests + 1 |-> NotInWindow]
Anytime == 0      \* comeback of a key that was not refused

WindowInit ==
  /\ clock = 1
  /\ windows = EmptyMap
  /\ armed = TRUE
  /\ granted = [k \in Clients |-> NoneGranted]
  /\ comeback = [k \in Clients |-> Anytime]

\* Mutant: a request exactly WindowSize ago still counts.
InWindowInclusive(t) == t >= clock - WindowSize

InWindow(t) == t > clock - WindowSize

\* The while loop drops the oldest timestamps up to the first live one.
Pruned(stamps) ==
  LET live == {i \in DOMAIN stamps : InWindow(stamps[i])}
  IN  IF live = {} THEN <<>>
      ELSE SubSeq(stamps, CHOOSE i \in live : \A j \in live : i <= j, Len(stamps))

\* The keys of S lose their history: nothing is owed to them any more.
Forgetting(S, f, initial) == [k \in Clients |-> IF k \in S THEN initial ELSE f[k]]

\* The history of a key that is allowed a request, and as time passes.
Noting(times) ==
  [n \in 1..MaxRequests + 1 |-> IF n = 1 THEN clock ELSE times[n - 1]]
Fading(times, t) ==
  [n \in 1..MaxRequests + 1 |->
     IF times[n] > t - WindowSize THEN times[n] ELSE NotInWindow]

IsAllowedInWindow(k) ==
  LET fetched == AfterGet(windows, k)
      known   == Has(windows, k)
      stored  == IF known THEN fetched ELSE AfterSet(fetched, k, <<>>)
      lost    == IF known THEN DroppedByGet(windows, k) ELSE DroppedBySet(windows, k)
      stamps  == Pruned(ValueOf(stored, k))
      allowed == Len(stamps) < MaxRequests
      kept    == IF allowed THEN Append(stamps, clock) ELSE stamps
      old     == Forgetting(lost, granted, NoneGranted)
  IN  /\ windows' = Mutate(stored, k, kept)
      /\ granted' = IF allowed THEN [old EXCEPT ![k] = Noting(@)] ELSE old
      /\ comeback' = [Forgetting(lost, comeback, Anytime) EXCEPT
                        ![k] = IF allowed THEN Anytime ELSE kept[1] + WindowSize]
      /\ UNCHANGED <<clock, armed>>

\* Reading the count uses the key, so it may evict others.
GetCurrentCount(k) ==
  LET lost == DroppedByGet(windows, k)
  IN  /\ windows' = AfterGet(windows, k)
      /\ granted' = Forgetting(lost, granted, NoneGranted)
      /\ comeback' = Forgetting(lost, comeback, Anytime)
      /\ UNCHANGED <<clock, armed>>

ResetWindow(k) ==
  /\ windows' = AfterDelete(windows, k)
  /\ granted' = [granted EXCEPT ![k] = NoneGranted]
  /\ comeback' = [comeback EXCEPT ![k] = Anytime]
  /\ UNCHANGED <<clock, armed>>

\* Mutant: a window is judged by its oldest request.
InactiveByOldest(stamps) == stamps = <<>> \/ ~InWindow(stamps[1])

\* A key is swept when its newest timestamp has left the window.
Inactive(stamps) == stamps = <<>> \/ ~InWindow(stamps[Len(stamps)])

CleanupWindows ==
  /\ armed
  /\ windows' = AfterDeleteAll(windows,
                  {k \in KeysOf(windows) : Inactive(ValueOf(windows, k))})
  /\ UNCHANGED <<clock, armed, granted, comeback>>

DestroyWindows ==
  /\ armed
  /\ armed' = FALSE
  /\ windows' = EmptyMap
  /\ granted' = [k \in Clients |-> NoneGranted]
  /\ comeback' = [k \in Clients |-> Anytime]
  /\ UNCHANGED clock

\* Time passes; the history keeps the grants that are still in the window.
WindowTick ==
  /\ clock < MaxClock
  /\ clock' = clock + 1
  /\ granted' = [k \in Clients |-> Fading(granted[k], clock + 1)]
  /\ UNCHANGED <<windows, armed, comeback>>

WindowNext ==
  \/ \E k \in Clients : IsAllowedInWindow(k) \/ GetCurrentCount(k) \/ ResetWindow(k)
  \/ CleanupWindows
  \/ DestroyWindows
  \/ WindowTick

WindowSpec == WindowInit /\ [][WindowNext]_windowVars

-----------------------------------------------------------------------------
\* Type invariant: a key never holds more than MaxRequests timestamps.
WindowTypeOK ==
  /\ clock \in 1..MaxClock
  /\ armed \in BOOLEAN
  /\ KeysOf(windows) \subseteq Clients /\ SizeOf(windows) <= MaxSize
  /\ \A k \in KeysOf(windows) :
       /\ Len(ValueOf(windows, k)) <= MaxRequests
       /\ \A i \in DOMAIN ValueOf(windows, k) : ValueOf(windows, k)[i] \in 1..clock

\* "More accurate than fixed-window counters": in every window of WindowSize,
\* at most MaxRequests requests of a key are allowed, however pruning and the
\* cleanup timer interleave with them, until the key is reset or evicted.
WindowRespected ==
  \A k \in Clients : granted[k][MaxRequests + 1] = NotInWindow

\* isAllowed() refuses a key only if MaxRequests of its requests were allowed
\* in the window that ends now, and resetMs is exact: after a refusal, the key
\* is refused until that much time has passed and its next request then is
\* allowed, unless it is forgotten.  Cleanup and pruning leave no stale time.
ResetIsExact ==
  [][\A k \in Clients :
       /\ comeback'[k] \notin {comeback[k], Anytime} =>
            granted'[k][MaxRequests] # NotInWindow
       /\ IsAllowedInWindow(k) /\ comeback[k] # Anytime =>
            (clock >= comeback[k] <=> comeback'[k] = Anytime)]_windowVars

WindowPromises == []WindowRespected /\ ResetIsExact
=============================================================================
