----------------------------- MODULE LocalRecords -----------------------------
(***************************************************************************)
(* AegisNode without a store: SessionRecords keeps the records of this     *)
(* process in a map, and requests change the record they were given in     *)
(* place.  getOrCreate() awaits between the look-up and the insertion.     *)
(* A record is the place of an object on the heap.                         *)
(***************************************************************************)
EXTENDS Integers, Sequences, PartialFunctions

CONSTANTS
  LocalRequests,      \* bound: requests, each sent once
  LocalSids,          \* the sessions they belong to
  MaxLosses,     \* bound: records that expire or are evicted
  KeptTimes,     \* how many request times save() keeps (500)
  KeptRisk       \* how many scores save() keeps (100)

ASSUME LocalAssumption == KeptTimes \in Nat \ {0} /\ KeptRisk \in Nat \ {0}

VARIABLES
  heap,          \* the record objects created so far
  local,         \* per session, its record in the map, or 0
  serving,       \* the requests
  losses,
  tracked,       \* history: per session, the requests that added their time
  finished,      \* history: per session, the requests that added their score
  torn           \* history: sessions whose record was lost, or replaced while
                 \* a request held it

localVars == <<heap, local, serving, losses, tracked, finished, torn>>

NewObject == [times |-> <<>>, risk |-> <<>>, telemetry |-> FALSE]
Idle == [pc |-> "new", sid |-> "none", record |-> 0, telemetry |-> FALSE]

LocalInit ==
  /\ heap = <<>> /\ local = [s \in LocalSids |-> 0] /\ losses = 0 /\ torn = {}
  /\ serving = [r \in LocalRequests |-> Idle]
  /\ tracked = [s \in LocalSids |-> <<>>] /\ finished = [s \in LocalSids |-> <<>>]

-----------------------------------------------------------------------------
\* get(): the record, unless it has been idle for the time to live.
LookUp(r, s, telemetry) ==
  /\ serving[r].pc = "new"
  /\ serving' = [serving EXCEPT ![r] =
       [pc |-> IF local[s] = 0 THEN "missing" ELSE "found", sid |-> s,
        record |-> local[s], telemetry |-> telemetry]]
  /\ UNCHANGED <<heap, local, losses, tracked, finished, torn>>

\* Mutant: a new record is used, but not put into the map.
CreateDetached(r) ==
  /\ serving[r].pc = "missing"
  /\ heap' = Append(heap, NewObject)
  /\ serving' = [serving EXCEPT ![r].pc = "found", ![r].record = Len(heap')]
  /\ UNCHANGED <<local, losses, tracked, finished, torn>>

\* getOrCreate() found nothing: a new record is put into the map, whatever
\* has been put there since.
Create(r) ==
  LET s == serving[r].sid
  IN  /\ serving[r].pc = "missing"
      /\ heap' = Append(heap, NewObject)
      /\ local' = [local EXCEPT ![s] = Len(heap')]
      /\ serving' = [serving EXCEPT ![r].pc = "found", ![r].record = Len(heap')]
      /\ torn' = IF local[s] = 0 THEN torn ELSE torn \cup {s}
      /\ UNCHANGED <<losses, tracked, finished>>

\* session(): this request's time.
Track(r) ==
  /\ serving[r].pc = "found"
  /\ heap' = [heap EXCEPT ![serving[r].record].times = Append(@, r)]
  /\ serving' = [serving EXCEPT ![r].pc = "tracked"]
  /\ tracked' = [tracked EXCEPT ![serving[r].sid] = Append(@, r)]
  /\ UNCHANGED <<local, losses, finished, torn>>

\* The score is added, and save() drops the oldest times, those of requests
\* still being served included, and the oldest scores, in place.
Finish(r) ==
  LET held == serving[r].record
  IN  /\ serving[r].pc = "tracked"
      /\ heap' = [heap EXCEPT ![held].times = NewestOnly(@, KeptTimes),
                              ![held].risk = NewestOnly(Append(@, r), KeptRisk),
                              ![held].telemetry = @ \/ serving[r].telemetry]
      /\ serving' = [serving EXCEPT ![r].pc = "done"]
      /\ finished' = [finished EXCEPT ![serving[r].sid] = Append(@, r)]
      /\ UNCHANGED <<local, losses, tracked, torn>>

\* The map drops a record, or get() finds that it has expired.
Lose(s) ==
  /\ local[s] # 0 /\ losses < MaxLosses
  /\ losses' = losses + 1
  /\ local' = [local EXCEPT ![s] = 0]
  /\ torn' = torn \cup {s}
  /\ UNCHANGED <<heap, serving, tracked, finished>>

LocalNext ==
  \/ \E r \in LocalRequests :
       \/ \E s \in LocalSids, telemetry \in BOOLEAN : LookUp(r, s, telemetry)
       \/ Create(r) \/ Track(r) \/ Finish(r)
  \/ \E s \in LocalSids : Lose(s)

LocalSpec == LocalInit /\ [][LocalNext]_localVars

-----------------------------------------------------------------------------
LocalTypeOK ==
  /\ \A s \in LocalSids : local[s] \in 0..Len(heap)
  /\ \A r \in LocalRequests : serving[r].record \in 0..Len(heap)
  /\ losses \in 0..MaxLosses /\ torn \subseteq LocalSids

\* save() is a "no-op in memory, where it is the stored object"
\* (AegisNode.ts:190) but for the lists it cuts: what requests recorded,
\* together or one after the other, is in their session's stored record, and
\* in no other one - unless that record was lost, or two requests found none
\* and both created one.  The record has the newest times, at least KeptTimes
\* of them or all, and more only while requests are served; the scores of
\* the last KeptRisk requests; and telemetry once there was any.
StoredTimes(s, times) ==
  /\ times = NewestOnly(tracked[s], Len(times))
  /\ times = tracked[s] \/ Len(times) >= KeptTimes
  /\ \A i \in DOMAIN times : i > KeptTimes => serving[times[i]].pc = "tracked"

StoredObject ==
  \A s \in LocalSids :
    /\ local[s] # 0 => \A i \in DOMAIN heap[local[s]].times :
                         serving[heap[local[s]].times[i]].sid = s
    /\ s \notin torn =>
         /\ tracked[s] # <<>> => local[s] # 0
         /\ local[s] # 0 =>
              /\ StoredTimes(s, heap[local[s]].times)
              /\ heap[local[s]].risk = NewestOnly(finished[s], KeptRisk)
              /\ \A r \in LocalRequests :
                   serving[r].sid = s /\ serving[r].pc = "done"
                     /\ serving[r].telemetry => heap[local[s]].telemetry
=============================================================================
