----------------------------- MODULE MCDataPaths -----------------------------
(***************************************************************************)
(* Where data is kept and how it gets from one place to another, in one    *)
(* run; the initial state picks a part, the others stay idle.              *)
(*                                                                         *)
(* Map: five keys compete for two generations of two places each, which    *)
(* fill, rotate twice and drop keys.                                       *)
(* Store: one key (keys do not interact), a window of two ticks, a cap of  *)
(* three hits that two hits per tick exceed, and a clock that runs past    *)
(* two windows and two lifetimes of a claim or value.                      *)
(* Feed: two viewers of whom one is admitted at a time, batches of one     *)
(* event and three events, so that events are dropped.                     *)
(* Page: a dashboard on that feed, with one request in flight.             *)
(* Keys, pointer, touch, scroll: a recorded page of four inputs (three     *)
(* moves and clicks), three of which fill a batch.  With keys two batches  *)
(* are under way at once; the others wait for theirs and stop once their   *)
(* device is irregular, when nothing more is claimed of it.                *)
(***************************************************************************)
EXTENDS BoundedMapSpec, StoreSpec, Dashboard, TLC

CONSTANTS
  Pause, LongPress, Rollover, KeyCaps, Coded, Corrections, Positions,
  Heights, Viewports, Panes, Points, Widths, Grains,
  Frame, MaxBatch, PageTime, MaxInputs,                            \* recording
  MaxBatches    \* batches that leave a page before they are full

VARIABLES
  part,
  time, inputs, down, finger, page, grain, collecting, keyboard, mouse, scroll,
  touch, buffer, seq, pressNo, held, lastScroll, inflight, stored, lost, missed,
  irregular

recordingVars ==
  <<time, inputs, down, finger, page, grain, collecting, keyboard, mouse, scroll,
    touch, buffer, seq, pressNo, held, lastScroll, inflight, stored, lost, missed,
    irregular>>

Study == INSTANCE Recording WITH
           Keys <- KeyCaps, MaxTime <- PageTime, now <- time

ASSUME Study!CollectorsAssumption /\ Study!RecordingAssumption

Inputs == {"keys", "pointer", "touch", "scroll"}

InitAny ==
  /\ part \in {"map", "store", "feed", "page"} \cup Inputs
  /\ Init /\ StoresInit /\ DashboardInit /\ Study!RecordingInit
  /\ page = [height |-> 6, viewport |-> 2, y |-> 0]    \* that the page loads with

NextMap ==
  part = "map" /\ Next /\ UNCHANGED <<part, storeVars, feedVars, pageVars, recordingVars>>
NextStore ==
  part = "store" /\ StoresNext /\ UNCHANGED <<part, vars, feedVars, pageVars, recordingVars>>

\* The page's part leaves out the other viewer and the last event.
NextFeed ==
  /\ part = "feed" /\ (FeedNext \/ OthersNext)
  /\ UNCHANGED <<part, vars, storeVars, pageVars, recordingVars>>
NextPage ==
  /\ part = "page"
  /\ \/ PageNext
     \/ /\ \/ Record /\ total' < MaxEvents
           \/ Flush \/ SummaryTime \/ Heartbeat
           \/ Close \/ Pong(Page) \/ Congest(Page)
        /\ UNCHANGED pageVars
  /\ UNCHANGED <<part, vars, storeVars, recordingVars>>

NextRecording ==
  /\ \/ part = "keys" /\ Study!KeyNext
     \/ /\ part = "pointer" /\ Study!PointerNext /\ inputs' < MaxInputs
        /\ inflight = {} /\ "mouse" \notin irregular
     \/ part = "touch" /\ Study!TouchNext /\ inflight = {} /\ "touch" \notin irregular
     \/ part = "scroll" /\ Study!ScrollNext /\ inflight = {} /\ "scroll" \notin irregular
     \/ part = "scroll" /\ Study!FaultNext
     \/ part \in Inputs /\ Study!PageNext /\ seq' \in {seq} \cup 0..MaxBatches
  /\ UNCHANGED <<part, vars, storeVars, feedVars, pageVars>>

NextAny == NextMap \/ NextStore \/ NextFeed \/ NextPage \/ NextRecording

SpecAny ==
  InitAny
  /\ [][NextAny]_<<part, vars, storeVars, feedVars, pageVars, recordingVars>>

\* Type invariant of the part that is not idle.
DataTypeOK ==
  /\ part = "map" => TypeOK
  /\ part = "store" => StoresTypeOK
  /\ part \in {"feed", "page"} => DashboardTypeOK
  /\ part \in Inputs => Study!RecordingTypeOK

\* The property of Recording, under its own name.
ReplayMatches == part \in Inputs => Study!ReplayMatches

\* No part tells one value from another.
ValueSymmetry == Permutations(Values)
=============================================================================
