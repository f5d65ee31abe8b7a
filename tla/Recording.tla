------------------------------- MODULE Recording -------------------------------
(***************************************************************************)
(* One page of the study: the SDK's collectors, which listen while the     *)
(* client is started; the raw event recorder next to them (recorder.js),   *)
(* whose batches reach the study server in any order or not at all; and    *)
(* replayFeatures(), which feeds the exported batches to new collectors.   *)
(*                                                                         *)
(* Some keys have no physical code (input methods, touch keyboards); the   *)
(* live collector then goes by the key itself.  Recorder and collectors    *)
(* listen to different events, so a device can become irregular: one of    *)
(* its inputs reached only one of them, or both with other values.         *)
(***************************************************************************)
EXTENDS Collectors

CONSTANTS
  Keys, Coded, Corrections,   \* keys, those with a code, Backspace and Delete
  Positions,                  \* scroll positions of the page
  Heights, Viewports,         \* of the page and of what is seen of it
  Panes,                      \* elements that scroll by themselves
  Points, Widths,             \* of the pointer; of elements that begin at 0
  Grains,                     \* units in which the recorder may have to round
  Frame,                      \* time between two recorded scrolls (16 ms)
  MaxBatch,                   \* events that make a full batch (1500)
  MaxTime, MaxInputs          \* bounds: the clock, the user's inputs

RecordingAssumption ==
  /\ Coded \subseteq Keys /\ Corrections \subseteq Keys
  /\ Positions \cup Heights \cup Viewports \cup Widths \subseteq Nat
  /\ Points \subseteq Int /\ Grains \subseteq Nat \ {0}
  /\ Frame \in Nat /\ MaxBatch \in Nat \ 0..2 /\ {MaxTime, MaxInputs} \subseteq Nat

VARIABLES
  now, inputs,
  down,                       \* keys the user holds down
  finger,                     \* up, down, panning the page, or just tapped
  page,                       \* its height, viewport and position
  grain,                      \* of the clock and the positions, against r1()
  collecting,                 \* the client is started
  keyboard, mouse, scroll, touch,          \* the live collectors
  buffer, seq, pressNo, held, lastScroll,  \* the recorder
  inflight, stored,           \* batches under way, batches in raw_batches
  lost,                       \* history: a batch was lost
  missed,                     \* history: the client was stopped for a while
  irregular                   \* history: devices seen differently

user == <<down, finger, page, grain>>
live == <<keyboard, mouse, scroll, touch>>
recorder == <<buffer, seq, pressNo, held, lastScroll>>
network == <<inflight, stored, lost>>
recordingVars == <<now, inputs, user, collecting, live, recorder, network, missed, irregular>>

Input == inputs < MaxInputs /\ inputs' = inputs + 1

-----------------------------------------------------------------------------
(* The recorder: each row has its type and time *)

\* flush(): what is in the buffer goes out as the next batch.
Flushed(rows) ==
  IF rows = <<>> THEN UNCHANGED <<buffer, seq, inflight>>
  ELSE /\ buffer' = <<>>
       /\ inflight' = inflight \cup {[seq |-> seq, events |-> rows]}
       /\ seq' = seq + 1

\* push() of one or two rows: as soon as the buffer is full, it is flushed.
PushAll(rows) ==
  LET all == buffer \o rows
      full == [seq |-> seq, events |-> SubSeq(all, 1, MaxBatch)]
  IN  IF Len(all) < MaxBatch THEN buffer' = all /\ UNCHANGED <<seq, inflight>>
      ELSE /\ buffer' = SubSeq(all, MaxBatch + 1, Len(all))
           /\ inflight' = inflight \cup {full}
           /\ seq' = seq + 1

Push(row) == PushAll(<<row>>)

\* r1(), and Math.round() of a scroll position.
Rounded(v) == ((v + grain \div 2) \div grain) * grain

Row(type, t, fields) == [type |-> type, t |-> Rounded(t)] @@ fields

Press(key, repeat) ==
  IF repeat /\ key \in Coded /\ key \in DOMAIN held THEN held[key] ELSE pressNo + 1

\* onKeyDown(): a key without a code is held under a name that onKeyUp() never
\* looks for.
RecordKeyDown(key, repeat) ==
  LET id == Press(key, repeat) IN
  /\ pressNo' = IF id > pressNo THEN id ELSE pressNo
  /\ held' = IF key \in Coded THEN Put(held, key, id) ELSE held
  /\ Push(Row("k", now, [correction |-> key \in Corrections, press |-> id, repeat |-> repeat]))

RecordKeyUp(key) ==
  LET known == key \in Coded /\ key \in DOMAIN held IN
  /\ held' = IF known THEN Without(held, {key}) ELSE held
  /\ Push(Row("K", now, [press |-> IF known THEN held[key] ELSE 0]))
  /\ UNCHANGED pressNo

-----------------------------------------------------------------------------
(* What the user does.  The live handlers run while the client is started. *)

Irregular(devices) == irregular' = irregular \cup devices

PressKey(key) ==
  /\ Input /\ key \notin down
  /\ down' = down \cup {key}
  /\ keyboard' = IF collecting THEN KeyDown(keyboard, key, key \in Corrections, now)
                               ELSE keyboard
  /\ RecordKeyDown(key, FALSE)
  /\ Irregular(IF key \in Coded THEN {} ELSE {"keyboard"})
  /\ UNCHANGED <<now, finger, page, grain, collecting, mouse, scroll, touch, lastScroll,
                 stored, lost, missed>>

\* Auto-repeat: the collector ignores it.
RepeatKey(key) ==
  /\ Input /\ key \in down
  /\ RecordKeyDown(key, TRUE)
  /\ UNCHANGED <<now, user, collecting, live, lastScroll, stored, lost, missed, irregular>>

ReleaseKey(key) ==
  /\ Input /\ key \in down
  /\ down' = down \ {key}
  /\ keyboard' = IF collecting THEN KeyUp(keyboard, key, now) ELSE keyboard
  /\ RecordKeyUp(key)
  /\ UNCHANGED <<now, finger, page, grain, collecting, mouse, scroll, touch, lastScroll,
                 stored, lost, missed, irregular>>

\* The key goes up while another window has the focus: no event.
ReleaseAway(key) ==
  /\ Input /\ key \in down
  /\ down' = down \ {key}
  /\ Irregular({"keyboard"})
  /\ UNCHANGED <<now, finger, page, grain, collecting, live, recorder, network, missed>>

Paste ==
  /\ Input
  /\ keyboard' = IF collecting THEN Pasted(keyboard) ELSE keyboard
  /\ Push(Row("p", now, <<>>))
  /\ UNCHANGED <<now, user, collecting, mouse, scroll, touch, pressNo, held, lastScroll,
                 stored, lost, missed, irregular>>

\* onScroll(): one sample per frame, of the page's position.
Sampled == Rounded(now) - lastScroll >= Frame
RecordScroll(y) ==
  IF Sampled
    THEN lastScroll' = Rounded(now) /\ Push(Row("s", now, [y |-> Rounded(y)]))
    ELSE UNCHANGED <<lastScroll, buffer, seq, inflight>>

Scrollable(height, viewport) == Max({0, height - viewport})

ScrollTo(y) ==
  /\ Input
  /\ page' = [page EXCEPT !.y = y]
  /\ scroll' = IF collecting
                 THEN AddPosition(scroll, y, Scrollable(page.height, page.viewport), now)
                 ELSE scroll
  /\ RecordScroll(y)
  /\ Irregular(IF Sampled THEN {} ELSE {"scroll"})
  /\ UNCHANGED <<now, down, finger, grain, collecting, keyboard, mouse, touch, pressNo, held,
                 stored, lost, missed>>

\* An element scrolls: the event does not bubble to the live collector, but the
\* recorder's capturing listener takes it for the page's.
ScrollPane(pane) ==
  /\ Input
  /\ RecordScroll(page.y)
  /\ Irregular(IF Sampled THEN {"scroll"} ELSE {})
  /\ UNCHANGED <<now, user, collecting, live, pressNo, held, stored, lost, missed>>

\* The page changes its height, which no row tells, or the window is resized.
Relayout(height, viewport) ==
  /\ Input /\ <<height, viewport>> # <<page.height, page.viewport>>
  /\ page' = [page EXCEPT !.height = height, !.viewport = viewport]
  /\ IF viewport = page.viewport THEN UNCHANGED <<buffer, seq, inflight>>
     ELSE Push(Row("r", now, [height |-> viewport]))
  /\ Irregular(IF height = page.height THEN {} ELSE {"scroll"})
  /\ UNCHANGED <<now, down, finger, grain, collecting, live, pressNo, held, lastScroll,
                 stored, lost, missed>>

TouchAt(type, x, t) == [type |-> type, x |-> x, t |-> t, touches |-> 1]

\* onMove(): the recorder also takes the samples that the browser coalesced
\* into the event, here one a tick earlier.  A pen's moves are mousemove events
\* for the live collector and are not replayed.
Move(pointer, x, coalesced) ==
  LET row(t) == Row("m", t, [x |-> Rounded(x), pointer |-> pointer])
      device == IF pointer = "touch" THEN "touch" ELSE "mouse"
  IN
  /\ Input /\ (pointer = "touch" => finger = "down")
  /\ mouse' = IF collecting /\ device = "mouse"
                THEN AddSample(mouse, [x |-> x, y |-> 0, t |-> now]) ELSE mouse
  /\ touch' = IF collecting /\ device = "touch"
                THEN AddTouch(touch, TouchAt("move", x, now)) ELSE touch
  /\ PushAll(IF coalesced THEN <<row(now - 1), row(now)>> ELSE <<row(now)>>)
  /\ Irregular(IF coalesced \/ pointer = "pen" THEN {device} ELSE {})
  /\ UNCHANGED <<now, user, collecting, keyboard, scroll, pressNo, held, lastScroll,
                 stored, lost, missed>>

\* A click on an element: the recorder takes the box of the nearest interactive
\* element around it.
Click(x, width, outer) ==
  /\ Input
  /\ mouse' = IF collecting THEN AddClick(mouse, x, 0, now, width) ELSE mouse
  /\ Push(Row("c", now, [x |-> Rounded(x), width |-> Rounded(outer)]))
  /\ Irregular(IF width = outer THEN {} ELSE {"mouse"})
  /\ UNCHANGED <<now, user, collecting, keyboard, scroll, touch, pressNo, held, lastScroll,
                 stored, lost, missed>>

\* touchstart and touchend are pointer events for the recorder, unless the
\* browser has taken the touch for a pan.
Finger(type, x) ==
  LET panned == finger = "panning" IN
  /\ Input
  /\ IF type = "start" THEN finger \in {"up", "tapped"} ELSE finger \in {"down", "panning"}
  /\ finger' = CASE type = "start" -> "down" [] panned -> "up" [] OTHER -> "tapped"
  /\ touch' = IF collecting THEN AddTouch(touch, TouchAt(type, x, now)) ELSE touch
  /\ IF panned THEN UNCHANGED <<buffer, seq, inflight>>
     ELSE Push(Row(IF type = "start" THEN "d" ELSE "u", now,
                   [x |-> Rounded(x), pointer |-> "touch"]))
  /\ Irregular(IF panned THEN {"touch"} ELSE {})
  /\ UNCHANGED <<now, down, page, grain, collecting, keyboard, mouse, scroll, pressNo, held,
                 lastScroll, stored, lost, missed>>

\* pointercancel, which nobody listens to; touchmove events go on.
Pan ==
  /\ finger = "down"
  /\ finger' = "panning"
  /\ UNCHANGED <<now, inputs, down, page, grain, collecting, live, recorder, network,
                 missed, irregular>>

PannedMove(x) ==
  /\ Input /\ finger = "panning"
  /\ touch' = IF collecting THEN AddTouch(touch, TouchAt("move", x, now)) ELSE touch
  /\ Irregular({"touch"})
  /\ UNCHANGED <<now, user, collecting, keyboard, mouse, scroll, recorder, network, missed>>

\* After a tap the browser may send a mousemove event of its own.
TappedMove(x) ==
  /\ Input /\ finger = "tapped"
  /\ finger' = "up"
  /\ mouse' = IF collecting THEN AddSample(mouse, [x |-> x, y |-> 0, t |-> now]) ELSE mouse
  /\ Irregular({"mouse"})
  /\ UNCHANGED <<now, down, page, grain, collecting, keyboard, scroll, touch, recorder,
                 network, missed>>

-----------------------------------------------------------------------------
(* The client, the batches *)

\* AegisClient.stop() and start(): the listeners go and come, the lists stay.
StopClient ==
  /\ collecting /\ Input
  /\ collecting' = FALSE /\ missed' = TRUE
  /\ UNCHANGED <<now, user, live, recorder, network, irregular>>

StartClient ==
  /\ ~collecting
  /\ collecting' = TRUE
  /\ UNCHANGED <<now, inputs, user, live, recorder, network, missed, irregular>>

\* The interval, or the page being hidden.
Flush ==
  /\ buffer # <<>>
  /\ Flushed(buffer)
  /\ UNCHANGED <<now, inputs, user, collecting, live, pressNo, held, lastScroll,
                 stored, lost, missed, irregular>>

\* POST /study/raw: batches arrive in any order.
ArriveBatch(batch) ==
  /\ inflight' = inflight \ {batch}
  /\ stored' = stored \cup {batch}
  /\ UNCHANGED <<now, inputs, user, collecting, live, recorder, lost, missed, irregular>>

LoseBatch(batch) ==
  /\ inflight' = inflight \ {batch}
  /\ lost' = TRUE
  /\ UNCHANGED <<now, inputs, user, collecting, live, recorder, stored, missed, irregular>>

RecordingTick ==
  /\ now < MaxTime
  /\ now' = now + 1
  /\ UNCHANGED <<inputs, user, collecting, live, recorder, network, missed, irregular>>

\* The page takes a frame to load the recorder, which notes the layout first.
RecordingInit ==
  /\ now = Frame /\ inputs = 0 /\ collecting = TRUE
  /\ down = {} /\ finger = "up" /\ grain \in Grains
  /\ page \in [height : Heights, viewport : Viewports, y : {0}]
  /\ keyboard = NewKeyboard /\ mouse = NewMouse /\ scroll = NewScroll /\ touch = <<>>
  /\ buffer = <<Row("r", now, [height |-> page.viewport]),
                Row("n", now, [height |-> page.height])>>
  /\ seq = 0 /\ pressNo = 0 /\ held = NoEntries /\ lastScroll = 0
  /\ inflight = {} /\ stored = {}
  /\ lost = FALSE /\ missed = FALSE /\ irregular = {}

KeyNext ==
  \/ \E key \in Keys :
       PressKey(key) \/ RepeatKey(key) \/ ReleaseKey(key) \/ ReleaseAway(key)
  \/ Paste
PointerNext ==
  \E x \in Points :
    \/ \E coalesced \in BOOLEAN, pointer \in {"mouse", "pen"} : Move(pointer, x, coalesced)
    \/ \E width, outer \in Widths : Click(x, width, outer)
TouchNext ==
  \/ \E x \in Points :
       \/ \E coalesced \in BOOLEAN : Move("touch", x, coalesced)
       \/ \E type \in {"start", "end"} : Finger(type, x)
       \/ PannedMove(x) \/ TappedMove(x)
  \/ Pan
ScrollNext ==
  \/ \E y \in Positions : ScrollTo(y)
  \/ \E pane \in Panes : ScrollPane(pane)
  \/ \E height \in Heights, viewport \in Viewports : Relayout(height, viewport)
PageNext ==
  \/ Flush \/ RecordingTick
  \/ \E batch \in inflight : ArriveBatch(batch)
FaultNext ==
  \/ StopClient \/ StartClient
  \/ \E batch \in inflight : LoseBatch(batch)

RecordingNext == KeyNext \/ PointerNext \/ TouchNext \/ ScrollNext \/ PageNext \/ FaultNext
RecordingSpec == RecordingInit /\ [][RecordingNext]_recordingVars

-----------------------------------------------------------------------------
(* The export and the replay *)

\* Mutant: the export takes the batches as they were stored, newest first.
NewestFirst(batches) ==
  SortSeq(SetToSeq(batches), LAMBDA a, b : a.seq > b.seq)

\* export.py: ORDER BY session_id, page_view, seq.
InOrder(batches) ==
  SortSeq(SetToSeq(batches), LAMBDA a, b : a.seq < b.seq)

RawEvents == FlattenSeq([i \in DOMAIN InOrder(stored) |-> InOrder(stored)[i].events])

\* The cases of replayFeatures() for each collector.
ReplayKey(k, e) ==
  CASE e.type = "k" /\ ~e.repeat -> KeyDown(k, e.press, e.correction, e.t)
    [] e.type = "K" /\ e.press # 0 -> KeyUp(k, e.press, e.t)
    [] e.type = "p" -> Pasted(k)
    [] OTHER -> k
ReplayMouse(m, e) ==
  CASE e.type = "m" /\ e.pointer = "mouse" -> AddSample(m, [x |-> e.x, y |-> 0, t |-> e.t])
    [] e.type = "c" -> AddClick(m, e.x, 0, e.t, e.width)
    [] OTHER -> m
ReplayTouch(points, e) ==
  IF e.type \in {"d", "m", "u"} /\ e.pointer = "touch"
    THEN AddTouch(points,
           TouchAt(CASE e.type = "d" -> "start" [] e.type = "m" -> "move" [] OTHER -> "end",
                   e.x, e.t))
    ELSE points

\* The scroll collector, with the height and viewport of the last rows.
ReplayScroll(c, e) ==
  CASE e.type = "n" -> [c EXCEPT !.height = e.height]
    [] e.type = "r" -> [c EXCEPT !.viewport = e.height]
    [] e.type = "s" ->
         [c EXCEPT !.scroll = AddPosition(@, e.y, Scrollable(c.height, c.viewport), e.t)]
    [] OTHER -> c
NewPage == [scroll |-> NewScroll, height |-> 0, viewport |-> 0]

replayFeatures(events) ==
  [keyboard |-> KeyboardData(FoldLeft(ReplayKey, NewKeyboard, events)),
   mouse |-> MouseData(FoldLeft(ReplayMouse, NewMouse, events)),
   scroll |-> ScrollData(FoldLeft(ReplayScroll, NewPage, events).scroll),
   touch |-> TouchData(FoldLeft(ReplayTouch, <<>>, events))]

\* collect(): the live features.
LiveFeatures ==
  [keyboard |-> KeyboardData(keyboard), mouse |-> MouseData(mouse),
   scroll |-> ScrollData(scroll), touch |-> TouchData(touch)]

Devices == {"keyboard", "mouse", "scroll", "touch"}

RecordingTypeOK ==
  /\ now \in Frame..MaxTime /\ inputs \in 0..MaxInputs /\ grain \in Grains
  /\ down \subseteq Keys /\ finger \in {"up", "down", "panning", "tapped"}
  /\ page \in [height : Heights, viewport : Viewports, y : Positions \cup {0}]
  /\ Len(buffer) < MaxBatch /\ irregular \subseteq Devices
  /\ \A a, b \in inflight \cup stored : a.seq = b.seq => a = b
  /\ \A batch \in inflight \cup stored :
       batch.seq \in 0..(seq - 1) /\ Len(batch.events) \in 1..MaxBatch

Settled == buffer = <<>> /\ inflight = {} /\ ~lost

\* What times and positions do not enter into.
Counts(device) ==
  CASE device = "keyboard" -> {"events", "downs", "corrections", "pastes"}
    [] device = "mouse" -> {"clicks"}
    [] device = "touch" -> {"count", "multi"}
    [] OTHER -> {}

(***************************************************************************)
(* Once every batch of a page is stored, in whatever order, the replay     *)
(* gives, device by device, the features the client has collected: all of  *)
(* them where r1() has nothing to round, and otherwise the numbers of      *)
(* keys, corrections, pastes, clicks and touches.  Excepted are a client   *)
(* that was stopped in between and the devices with an irregular input: a  *)
(* key that has no code or went up in another window; a pen, coalesced     *)
(* moves, a tap's own mousemove, a click on part of a link or button;      *)
(* scroll events faster than a frame or of an element, a page that grew;   *)
(* a touch that became a pan.                                              *)
(***************************************************************************)
ReplayMatches ==
  Settled /\ ~missed =>
    LET replayed == replayFeatures(RawEvents) IN
    \A device \in Devices \ irregular :
      /\ grain = 1 => replayed[device] = LiveFeatures[device]
      /\ \A count \in Counts(device) :
           replayed[device][count] = LiveFeatures[device][count]

(***************************************************************************)
(* replay.ts: "Keyboard and scroll features are computed from the same     *)
(* event timestamps as live and should match the live values."             *)
(***************************************************************************)
ReplayMatchesLive ==
  Settled /\ ~missed =>
    /\ replayFeatures(RawEvents).keyboard = LiveFeatures.keyboard
    /\ replayFeatures(RawEvents).scroll = LiveFeatures.scroll
=============================================================================
