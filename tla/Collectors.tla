------------------------------ MODULE Collectors ------------------------------
(***************************************************************************)
(* The behaviour collectors of the browser SDK (js-sdk/src/collectors), as *)
(* operators on their fields: what one event does to them, and what        *)
(* getData() derives.  Averages, deviations and entropies are functions of *)
(* the lists that are given here instead; lengths are the displacements    *)
(* whose hypot() the code takes.                                           *)
(***************************************************************************)
EXTENDS Integers, Sequences, FiniteSets, SequencesExt, FiniteSetsExt,
        PartialFunctions

CONSTANTS
  MaxKept,      \* values kept in a list (2000, 1000)
  Pause,        \* gap that ends a stroke (100 ms)
  LongPress,    \* dwell and flight times from here on are dropped (5 s)
  Rollover      \* flight times down to minus this are kept (1 s)

CollectorsAssumption ==
  {MaxKept, LongPress, Rollover} \subseteq Nat \ {0} /\ Pause \in Nat

NoTime == -1

\* push(): the oldest value goes when there are too many.
Kept(values, value) ==
  LET all == Append(values, value)
  IN  IF Len(all) > MaxKept THEN Tail(all) ELSE all

-----------------------------------------------------------------------------
(* KeyboardCollector *)

NewKeyboard ==
  [dwells |-> <<>>, flights |-> <<>>, pressed |-> NoEntries,
   lastUp |-> NoTime, firstDown |-> NoTime, lastDown |-> NoTime,
   downs |-> 0, corrections |-> 0, events |-> 0, pastes |-> 0]

Flights(k, t) ==
  IF k.lastUp # NoTime /\ t - k.lastUp > -Rollover /\ t - k.lastUp < LongPress
    THEN Kept(k.flights, t - k.lastUp) ELSE k.flights

KeyDown(k, key, correction, t) ==
  IF key \in DOMAIN k.pressed THEN k
  ELSE [k EXCEPT !.pressed = Put(@, key, t),
                 !.events = @ + 1, !.downs = @ + 1,
                 !.corrections = @ + (IF correction THEN 1 ELSE 0),
                 !.firstDown = IF @ = NoTime THEN t ELSE @,
                 !.lastDown = t,
                 !.flights = Flights(k, t)]

KeyUp(k, key, t) ==
  IF key \notin DOMAIN k.pressed THEN k
  ELSE LET dwell == t - k.pressed[key]
       IN  [k EXCEPT !.pressed = Without(@, {key}),
                     !.events = @ + 1,
                     !.dwells = IF dwell < LongPress THEN Kept(@, dwell) ELSE @,
                     !.lastUp = t]

Pasted(k) == [k EXCEPT !.pastes = @ + 1]

\* getData(): keys typed over a duration stand for the typing speed.
KeyboardData(k) ==
  LET duration == IF k.firstDown = NoTime THEN 0 ELSE k.lastDown - k.firstDown
  IN  [events |-> k.events, dwells |-> k.dwells, flights |-> k.flights,
       pastes |-> k.pastes, corrections |-> k.corrections, downs |-> k.downs,
       typed |-> IF duration > 0 THEN k.downs - 1 ELSE 0, duration |-> duration]

-----------------------------------------------------------------------------
(* MouseCollector *)

NoStroke == [x |-> 0, y |-> 0, t |-> NoTime]
NewMouse == [samples |-> <<>>, clicks |-> <<>>, stroke |-> NoStroke]

\* strokeStart after a sample: a new one after a pause.
StrokeStart(m, sample) ==
  IF m.samples = <<>> \/ sample.t - Last(m.samples).t > Pause
    THEN sample ELSE m.stroke

\* addSample(): duplicate and out-of-order events are ignored.
AddSample(m, sample) ==
  IF m.samples # <<>> /\ sample.t <= Last(m.samples).t THEN m
  ELSE [m EXCEPT !.samples = Kept(@, sample), !.stroke = StrokeStart(m, sample)]

\* addClick() on an element of some width: the precision goes by where it was
\* hit, Fitts' law takes the way from the beginning of the stroke.
AddClick(m, x, y, t, width) ==
  LET start == IF m.stroke = NoStroke THEN [x |-> x, y |-> y, t |-> t] ELSE m.stroke
  IN  IF width <= 0 THEN m
      ELSE [m EXCEPT !.clicks =
              Kept(@, [x |-> x, width |-> width, from |-> start, took |-> t - start.t])]

Gap(s, i) == s[i].t - s[i - 1].t
Pauses(s) == {i \in 2..Len(s) : Gap(s, i) > Pause}
Moves(s) == (2..Len(s)) \ Pauses(s)
Step(s, i) == [x |-> s[i].x - s[i - 1].x, y |-> s[i].y - s[i - 1].y]

\* Moves that have a move of the same stroke before them have an acceleration
\* and a turning angle; those before which that one has one, a jerk.
Accelerations(s) == {i \in Moves(s) : i - 1 \in Moves(s)}
Jerks(s) == {i \in Accelerations(s) : i - 1 \in Accelerations(s)}
Turns(s) ==
  {i \in Accelerations(s) :
     \/ Step(s, i).x * Step(s, i - 1).x < 0
     \/ Step(s, i).y * Step(s, i - 1).y < 0}

\* The strokes as pairs of indices, and those with a straightness.
Strokes(s) ==
  {<<a, b>> \in (Pauses(s) \cup {1}) \X (1..Len(s)) :
     /\ a <= b /\ (a + 1)..b \cap Pauses(s) = {}
     /\ b = Len(s) \/ b + 1 \in Pauses(s)}
Straight(s) ==
  {stroke \in Strokes(s) :
     /\ stroke[2] - stroke[1] >= 2
     /\ \E i \in (stroke[1] + 1)..stroke[2] : Step(s, i) # [x |-> 0, y |-> 0]}

\* estimateMicroTremorFreq(): sign changes between displacements below 2 px.
Tremor(s) ==
  LET deltas == [i \in 1..(Len(s) - 1) |-> Step(s, i + 1).x + Step(s, i + 1).y]
      small == SelectSeq(deltas, LAMBDA d : d \in {-1, 1})
  IN  Cardinality({i \in 2..Len(small) : small[i] # small[i - 1]})

\* fittsR2(): three clicks that took time are needed.
Fitted(clicks) ==
  LET timed == SelectSeq(clicks, LAMBDA c : c.took > 0)
  IN  IF Len(timed) < 3 THEN <<>> ELSE timed

MouseData(m) ==
  LET s == m.samples IN
  [count |-> Len(s), clicks |-> Len(m.clicks)]
  @@ IF Len(s) < 2 THEN [moves |-> {}]
     ELSE [moves |-> {<<Step(s, i), Gap(s, i)>> : i \in Moves(s)},
           accelerations |-> Cardinality(Accelerations(s)),
           jerks |-> Cardinality(Jerks(s)), turns |-> Cardinality(Turns(s)),
           straight |-> Straight(s), pauses |-> {Gap(s, i) : i \in Pauses(s)},
           tremor |-> Tremor(s), fitted |-> Fitted(m.clicks), hits |-> m.clicks,
           duration |-> Last(s).t - Head(s).t]

-----------------------------------------------------------------------------
(* ScrollCollector *)

NewScroll == [events |-> <<>>, depth |-> <<0, 1>>]

Deeper(depth, y, range) ==
  IF range > 0 /\ Min({y, range}) * depth[2] > depth[1] * range
    THEN <<Min({y, range}), range>> ELSE depth

AddPosition(c, y, range, t) ==
  IF c.events # <<>> /\ t <= Last(c.events).t THEN c
  ELSE [c EXCEPT !.depth = Deeper(@, y, range),
                 !.events = Kept(@, [y |-> y, t |-> t])]

Abs(n) == IF n < 0 THEN -n ELSE n

ScrollData(c) ==
  LET e == c.events
      dy(i) == e[i].y - e[i - 1].y
      gap(i) == e[i].t - e[i - 1].t
      slower == {i \in 3..Len(e) :
                   dy(i) # 0 /\ Abs(dy(i)) * gap(i - 1) < Abs(dy(i - 1)) * gap(i)}
      steps == SelectSeq([i \in 1..Max({0, Len(e) - 1}) |-> dy(i + 1)],
                         LAMBDA d : d # 0)
  IN  [count |-> Len(e), depth |-> c.depth,
       speeds |-> {<<Abs(dy(i)), gap(i)>> : i \in 2..Len(e)},
       turns |-> Cardinality({i \in 2..Len(steps) : steps[i] * steps[i - 1] < 0}),
       momentum |-> Cardinality({i \in slower :
                      \E a \in (i - 2)..i : a..(a + 2) \subseteq slower}),
       duration |-> IF e = <<>> THEN 0 ELSE Last(e).t - Head(e).t]

-----------------------------------------------------------------------------
(* TouchCollector: its list of touch points [type, x, t, touches] *)

AddTouch(events, point) == Kept(events, point)

\* The touch that ends with point i: from the last start since the last end.
Gesture(events, i) ==
  {j \in 1..(i - 1) :
     /\ events[j].type = "start" /\ events[i].type = "end"
     /\ \A k \in (j + 1)..(i - 1) : events[k].type = "move"}

Travelled(events, i, j) == Abs(events[i].x - events[j].x)

TouchData(events) ==
  LET ended(far(_, _)) ==
        {i \in DOMAIN events : \E j \in Gesture(events, i) : far(i, j)}
      swipe(i, j) == Travelled(events, i, j) > 30 /\ events[i].t > events[j].t
      tap(i, j) == ~swipe(i, j) /\ Travelled(events, i, j) < 10
  IN  [count |-> Len(events), swipes |-> Cardinality(ended(swipe)),
       taps |-> Cardinality(ended(tap)),
       multi |-> Cardinality({i \in DOMAIN events : events[i].touches > 1}),
       duration |-> IF events = <<>> THEN 0 ELSE Last(events).t - Head(events).t]
=============================================================================
