------------------------------ MODULE BotBehavior ------------------------------
(***************************************************************************)
(* BotBehaviorAnalyzer.ts: the requests kept for one session, the statuses *)
(* attached to them, and the patterns looked for.  Module RequestFlow     *)
(* uses the history with overlapping requests; module VisitPatterns lets a *)
(* session visit pages in any order.                                       *)
(*                                                                         *)
(* A path is [template, id]; id is NoId for a path without a number.       *)
(***************************************************************************)
EXTENDS Integers, Sequences, FiniteSets, FiniteSetsExt

CONSTANTS
  HistorySize,       \* requests kept (100)
  RegularPages,      \* pages before intervals are judged (8)
  GapsKept,          \* intervals looked at (20)
  SlowMean,          \* mean interval from which they are not judged (1 minute)
  LongRun,           \* pages that make a sequence (5)
  BreadthPages,      \* pages before breadth is judged (30)
  FastSpan,          \* time within which they are fast (5 minutes)
  ProbingAnswers,    \* answers before errors are judged (10)
  RefererPages,      \* pages before referers and assets are judged (5)
  ExpectAssets,      \* an option, off by default
  NoId, NoStatus

BehaviorAssumption ==
  /\ {HistorySize, RegularPages, GapsKept, LongRun, BreadthPages,
      ProbingAnswers, RefererPages} \subseteq Nat \ {0, 1}
  /\ {SlowMean, FastSpan} \subseteq Nat /\ ExpectAssets \in BOOLEAN
  /\ NoId \notin Nat

-----------------------------------------------------------------------------
(* The history of a session *)

\* observe(): the request is appended, the oldest one dropped.
Observed(history, request) ==
  LET all == Append(history, request)
  IN  IF Len(all) > HistorySize THEN Tail(all) ELSE all

\* Mutant: the status goes to the oldest request that has none.
AnsweredOldest(history, status) ==
  LET open == {i \in DOMAIN history : history[i].status = NoStatus}
  IN  IF open = {} THEN history
      ELSE [history EXCEPT ![Min(open)].status = status]

\* recordResponse(): the status of the session's latest request.
Answered(history, status) ==
  IF history # <<>> /\ history[Len(history)].status = NoStatus
    THEN [history EXCEPT ![Len(history)].status = status]
    ELSE history

-----------------------------------------------------------------------------
(* The patterns *)

\* The pages among the requests, in their order.
Pages(history) ==
  LET pages[i \in 0..Len(history)] ==
        IF i = 0 THEN <<>>
        ELSE IF history[i].kind = "page" THEN Append(pages[i - 1], history[i])
        ELSE pages[i - 1]
  IN  pages[Len(history)]
Paths(pages) == [i \in DOMAIN pages |-> pages[i].path]

\* longestSequentialRun(): one pass over the paths, with the current run, its
\* step (0: none yet; negative in a run that falls) and the longest run so far.
Sequel(prev, cur) ==
  /\ prev.id # NoId /\ cur.id # NoId
  /\ prev.template = cur.template /\ prev.id # cur.id

\* Mutant: a change of step starts the run anew, without the pair that showed it.
ForgetfulRun(scan, cur) ==
  LET d == cur.id - scan.prev.id
      run == IF ~Sequel(scan.prev, cur) THEN 1
             ELSE IF scan.step \in {0, d} THEN scan.run + 1 ELSE 1
  IN  [prev |-> cur, run |-> run,
       step |-> IF run = 1 THEN 0 ELSE d,
       best |-> Max({scan.best, run})]

\* The run goes on, ends, or begins anew with the pair that changes the step.
NextRun(scan, cur) ==
  LET d == cur.id - scan.prev.id
      run == IF ~Sequel(scan.prev, cur) THEN 1
             ELSE IF scan.step = d THEN scan.run + 1 ELSE 2
  IN  [prev |-> cur, run |-> run,
       step |-> IF run = 1 THEN 0 ELSE d,
       best |-> Max({scan.best, run})]
NoPath == [template |-> NoId, id |-> NoId]
LongestRun(paths) ==
  LET scan[i \in 0..Len(paths)] ==
        IF i = 0 THEN [prev |-> NoPath, run |-> 1, step |-> 0, best |-> 1]
        ELSE NextRun(scan[i - 1], paths[i])
  IN  scan[Len(paths)].best

\* The latest intervals have a mean below a minute, and their variation is less
\* than 0.15 of it: (standard deviation / mean)^2 < 9/400, in integers.
Regular(pages) ==
  LET all == [i \in 1..(Len(pages) - 1) |-> pages[i + 1].t - pages[i].t]
      gaps == SubSeq(all, Max({1, Len(all) - GapsKept + 1}), Len(all))
      s == SumFunction(gaps)
      squares == SumFunction([i \in DOMAIN gaps |-> gaps[i] * gaps[i]])
  IN  /\ s > 0 /\ s < SlowMean * Len(gaps)
      /\ 400 * (Len(gaps) * squares - s * s) < 9 * s * s

\* Nine in ten pages were not seen before, at a fast pace.
Crawls(pages) ==
  /\ Len(pages) >= BreadthPages
  /\ 10 * Cardinality({pages[i].path : i \in DOMAIN pages}) > 9 * Len(pages)
  /\ pages[Len(pages)].t - pages[1].t < FastSpan

\* More than half of the answered requests ended in a client error.
Probes(history) ==
  LET answered == SelectSeq(history, LAMBDA r : r.status # NoStatus)
      errors == SelectSeq(answered, LAMBDA r : r.status = "4xx")
  IN  Len(answered) >= ProbingAnswers /\ 2 * Len(errors) > Len(answered)

\* analyze(): the signals for the session so far.
Signals(history) ==
  LET pages == Pages(history)
      when(condition, signal) == IF condition THEN {signal} ELSE {}
  IN  when(Len(pages) >= RegularPages /\ Regular(pages), "timer_regular")
      \cup when(LongestRun(Paths(pages)) >= LongRun, "sequential_ids")
      \cup when(Crawls(pages), "crawl_breadth")
      \cup when(Probes(history), "error_probing")
      \cup when(/\ Len(pages) >= RefererPages
                /\ \A i \in 2..Len(pages) : ~pages[i].referer, "no_referer")
      \cup when(/\ ExpectAssets /\ Len(pages) >= RefererPages
                /\ \A i \in DOMAIN history : history[i].kind # "asset",
                "no_assets")
=============================================================================
