----------------------------- MODULE VisitPatterns -----------------------------
(***************************************************************************)
(* One session visits pages; the patterns that BotBehavior finds step by   *)
(* step are compared with what they mean.                                  *)
(***************************************************************************)
EXTENDS BotBehavior

CONSTANTS Templates, PageIds, Gaps, MaxVisits

ASSUME VisitAssumption ==
  BehaviorAssumption /\ PageIds \subseteq Nat /\ Gaps \subseteq Nat

VARIABLES
  clock, history, visits,
  reported                      \* the signals of the latest request

visitVars == <<clock, history, visits, reported>>

VisitInit == clock = 0 /\ history = <<>> /\ visits = 0 /\ reported = {}

\* observe() some time after the previous request; a page's answer is reported
\* or not.
Visit ==
  /\ visits < MaxVisits
  /\ visits' = visits + 1
  /\ \E gap \in Gaps, kind \in {"page", "asset"} :
     \E template \in Templates,
        id \in IF kind = "page" THEN PageIds \cup {NoId} ELSE {NoId},
        status \in IF kind = "page" THEN {"4xx", NoStatus} ELSE {NoStatus} :
       LET observed ==
             Observed(history,
               [t |-> clock + gap, path |-> [template |-> template, id |-> id],
                kind |-> kind, referer |-> FALSE, status |-> NoStatus])
       IN  /\ clock' = clock + gap
           /\ reported' = Signals(observed)
           /\ history' = Answered(observed, status)

VisitSpec == VisitInit /\ [][Visit]_visitVars

-----------------------------------------------------------------------------
\* Consecutive pages that differ only by a number that changes by one step.
Sequence(paths) ==
  /\ \A i \in 2..Len(paths) : Sequel(paths[i - 1], paths[i])
  /\ \A i \in 3..Len(paths) :
       paths[i].id - paths[i - 1].id = paths[2].id - paths[1].id

\* ">= 5 consecutive pages whose trailing number changes by a constant step"
\* (THESIS_NOTES.md:226): the single pass finds the longest such run, whether
\* the numbers rise or fall, among all runs of consecutive pages, where one run
\* ends and the next begins with the same page included, and a sequence is
\* reported exactly when the pages that are kept contain one that is long enough.
\* (The comment at BotBehaviorAnalyzer.ts:76 says "increasing" only; the code
\* counts /p/3, /p/2, /p/1 as well.)
RunIsLongest ==
  LET paths == Paths(Pages(history))
      runs == {n \in DOMAIN paths :
                 \E i \in 1..(Len(paths) - n + 1) :
                   Sequence(SubSeq(paths, i, i + n - 1))}
  IN  /\ paths # <<>> => LongestRun(paths) = Max(runs)
      /\ ("sequential_ids" \in reported) <=> (\E n \in runs : n >= LongRun)
=============================================================================
