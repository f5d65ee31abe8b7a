---------------------------- MODULE AdaptiveLimiter ----------------------------
(***************************************************************************)
(* AdaptiveRateLimiter (core/src/modules/rate-limiter): counts requests,   *)
(* compares each interval with the recent ones and makes requests cost     *)
(* more while traffic is far above them.  The bucket and the window it     *)
(* charges are modules of their own.                                       *)
(***************************************************************************)
EXTENDS Integers, Sequences

CONSTANTS
  HistorySize,     \* intervals remembered (60)
  Rates,           \* bound: requests in an interval
  MaxBusy          \* bound: intervals of the history with requests

\* An attack ends within eleven relaxations, and they need a history in which
\* the attack is still remembered.
ASSUME AdaptiveAssumption ==
  HistorySize \in Nat /\ HistorySize > 11 /\ Rates \subseteq Nat

VARIABLES
  counted,         \* requests since the last analysis
  rates,           \* trafficHistory
  multiplier,      \* currentMultiplier, in tenths; during an attack, 10 is
                   \* what binary fractions make of it: a hair above 1.0
  attack,          \* isAttackMode
  idle             \* history: intervals without a request, until now

adaptiveVars == <<counted, rates, multiplier, attack, idle>>

AdaptiveInit ==
  counted = 0 /\ rates = <<>> /\ multiplier = 10 /\ attack = FALSE /\ idle = 0

-----------------------------------------------------------------------------
\* check(): the request is counted; what it costs in the token bucket.
Cost == IF multiplier > 10 \/ (multiplier = 10 /\ attack) THEN 2 ELSE 1

\* The requests of an interval.
Check ==
  /\ counted = 0 /\ Len(SelectSeq(rates, LAMBDA n : n > 0)) < MaxBusy
  /\ counted' \in Rates \ {0}
  /\ UNCHANGED <<rates, multiplier, attack, idle>>

\* reduce((a, b) => a + b)
Sums(numbers) ==
  LET sum[i \in 0..Len(numbers)] == IF i = 0 THEN 0 ELSE sum[i - 1] + numbers[i]
  IN  sum
Total(numbers) == Sums(numbers)[Len(numbers)]

\* Mutant: the attack is over with the first step back.
CalmAtOnce == {FALSE}

\* tightenLimits() and relaxLimits()
Tightened == IF multiplier + 5 < 30 THEN multiplier + 5 ELSE 30
Relaxed == IF multiplier - 2 > 10 THEN multiplier - 2 ELSE 10

\* relaxLimits() compares with 1.0: 1.2 - 0.2 may be it or a hair above it.
AttackGoesOn == IF multiplier = 12 THEN BOOLEAN ELSE {Relaxed > 10}

\* analyzeTraffic(), with the default sensitivity of two standard deviations.
\* Rates are compared exactly, where the code rounds their mean and deviation.
\* With n rates of sum s, n * deviation = sqrt(n * squares - s^2).
AnalyzeTraffic ==
  LET all == Append(rates, counted)
      kept == IF Len(all) > HistorySize THEN Tail(all) ELSE all
      n == Len(kept)
      s == Total(kept)
      spread == n * Total([i \in DOMAIN kept |-> kept[i] * kept[i]]) - s * s
      above == n * counted - s             \* n * (rate - mean)
      short == 10 * n - s                 \* n * (10 - mean)
      spike == /\ above > 0 /\ above * above > 4 * spread
               /\ short < 0 \/ 4 * spread > short * short
      normal == above < 0 \/ above * above < spread
  IN
  /\ rates' = kept /\ counted' = 0
  /\ idle' = IF counted > 0 THEN 0 ELSE IF idle < 11 THEN idle + 1 ELSE idle
  /\ IF n >= 5 /\ spike
       THEN attack' = TRUE /\ multiplier' = Tightened
       ELSE IF n >= 5 /\ attack /\ normal
       THEN multiplier' = Relaxed /\ attack' \in AttackGoesOn
       ELSE UNCHANGED <<attack, multiplier>>

AdaptiveNext == Check \/ AnalyzeTraffic
AdaptiveSpec == AdaptiveInit /\ [][AdaptiveNext]_adaptiveVars

-----------------------------------------------------------------------------
AdaptiveTypeOK ==
  /\ counted \in Rates \cup {0} /\ Len(rates) <= HistorySize
  /\ multiplier \in 10..30 /\ attack \in BOOLEAN /\ idle \in 0..11

\* "Limits relax to avoid false positives": requests cost more exactly while
\* an attack is on, and whatever the traffic was, every interval without any
\* request relaxes the limits by a step, so that no attack outlasts eleven of
\* them - although the comparison is strict, so that traffic as even as the
\* whole history never relaxes anything.
AttackEnds ==
  /\ Cost = 2 <=> attack
  /\ attack => multiplier + 2 * idle <= 30
=============================================================================
