----------------------------- MODULE EagerBucket -----------------------------
(***************************************************************************)
(* What a token bucket promises, with laziness, storage and cleanup left   *)
(* out: every key has a level that rises by Refill per tick up to          *)
(* Capacity, and a request is allowed exactly when the level covers its    *)
(* cost.  So the cost allowed to a key over any d ticks is at most         *)
(* Capacity + Refill * d, as long as the key is not forgotten.             *)
(***************************************************************************)
EXTENDS Integers

CONSTANTS Keys, Capacity, Refill, Costs, NoAnswer

VARIABLES
  level,    \* level[k] in 0..Capacity
  answer    \* the last call and what it returned

eagerVars == <<level, answer>>

AtMostCapacity(x) == IF x <= Capacity THEN x ELSE Capacity

Init == level = [k \in Keys |-> Capacity] /\ answer = NoAnswer

\* Forgetting a key fills its bucket.
Filled(S) == [k \in Keys |-> IF k \in S THEN Capacity ELSE level[k]]

\* While a key is used, others may be forgotten.
Request(k, c) ==
  /\ \E S \in SUBSET (Keys \ {k}) :
       level' = [Filled(S) EXCEPT ![k] = IF level[k] >= c THEN @ - c ELSE @]
  /\ answer' = [op |-> "isAllowed", key |-> k, cost |-> c,
                allowed |-> level[k] >= c, remaining |-> level'[k]]

Look(k) ==
  /\ \E S \in SUBSET (Keys \ {k}) : level' = Filled(S)
  /\ answer' = [op |-> "getStatus", key |-> k, tokens |-> level[k]]

Reset(k) == level' = Filled({k}) /\ answer' = [op |-> "reset", key |-> k]

ResetAll == level' = Filled(Keys) /\ answer' = [op |-> "resetAll"]

Tick ==
  /\ level' = [k \in Keys |-> AtMostCapacity(level[k] + Refill)]
  /\ UNCHANGED answer

Next ==
  \/ \E k \in Keys, c \in Costs : Request(k, c)
  \/ \E k \in Keys : Look(k) \/ Reset(k)
  \/ ResetAll
  \/ Tick

Spec == Init /\ [][Next]_eagerVars
=============================================================================
