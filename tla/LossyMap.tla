------------------------------ MODULE LossyMap ------------------------------
(***************************************************************************)
(* What a caller of the bounded map may rely on, with the generations left *)
(* out: a map that answers a read with the last value set for the key, and *)
(* that may forget other keys, but only while a key is set or read.         *)
(***************************************************************************)
CONSTANTS Keys, Values, NoValue

VARIABLES
  map,      \* partial function from Keys to Values
  call,     \* the last call, and
  answer    \* what it returned, if it was a get()

lossyVars == <<map, call, answer>>

Forgetting(S) == [k \in DOMAIN map \ S |-> map[k]]

Init ==
  /\ map = [k \in {} |-> NoValue]
  /\ call = [op |-> "none"]
  /\ answer = NoValue

\* Any set of other keys may be forgotten while k is inserted.
Set(k, v) ==
  /\ call' = [op |-> "set", key |-> k, value |-> v]
  /\ answer' = NoValue
  /\ \E S \in SUBSET (DOMAIN map \ {k}) :
       map' = [x \in (DOMAIN map \ S) \cup {k} |-> IF x = k THEN v ELSE map[x]]

\* A present key is answered with its value and survives its own read.
Get(k) ==
  /\ call' = [op |-> "get", key |-> k]
  /\ answer' = IF k \in DOMAIN map THEN map[k] ELSE NoValue
  /\ \E S \in SUBSET (DOMAIN map \ {k}) : map' = Forgetting(S)
  /\ k \notin DOMAIN map => UNCHANGED map

Delete(k) ==
  /\ map' = Forgetting({k})
  /\ call' = [op |-> "delete", key |-> k]
  /\ answer' = NoValue

Clear ==
  /\ map' = [k \in {} |-> NoValue]
  /\ call' = [op |-> "clear"]
  /\ answer' = NoValue

Next ==
  \/ \E k \in Keys, v \in Values : Set(k, v)
  \/ \E k \in Keys : Get(k) \/ Delete(k)
  \/ Clear

Spec == Init /\ [][Next]_lossyVars
=============================================================================
