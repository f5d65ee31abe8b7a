-------------------------- MODULE PartialFunctions --------------------------
(***************************************************************************)
(* JavaScript Maps and plain objects as partial functions: a function      *)
(* whose domain is the set of keys present; arrays that keep the newest    *)
(* entries as sequences.                                                   *)
(***************************************************************************)
EXTENDS Integers, Sequences

\* No entry, one entry set, the entries of S removed.
NoEntries == [k \in {} |-> k]
Put(f, k, v) == [x \in DOMAIN f \cup {k} |-> IF x = k THEN v ELSE f[x]]
Without(f, S) == [x \in DOMAIN f \ S |-> f[x]]

\* The array with its oldest entries dropped beyond cap.
NewestOnly(list, cap) ==
  IF Len(list) > cap THEN SubSeq(list, Len(list) - cap + 1, Len(list)) ELSE list
=============================================================================
