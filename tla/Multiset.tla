------------------------------- MODULE Multiset -------------------------------
(***************************************************************************)
(* What a counting search tree promises: a number of occurrences for each  *)
(* value.                                                                  *)
(***************************************************************************)
EXTENDS Naturals

CONSTANT Values

VARIABLE count

\* Nothing, or one value
Init == \E S \in SUBSET Values :
          /\ \A v, w \in S : v = w
          /\ count = [v \in Values |-> IF v \in S THEN 1 ELSE 0]

Insert(v) == count' = [count EXCEPT ![v] = @ + 1]

Remove(v) == count' = [count EXCEPT ![v] = IF @ = 0 THEN 0 ELSE @ - 1]

Drop(v) == count' = [count EXCEPT ![v] = 0]

Clear == count' = [v \in Values |-> 0]

Next == Clear \/ \E v \in Values : Insert(v) \/ Remove(v) \/ Drop(v)

Spec == Init /\ [][Next]_count
=============================================================================
