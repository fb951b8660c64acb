------------------------------- MODULE DynList -------------------------------
(***************************************************************************)
(* What util/da.h promises of a dynamic array: a list that grows and       *)
(* shrinks one element at a time and keeps the order of the others.        *)
(***************************************************************************)
EXTENDS Naturals, Sequences

CONSTANT Values  \* what an element may be

VARIABLE list

Init == list = << >>

\* list without its element at place i.
Without(i) == [j \in 1 .. Len(list) - 1 |-> IF j < i THEN list[j] ELSE list[j + 1]]

Add(value)        == list' = Append(list, value)
Replace(i, value) == list' = [list EXCEPT ![i] = value]
Delete(i)         == list' = Without(i)

\* More elements, whatever they are.
Extend ==
  /\ list' \in Seq(Values)
  /\ Len(list') > Len(list)
  /\ \A j \in 1 .. Len(list) : list'[j] = list[j]

Clear == list' = << >>

Next ==
  \/ \E value \in Values : Add(value)
  \/ \E i \in 1 .. Len(list) : Delete(i) \/ \E value \in Values : Replace(i, value)
  \/ Extend
  \/ Clear

Spec == Init /\ [][Next]_list
=============================================================================
