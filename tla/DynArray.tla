------------------------------ MODULE DynArray ------------------------------
(***************************************************************************)
(* util/da.c: the growing array that every list of LTF is kept in, and     *)
(* the list it stands for (DynList).  A block of memory is a function from *)
(* the cells 0 .. capacity - 1; malloc and realloc may refuse.             *)
(***************************************************************************)
EXTENDS Integers, Sequences

CONSTANTS
  Elems,           \* elements
  Unset,           \* what is in a cell that nobody wrote
  ElemSize,        \* elem_size
  SizeMax,         \* SIZE_MAX
  InitCapacities   \* what the callers give to da_init

ASSUME UnsetAssumption == Unset \notin Elems
ASSUME SizesAssumption == ElemSize \in Nat \ {0} /\ SizeMax \in Nat \ {0}
ASSUME InitAssumption  == InitCapacities \subseteq Nat

VARIABLES
  cells,     \* data
  size, capacity,
  outside    \* whether the size has left the capacity

arrayVars == <<cells, size, capacity, outside>>

Value       == Elems \cup {Unset}
Block(n)    == [0 .. n - 1 -> Value]
Untouched   == UNCHANGED arrayVars

\* da_init.
ArrayInit ==
  /\ capacity \in InitCapacities
  /\ cells = [i \in 0 .. capacity - 1 |-> Unset]
  /\ size = 0
  /\ outside = FALSE

\* The block after realloc to n cells, more than it had.
Grown(n) == [i \in 0 .. n - 1 |-> IF i < capacity THEN cells[i] ELSE Unset]

\* da_reserve for more than there is: the product of the sizes is checked.
Reserved(n) ==
  /\ n <= SizeMax \div ElemSize
  /\ capacity' = n
  /\ cells' = Grown(n)

\* da_grow_for_one; doubling wraps around.
Doubled == IF capacity = 0 THEN 1 ELSE (capacity * 2) % (SizeMax + 1)

\* da_append, with room, with a larger block, or refused.
AppendInPlace(e) ==
  /\ size < capacity
  /\ cells' = [cells EXCEPT ![size] = e]
  /\ size' = size + 1
  /\ UNCHANGED <<capacity, outside>>

AppendGrown(e) ==
  /\ size >= capacity
  /\ Doubled > capacity /\ Doubled <= SizeMax \div ElemSize
  /\ capacity' = Doubled
  /\ cells' = [Grown(Doubled) EXCEPT ![size] = e]
  /\ size' = size + 1
  /\ UNCHANGED outside

AppendRefused == size >= capacity /\ Untouched

\* da_set.
Set(i, e) ==
  /\ i < size
  /\ cells' = [cells EXCEPT ![i] = e]
  /\ UNCHANGED <<size, capacity, outside>>

\* Mutant: the last element is not moved.
ClosedShort(i) ==
  [j \in 0 .. capacity - 1 |-> IF i <= j /\ j < size - 2 THEN cells[j + 1] ELSE cells[j]]

\* The memmove over the element at i.
Closed(i) ==
  [j \in 0 .. capacity - 1 |-> IF i <= j /\ j < size - 1 THEN cells[j + 1] ELSE cells[j]]

\* da_remove, and da_pop, which copies the element out first.
RemoveElement(i) ==
  /\ i < size
  /\ cells' = Closed(i)
  /\ size' = size - 1
  /\ UNCHANGED <<capacity, outside>>

\* da_reserve.
Reserve(n) == n > capacity /\ Reserved(n) /\ UNCHANGED <<size, outside>>

\* da_resize does not look at what da_reserve returns.
Resize(n) ==
  /\ n > size
  /\ size' = n
  /\ \/ n <= capacity /\ UNCHANGED <<cells, capacity, outside>>
     \/ n > capacity /\ Reserved(n) /\ UNCHANGED outside
     \/ n > capacity /\ outside' = TRUE /\ UNCHANGED <<cells, capacity>>

\* da_clear.
Clear == size' = 0 /\ UNCHANGED <<cells, capacity, outside>>

\* Sizes that are asked for.
Sizes == 1 .. SizeMax \div ElemSize + 1

\* What happens to an array whose size has left its block is undefined.
ArrayNext ==
  \/ /\ ~outside
     /\ \/ \E e \in Elems : AppendInPlace(e) \/ AppendGrown(e)
        \/ AppendRefused
        \/ \E i \in 0 .. size - 1 : RemoveElement(i) \/ \E e \in Elems : Set(i, e)
        \/ \E n \in Sizes : Reserve(n) \/ Resize(n)
        \/ Clear
  \/ outside /\ Untouched

ArraySpec == ArrayInit /\ [][ArrayNext]_arrayVars

-----------------------------------------------------------------------------
\* Every variable stays in its type, and the elements in their block as long
\* as no growing da_resize was refused its memory.
ArrayTypeOK ==
  /\ capacity \in Nat /\ size \in Nat /\ outside \in BOOLEAN
  /\ cells \in Block(capacity)
  /\ ~outside => size <= capacity

\* The elements, in order.
Contents == [j \in 1 .. size |-> IF j <= capacity THEN cells[j - 1] ELSE Unset]

Listed == INSTANCE DynList WITH Values <- Value, list <- Contents

\* Through every growth, refusal and removal the array is the list it stands
\* for: nothing is lost, doubled or reordered.
KeepsList == Listed!Spec
=============================================================================
