----------------------------- MODULE SortedList -----------------------------
(***************************************************************************)
(* What Common::SortedArray promises (Common/Containers/SortedArray.h,     *)
(* lines 26-47): a list kept in order without duplicates, from which an    *)
(* element is removed by its value or by its index. Such a list is known   *)
(* by its elements and their order: the index of an element is the number  *)
(* of elements before it. SortedArray implements it with a tree.           *)
(***************************************************************************)
EXTENDS Integers, FiniteSets

CONSTANT Values     \* the values a list may hold

VARIABLES
  elements,  \* the elements of the list
  order      \* "<", or its reverse, ">"

vars == <<elements, order>>

IsBefore(x, y) == IF order = "<" THEN x < y ELSE y < x

IndexIs(x, index) == Cardinality({y \in elements : IsBefore(y, x)}) = index

Init == elements = {} /\ order = "<"

Insert(v) == elements' = elements \cup {v} /\ UNCHANGED order

RemoveValue(v) == elements' = elements \ {v} /\ UNCHANGED order

RemoveFromIndex(index) ==
  /\ \E x \in elements : IndexIs(x, index) /\ elements' = elements \ {x}
  /\ UNCHANGED order

Clear == elements' = {} /\ UNCHANGED order

SetSortedFunction(lt) == order' = lt /\ UNCHANGED elements

Next ==
  \/ \E v \in Values : Insert(v) \/ RemoveValue(v)
  \/ \E index \in 0 .. Cardinality(elements) - 1 : RemoveFromIndex(index)
  \/ Clear
  \/ \E lt \in {"<", ">"} : SetSortedFunction(lt)

Spec == Init /\ [][Next]_vars
=============================================================================
