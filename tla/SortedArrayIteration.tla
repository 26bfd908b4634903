------------------------- MODULE SortedArrayIteration -------------------------
(***************************************************************************)
(* The iterators of Common::SortedArray (Common/Containers/SortedArray.h)  *)
(* and the search of the size index that uses them                         *)
(* (FileManager/priv/SizeIndexEntries.cpp). A position is the path to a    *)
(* node and a position in it. Nothing here changes the array.              *)
(***************************************************************************)
EXTENDS SortedArray

RECURSIVE NodeAt(_, _)
NodeAt(n, path) ==
  IF path = <<>> THEN n ELSE NodeAt(Child(n, Head(path)), Tail(path))

ItemAt(n, place) == Item(NodeAt(n, place.path), place.at)

(* The paths from a node to its leftmost and rightmost leaves. *)
LeftmostPath(n) == Descent(Start(n), ToFirst).path

RightmostPath(n) == Descent(Start(n), ToLast).path

End(n) ==
  LET path == RightmostPath(n) IN [path |-> path, at |-> NbItems(NodeAt(n, path))]

(* The next position to the right: down to the leftmost leaf of the next   *)
(* child, or along the node, or up to the first parent with an item after. *)
NextPosition(n, place) ==
  LET node == NodeAt(n, place.path)
      after == place.at + 1
      up == {k \in 1 .. Len(place.path) :
               place.path[k] < NbItems(NodeAt(n, SubSeq(place.path, 1, k - 1)))}
      k == CHOOSE x \in up : \A y \in up : y <= x
  IN  IF HasChildren(node)
      THEN [path |-> place.path \o <<after>> \o LeftmostPath(Child(node, after)), at |-> 0]
      ELSE IF after < NbItems(node) THEN [place EXCEPT !.at = after]
      ELSE IF up # {} THEN [path |-> SubSeq(place.path, 1, k - 1), at |-> place.path[k]]
      ELSE [place EXCEPT !.at = after]

Begin(n) == [path |-> LeftmostPath(n), at |-> 0]

(* The elements an iterator goes through from a position to the end. *)
RECURSIVE Iterated(_, _)
Iterated(n, place) ==
  IF place = End(n) THEN <<>>
  ELSE <<ItemAt(n, place)>> \o Iterated(n, NextPosition(n, place))

(* The previous position from a place of a leaf, p = -1 when there is none. *)
PreviousPosition(place) ==
  LET up == {k \in 1 .. Len(place.path) : place.path[k] > 0}
      k  == CHOOSE x \in up : \A y \in up : y <= x
  IN  IF place.at > 0 THEN [place EXCEPT !.at = @ - 1]
      ELSE IF up # {} THEN [path |-> SubSeq(place.path, 1, k - 1), at |-> place.path[k] - 1]
      ELSE [place EXCEPT !.at = -1]

(* From where a search arrived: there when the value is found, or when     *)
(* nothing is before.                                                      *)
Nearest(here, exists) ==
  LET previous == PreviousPosition(here)
  IN  IF exists \/ previous.at = -1 THEN here ELSE previous

(* The place of v or, when absent, of the element before it or else of the *)
(* first one.                                                              *)
PositionOfNearest(lt, n, v) ==
  LET w     == Descent(Start(n), ToValue(lt, v))
      found == GetPosition(lt, Here(w), v)
  IN  Nearest([path |-> w.path, at |-> found.at], found.exists)

(* SizeIndexEntries::search: the entries are ordered by size, then by hash *)
(* (here the last bit); the one searched for has a size and any hash. An   *)
(* empty array is not searched.                                            *)
Size(entry) == entry \div 2

SizeSearchUnskipped(n, searchEntry) ==   \* MUTANT of SizeSearch
  IF n.size = 0 THEN <<>>
  ELSE Iterated(n, PositionOfNearest("<", n, searchEntry))

SizeSearch(n, searchEntry) ==
  LET from(i) == IF Size(ItemAt(n, i)) < Size(searchEntry) THEN NextPosition(n, i) ELSE i
  IN  IF n.size = 0 THEN <<>>
      ELSE Iterated(n, from(PositionOfNearest("<", n, searchEntry)))

-----------------------------------------------------------------------------
(* Properties. *)

(* An iterator that starts at the first element goes through all of them,  *)
(* in order, and arrives at end(); the nearest iterator to an absent value *)
(* is on the element just before it, or on the first one.                  *)
IteratesOver(list) ==
  LET nearest(before) == list[IF before = 0 THEN 1 ELSE before]
  IN  /\ Iterated(root, Begin(root)) = list
      /\ \A v \in Values \ ToSet(list) : list # <<>> =>
           ItemAt(root, PositionOfNearest(lesserThan, root, v)) =
             nearest(Cardinality({x \in ToSet(list) : Lesser(lesserThan, x, v)}))

(* A search by size, in the order of the index, finds every entry larger   *)
(* than the least size and none that is smaller. (Entries of exactly this  *)
(* size may be missed: the hash of the search entry is not below theirs.)  *)
FindsTheLarger(list, found, least) ==
  LET larger(s) == SelectSeq(s, LAMBDA x : Size(x) > least)
  IN  (\A i \in DOMAIN found : Size(found[i]) >= least) /\ larger(found) = larger(list)

(* The iterators go through the elements, and a search by size finds what  *)
(* it should wherever the search entry falls.                              *)
IterationFinds ==
  /\ IteratesOver(Elements(root))
  /\ lesserThan = "<" =>
       \A e \in Values : FindsTheLarger(Elements(root), SizeSearch(root, e), Size(e))
=============================================================================
