---------------------------- MODULE SortedArray ----------------------------
(***************************************************************************)
(* Common::SortedArray<T, M> (Common/Containers/SortedArray.h): a B-tree   *)
(* of order M whose nodes know the size of their subtree, so that it can   *)
(* be read as an array. A node is a record of its items, its children (the *)
(* empty sequence for a leaf) and the size it stores; the parent pointers  *)
(* are the nesting of the records. Positions count from 0 as in the code.  *)
(*                                                                         *)
(* Loops of the code, and recursions that go down or up one path, are      *)
(* functions of the turn.                                                  *)
(*                                                                         *)
(* The size is what the code stores, updated as the code updates it: it is *)
(* read by the indexed access and by the test for a leaf, and that it is   *)
(* the number of elements is a property.                                   *)
(***************************************************************************)
EXTENDS Integers, Sequences, SequencesExt, FiniteSets

CONSTANTS
  Values,   \* the values of T, integers
  Orders    \* the orders M of the trees

ASSUME ValuesAssumption == Values \subseteq Int

ASSUME OrdersAssumption == \A m \in Orders : m \in Nat /\ m % 2 = 1 /\ m > 1

VARIABLES
  M,          \* the template parameter of this array
  lesserThan, \* lesserThanFun: the order of the values, "<", or its reverse, ">"
  root        \* SortedArrayData::root

vars == <<M, lesserThan, root>>

Lesser(lt, x, y) == IF lt = "<" THEN x < y ELSE y < x

Node(items, children, size) ==
  [items |-> items, children |-> children, size |-> size]

EmptyNode == Node(<<>>, <<>>, 0)

NbItems(n) == Len(n.items)

Item(n, p) == n.items[p + 1]

Child(n, p) == n.children[p + 1]

HasChildren(n) == n.children # <<>>

(* The test of `remove` for a leaf: it has no item below its own ones. *)
IsLeaf(n) == NbItems(n) = n.size

(* The first k children; a leaf has none. *)
FirstOnes(k, children) == SubSeq(children, 1, IF k <= Len(children) THEN k ELSE Len(children))

SizeOf(children) ==
  LET total[k \in 0 .. Len(children)] ==
        IF k = 0 THEN 0 ELSE total[k - 1] + children[k].size
  IN  total[Len(children)]

-----------------------------------------------------------------------------
(* Lookups. *)

(* A turn of the binary search of getPosition: v is neither at i1 nor at   *)
(* i2, until it is found (then both are its position) or nothing is left   *)
(* between them.                                                           *)
BisectTurn(lt, items, v, w) ==
  LET i3 == (w.i1 + w.i2) \div 2
      x  == items[i3 + 1]
  IN  IF w.i1 + 1 >= w.i2 THEN w
      ELSE IF Lesser(lt, v, x) THEN [w EXCEPT !.i2 = i3]
      ELSE IF Lesser(lt, x, v) THEN [w EXCEPT !.i1 = i3]
      ELSE [i1 |-> i3, i2 |-> i3]

Bisect(lt, items, v) ==
  LET window[k \in 0 .. Len(items)] ==
        IF k = 0 THEN [i1 |-> 0, i2 |-> Len(items)]
        ELSE BisectTurn(lt, items, v, window[k - 1])
      end == window[Len(items)]
  IN  [at |-> end.i2, exists |-> end.i1 = end.i2]

GetPosition(lt, n, v) ==
  IF NbItems(n) = 0 \/ Lesser(lt, v, n.items[1]) THEN [at |-> 0, exists |-> FALSE]
  ELSE IF Lesser(lt, Last(n.items), v) THEN [at |-> NbItems(n), exists |-> FALSE]
  ELSE IF ~Lesser(lt, n.items[1], v) THEN [at |-> 0, exists |-> TRUE]
  ELSE Bisect(lt, n.items, v)

(* MUTANT of Before: the child just before the position is not counted. *)
BeforeShort(n, p) == p + SizeOf(FirstOnes(p - 1, n.children))

(* The number of elements before the position p of a node. *)
Before(n, p) == p + SizeOf(FirstOnes(p, n.children))

(* The position of the index-th element of a node: the first whose subtree *)
(* or item reaches past the index; it exists when it is the item.          *)
IndexPosition(n, index) ==
  LET i == CHOOSE p \in 0 .. NbItems(n) :
             /\ index < Before(n, p + 1)
             /\ \A q \in 0 .. p - 1 : Before(n, q + 1) <= index
  IN  [at |-> i, exists |-> ~HasChildren(n) \/ index >= Before(n, i) + Child(n, i).size]

(* A way down from the root: the nodes it goes through, the positions of   *)
(* the children it takes, and the number of elements before the last node  *)
(* (nbItemsBefore).                                                        *)
Start(n) == [nodes |-> <<n>>, path |-> <<>>, before |-> 0]

Here(w) == Last(w.nodes)

Down(w, p) == [nodes  |-> Append(w.nodes, Child(Here(w), p)),
               path   |-> Append(w.path, p),
               before |-> w.before + Before(Here(w), p)]

(* Where the four recursive lookups go in a node, and whether they stop. *)
ToValue(lt, v) == [to |-> "value", lt |-> lt, v |-> v]
ToIndex(index) == [to |-> "index", index |-> index]
ToFirst        == [to |-> "first"]
ToLast         == [to |-> "last"]

PositionFor(goal, n, before) ==
  CASE goal.to = "value" -> GetPosition(goal.lt, n, goal.v)
    [] goal.to = "index" -> IndexPosition(n, goal.index - before)
    [] goal.to = "first" -> [at |-> 0, exists |-> FALSE]
    [] goal.to = "last"  -> [at |-> NbItems(n), exists |-> FALSE]

DescentTurn(w, goal) ==
  LET found == PositionFor(goal, Here(w), w.before)
  IN  IF found.exists \/ ~HasChildren(Here(w)) THEN w ELSE Down(w, found.at)

(* A tree has no more levels below a node than the node has elements. *)
Descent(w, goal) ==
  LET down[k \in 0 .. Here(w).size] ==
        IF k = 0 THEN w ELSE DescentTurn(down[k - 1], goal)
  IN  down[Here(w).size]

(* The way to the node of v and the position of v in it; -1, at the leaf   *)
(* it belongs to, when absent.                                             *)
GetNode(lt, n, v) ==
  LET w     == Descent(Start(n), ToValue(lt, v))
      found == GetPosition(lt, Here(w), v)
  IN  [way |-> w, at |-> IF found.exists THEN found.at ELSE -1]

ContainsValue(lt, n, v) == GetNode(lt, n, v).at # -1

IndexOf(lt, n, v) ==
  LET w     == Descent(Start(n), ToValue(lt, v))
      found == GetPosition(lt, Here(w), v)
  IN  IF found.exists THEN w.before + Before(Here(w), found.at) ELSE -1

IndexOfNearest(lt, n, v) ==
  LET w      == Descent(Start(n), ToValue(lt, v))
      found  == GetPosition(lt, Here(w), v)
      before == w.before + Before(Here(w), found.at)
  IN  IF found.exists THEN before ELSE IF before = 0 THEN 0 ELSE before - 1

GetFromIndex(n, index) ==
  LET w == Descent(Start(n), ToIndex(index))
  IN  [way |-> w, at |-> IndexPosition(Here(w), index - w.before).at]

Get(n, index) ==
  LET place == GetFromIndex(n, index) IN Item(Here(place.way), place.at)

(* The array as it is read by index. *)
Elements(n) == [i \in 1 .. n.size |-> Get(n, i - 1)]

-----------------------------------------------------------------------------
(* Insertion. *)

(* Items and children of a node with v and the child at its right added,   *)
(* after the last item that is lesser.                                     *)
WithItem(lt, n, v, child) ==
  LET k == CHOOSE i \in 0 .. NbItems(n) :
             /\ i # 0 => Lesser(lt, n.items[i], v)
             /\ \A j \in i + 1 .. NbItems(n) : ~Lesser(lt, n.items[j], v)
  IN  [items    |-> InsertAt(n.items, k + 1, v),
       children |-> IF child = <<>> THEN n.children
                    ELSE InsertAt(n.children, k + 2, Head(child))]

(* A full node with v: the right half goes to a new node, which takes from *)
(* the size of this one what it receives; the median is left out.          *)
Split(lt, n, v, child) ==
  LET all  == WithItem(lt, n, v, child)
      half == (M - 1) \div 2
      kids == SubSeq(all.children, half + 2, Len(all.children))
      right == Node(SubSeq(all.items, half + 2, M), kids, half + SizeOf(kids))
  IN  [left   |-> Node(SubSeq(all.items, 1, half), FirstOnes(half + 1, all.children),
                       n.size - right.size),
       median |-> all.items[half + 1],
       right  |-> <<right>>]

(* The node after an addition and, if it was split, what its parent gets. *)
AddToNode(lt, n, v, child) ==
  IF NbItems(n) < M - 1
  THEN LET all == WithItem(lt, n, v, child)
       IN  [left |-> Node(all.items, all.children, n.size + 1), median |-> v, right |-> <<>>]
  ELSE Split(lt, n, v, child)

(* From the leaf at the end of a way up to the root: each node gets what   *)
(* its child was split into, or counts one more.                           *)
AddTurn(lt, w, v, k, below) ==
  LET n    == w.nodes[k]
      here == [n EXCEPT !.children[w.path[k] + 1] = below.left]
  IN  IF below.right = <<>>
      THEN [left |-> [here EXCEPT !.size = @ + 1], median |-> v, right |-> <<>>]
      ELSE AddToNode(lt, here, below.median, below.right)

AddAlong(lt, w, v) ==
  LET up[k \in 0 .. Len(w.path)] ==
        IF k = 0 THEN AddToNode(lt, Here(w), v, <<>>)
        ELSE AddTurn(lt, w, v, Len(w.path) + 1 - k, up[k - 1])
  IN  up[Len(w.path)]

Add(lt, w, v) ==
  LET added == AddAlong(lt, w, v)
  IN  IF added.right = <<>> THEN added.left
      ELSE Node(<<added.median>>, <<added.left>> \o added.right,
                1 + added.left.size + added.right[1].size)

Inserted(lt, n, v) ==
  LET place == GetNode(lt, n, v)
  IN  IF place.at # -1 THEN n ELSE Add(lt, place.way, v)

-----------------------------------------------------------------------------
(* Removal. *)

(* MUTANT of TakeFromRight: the size of the child that moves is forgotten. *)
TakeItemFromRight(n, p) ==
  LET node  == Child(n, p)
      right == Child(n, p + 1)
      moved == FirstOnes(1, right.children)
  IN  [n EXCEPT
        !.items[p + 1] = right.items[1],
        !.children[p + 1] = Node(Append(node.items, Item(n, p)), node.children \o moved,
                                 node.size + 1),
        !.children[p + 2] = Node(Tail(right.items), SubSeq(right.children, 2, Len(right.children)),
                                 right.size - 1)]

(* The position of the item of a node between its children p and p + 1 is p. *)
TakeFromRight(n, p) ==
  LET node  == Child(n, p)
      right == Child(n, p + 1)
      moved == FirstOnes(1, right.children)
      gain  == 1 + SizeOf(moved)
  IN  [n EXCEPT
        !.items[p + 1] = right.items[1],
        !.children[p + 1] = Node(Append(node.items, Item(n, p)), node.children \o moved,
                                 node.size + gain),
        !.children[p + 2] = Node(Tail(right.items), SubSeq(right.children, 2, Len(right.children)),
                                 right.size - gain)]

TakeFromLeft(n, p) ==
  LET node  == Child(n, p)
      left  == Child(n, p - 1)
      moved == SubSeq(left.children, NbItems(left) + 1, Len(left.children))
      gain  == 1 + SizeOf(moved)
  IN  [n EXCEPT
        !.items[p] = Last(left.items),
        !.children[p + 1] = Node(<<Item(n, p - 1)>> \o node.items, moved \o node.children,
                                 node.size + gain),
        !.children[p] = Node(Front(left.items), FirstOnes(NbItems(left), left.children),
                             left.size - gain)]

(* The children p and p + 1 and the item between them become one node, the *)
(* parent itself when it is the root and has no other item.                *)
Merge(n, p, isRoot) ==
  LET left  == Child(n, p)
      right == Child(n, p + 1)
      items == left.items \o <<Item(n, p)>> \o right.items
      kids  == left.children \o right.children
  IN  IF isRoot /\ NbItems(n) = 1 THEN Node(items, kids, n.size)
      ELSE Node(RemoveAt(n.items, p + 1),
                RemoveAt([n.children EXCEPT ![p + 1] = Node(items, kids, left.size + 1 + right.size)],
                         p + 2),
                n.size)

(* MUTANT of Rebalance: a neighbour with one item to spare is not enough. *)
RebalanceByMerging(n, p, isRoot) ==
  IF NbItems(Child(n, p)) >= M \div 2 THEN n
  ELSE Merge(n, IF p < NbItems(n) THEN p ELSE p - 1, isRoot)

(* The child p of a node has lost an item. *)
Rebalance(n, p, isRoot) ==
  LET spare(q) == q \in 0 .. NbItems(n) /\ NbItems(Child(n, q)) > M \div 2
  IN  IF NbItems(Child(n, p)) >= M \div 2 THEN n
      ELSE IF spare(p + 1) THEN TakeFromRight(n, p)
      ELSE IF spare(p - 1) THEN TakeFromLeft(n, p)
      ELSE Merge(n, IF p < NbItems(n) THEN p ELSE p - 1, isRoot)

(* The item at a position of the leaf at the end of a way is removed: each *)
(* node of the way counts one less, then the nodes are rebalanced from the *)
(* leaf up.                                                                *)
RemoveTurn(w, k, below) ==
  LET n == w.nodes[k]
      p == w.path[k]
  IN  Rebalance([n EXCEPT !.children[p + 1] = below, !.size = @ - 1], p, k = 1)

RemoveAlong(w, at) ==
  LET leaf == Here(w)
      up[k \in 0 .. Len(w.path)] ==
        IF k = 0 THEN Node(RemoveAt(leaf.items, at + 1), leaf.children, leaf.size - 1)
        ELSE RemoveTurn(w, Len(w.path) + 1 - k, up[k - 1])
  IN  up[Len(w.path)]

(* A way through a node of which an item is given another value. *)
WithValue(w, depth, at, v) == [w EXCEPT !.nodes[depth].items[at + 1] = v]

(* MUTANT of RemovePlace: the predecessor is copied, the successor removed. *)
RemoveOther(place) ==
  LET w       == place.way
      toLeft  == Descent(Down(w, place.at), ToLast)
      toRight == Descent(Down(w, place.at + 1), ToFirst)
  IN  IF IsLeaf(Here(w)) THEN RemoveAlong(w, place.at)
      ELSE RemoveAlong(WithValue(toRight, Len(w.nodes), place.at, Last(Here(toLeft).items)), 0)

(* An item of an internal node is exchanged with its predecessor or its    *)
(* successor, in the fuller of the two leaves, and removed there.          *)
RemovePlace(place) ==
  LET w       == place.way
      toLeft  == Descent(Down(w, place.at), ToLast)
      toRight == Descent(Down(w, place.at + 1), ToFirst)
      left    == Here(toLeft)
      right   == Here(toRight)
  IN  IF IsLeaf(Here(w)) THEN RemoveAlong(w, place.at)
      ELSE IF NbItems(left) > NbItems(right)
      THEN RemoveAlong(WithValue(toLeft, Len(w.nodes), place.at, Last(left.items)),
                       NbItems(left) - 1)
      ELSE RemoveAlong(WithValue(toRight, Len(w.nodes), place.at, right.items[1]), 0)

-----------------------------------------------------------------------------
(* The array. *)

Init ==
  /\ M \in Orders
  /\ lesserThan = "<"
  /\ root = EmptyNode

Insert(v) ==
  /\ root' = Inserted(lesserThan, root, v)
  /\ UNCHANGED <<M, lesserThan>>

RemoveValue(v) ==
  /\ LET place == GetNode(lesserThan, root, v)
     IN  root' = IF place.at = -1 THEN root ELSE RemovePlace(place)
  /\ UNCHANGED <<M, lesserThan>>

RemoveFromIndex(index) ==
  /\ index < root.size
  /\ root' = RemovePlace(GetFromIndex(root, index))
  /\ UNCHANGED <<M, lesserThan>>

Clear ==
  /\ root' = EmptyNode
  /\ UNCHANGED <<M, lesserThan>>

(* Another order: the elements are read in the old one and inserted one by *)
(* one in a new tree.                                                      *)
Rebuilt(lt, list) ==
  LET new[k \in 0 .. Len(list)] ==
        IF k = 0 THEN EmptyNode ELSE Inserted(lt, new[k - 1], list[k])
  IN  new[Len(list)]

SetSortedFunction(lt) ==
  /\ lesserThan' = lt
  /\ root' = Rebuilt(lt, Elements(root))
  /\ UNCHANGED M

Next ==
  \/ \E v \in Values : Insert(v) \/ RemoveValue(v)
  \/ \E index \in 0 .. root.size - 1 : RemoveFromIndex(index)
  \/ Clear
  \/ \E lt \in {"<", ">"} : SetSortedFunction(lt)

Spec == Init /\ [][Next]_vars

-----------------------------------------------------------------------------
(* Properties. *)

(* The nodes k levels below a node. *)
Level(n, k) ==
  LET level[j \in 0 .. k] ==
        IF j = 0 THEN {n} ELSE UNION {ToSet(x.children) : x \in level[j - 1]}
  IN  level[k]

(* The values of a node and of h levels below it. *)
Within(n, h) == UNION {ToSet(x.items) : x \in UNION {Level(n, k) : k \in 0 .. h}}

Contents(n) == Within(n, n.size)

(* The items of a node are in order, and separate the values of its        *)
(* children, which have h - 1 levels.                                      *)
IsOrdered(lt, n, h) ==
  /\ \A i, j \in DOMAIN n.items : i < j => Lesser(lt, n.items[i], n.items[j])
  /\ \A c \in DOMAIN n.children, i \in DOMAIN n.items : \A x \in Within(n.children[c], h - 1) :
       IF c <= i THEN Lesser(lt, x, n.items[i]) ELSE Lesser(lt, n.items[i], x)

(* A B-tree of order m and h levels: balanced, in order, its nodes neither *)
(* too small (but for the root) nor too large.                             *)
IsBTree(m, lt, n, h) ==
  \A k \in 0 .. h : \A x \in Level(n, k) :
    /\ x.items \in Seq(Values) /\ NbItems(x) <= m - 1
    /\ IF k = 0 THEN h # 0 => NbItems(x) # 0 ELSE NbItems(x) >= m \div 2
    /\ Len(x.children) = IF k = h THEN 0 ELSE NbItems(x) + 1
    /\ IsOrdered(lt, x, h - k)

(* Type: the root is a B-tree of the order M, ordered by lesserThan, over  *)
(* values of T.                                                            *)
TypeOK ==
  /\ M \in Orders
  /\ lesserThan \in {"<", ">"}
  /\ \E h \in 0 .. root.size : IsBTree(M, lesserThan, root, h)

(* The size a node stores, which splits, merges and exchanges of children  *)
(* update by differences, is the number of elements under it: a leaf is    *)
(* recognised and an index is located by it.                               *)
StoredSizesExact ==
  \A k \in 0 .. root.size : \A n \in Level(root, k) : n.size = Cardinality(Contents(n))

(* Every element is reached by its index, which is the number of elements  *)
(* before it; an absent value has no index, and the nearest index to it is *)
(* the one of the element just before it, or of the first element, as the  *)
(* comment of indexOfNearest says.                                         *)
IndexesAgree ==
  LET before(v) == Cardinality({x \in Contents(root) : Lesser(lesserThan, x, v)})
  IN  /\ \A x \in Contents(root) : before(x) < root.size /\ Get(root, before(x)) = x
      /\ \A v \in Values \ Contents(root) :
           /\ IndexOf(lesserThan, root, v) = -1
           /\ IndexOfNearest(lesserThan, root, v) =
                IF before(v) = 0 THEN 0 ELSE before(v) - 1

(* indexOf is the inverse of the access by index ("Found the index of a    *)
(* given value", SortedArray.h:31). It does not hold: the child at the     *)
(* left of an item of an internal node is not counted.                     *)
IndexOfIsInverse ==
  \A index \in 0 .. root.size - 1 : IndexOf(lesserThan, root, Get(root, index)) = index

(* The array is the ordered list of its class comment: each operation on   *)
(* the tree is the operation of the same name on the list.                 *)
List == INSTANCE SortedList WITH elements <- Contents(root), order <- lesserThan

ImplementsList == List!Spec
=============================================================================
