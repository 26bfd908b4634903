-------------------------- MODULE SortedArrayProofs --------------------------
(***************************************************************************)
(* Proofs about SortedArray for every set of integer values, every order   *)
(* of the tree and every sequence of operations: the array is always a     *)
(* B-tree in order whose nodes store the number of their elements, and     *)
(* implements the ordered list of SortedList.                              *)
(*                                                                         *)
(* The loops of the operations are functions of the turn; a fact that      *)
(* holds after every turn is proved from the first turn at which it would  *)
(* not (LeastNumber).                                                      *)
(***************************************************************************)
EXTENDS SortedArray, FiniteSetTheorems, SequenceTheorems,
        WellFoundedInduction, TLAPS

-----------------------------------------------------------------------------
(* Numbers and values.                                                     *)

(***************************************************************************)
(* A set of natural numbers that has elements has a least one.             *)
(***************************************************************************)
LEMMA LeastNumber ==
  ASSUME NEW Q \in SUBSET Nat, Q # {}
  PROVE  \E n \in Q : \A k \in Q : n <= k
<1> DEFINE R == {p \in Nat \X Nat : p[1] < p[2]}
<1>1. IsWellFoundedOn(R, Nat)
  BY NatLessThanWellFounded, Zenon DEF OpToRel
<1>2. \A x, y \in Nat : x < y => <<x, y>> \in R
  OBVIOUS
<1> HIDE DEF R
<1>3. PICK n \in Q : \A k \in Q : ~ (<<k, n>> \in R)
  BY <1>1, WFMin, Zenon
<1>4. ASSUME NEW k \in Q PROVE n <= k
  <2>1. n \in Nat /\ k \in Nat /\ ~ (k < n)
    BY <1>2, <1>3
  <2> QED  BY <2>1
<1> QED  BY <1>4

(* A tree of order 2 * d + 1 has at most 2 * d items in a node.            *)
Half(m, d) == d \in Nat /\ d >= 1 /\ m = 2 * d + 1

LEMMA OrderHalf ==
  ASSUME NEW m \in Orders
  PROVE  \E d : Half(m, d)
<1>1. m \in Nat /\ m % 2 = 1 /\ m > 1
  BY OrdersAssumption
<1>2. m \div 2 \in Nat /\ m \div 2 >= 1 /\ m = 2 * (m \div 2) + 1
  BY <1>1
<1> QED  BY <1>2 DEF Half

LEMMA HalfFacts ==
  ASSUME NEW m, NEW d, Half(m, d)
  PROVE  /\ d \in Nat /\ d >= 1 /\ m \in Nat /\ m = 2 * d + 1
         /\ m \div 2 = d /\ (m - 1) \div 2 = d /\ m - 1 = 2 * d
<1>1. d \in Nat /\ d >= 1 /\ m \in Nat /\ m = 2 * d + 1
  BY DEF Half
<1>2. m \div 2 = d /\ (m - 1) \div 2 = d
  BY <1>1
<1> QED  BY <1>1, <1>2

-----------------------------------------------------------------------------
(* Lists, whatever their elements.                                         *)

Listed(s) == Len(s) \in Nat /\ s \in Seq(ToSet(s)) /\ DOMAIN s = 1 .. Len(s)

LEMMA ListedIs ==
  ASSUME NEW S, NEW s \in Seq(S)
  PROVE  Listed(s) /\ \A i \in 1 .. Len(s) : s[i] \in S
<1>1. Len(s) \in Nat /\ s \in [1 .. Len(s) -> S] /\ DOMAIN s = 1 .. Len(s)
  BY LenProperties
<1>2. \A i \in 1 .. Len(s) : s[i] \in ToSet(s)
  BY <1>1 DEF ToSet
<1>3. s \in [1 .. Len(s) -> ToSet(s)]
  BY <1>1, <1>2
<1>4. s \in Seq(ToSet(s))
  BY <1>1, <1>3, SeqDef
<1> QED  BY <1>1, <1>4 DEF Listed

LEMMA ListedOf ==
  ASSUME NEW S, NEW s, Listed(s), \A i \in 1 .. Len(s) : s[i] \in S
  PROVE  s \in Seq(S)
<1>1. Len(s) \in Nat /\ s \in Seq(ToSet(s)) /\ DOMAIN s = 1 .. Len(s)
  BY DEF Listed
<1>2. s \in [1 .. Len(s) -> ToSet(s)]
  BY <1>1, LenProperties
<1>3. s \in [1 .. Len(s) -> S]
  BY <1>1, <1>2
<1> QED  BY <1>1, <1>3, SeqDef

LEMMA ListedEqual ==
  ASSUME NEW s, NEW t, Listed(s), Listed(t), Len(s) = Len(t),
         \A i \in 1 .. Len(s) : s[i] = t[i]
  PROVE  s = t
<1>1. Len(s) \in Nat /\ s \in Seq(ToSet(s)) /\ t \in Seq(ToSet(t))
  BY DEF Listed
<1>2. \A i \in 1 .. Len(s) : s[i] \in ToSet(s)
  BY <1>1, ElementOfSeq
<1>3. t \in Seq(ToSet(s))
  BY <1>2, ListedOf
<1> QED  BY <1>1, <1>3, SeqEqual

LEMMA ElementsOf ==
  ASSUME NEW s, Listed(s)
  PROVE  /\ \A i \in 1 .. Len(s) : s[i] \in ToSet(s)
         /\ \A x \in ToSet(s) : \E i \in 1 .. Len(s) : x = s[i]
BY DEF Listed, ToSet

LEMMA ListedNone ==
  ASSUME NEW s, s = <<>>
  PROVE  Listed(s) /\ Len(s) = 0
<1>1. s \in Seq({}) /\ Len(s) = 0
  BY EmptySeq
<1> QED  BY <1>1, ListedIs

LEMMA ListedEmpty ==
  ASSUME NEW s, Listed(s)
  PROVE  s = <<>> <=> Len(s) = 0
<1>1. ASSUME Len(s) = 0 PROVE s = <<>>
  <2> DEFINE none == <<>>
  <2>1. Listed(none) /\ Len(none) = 0
    BY ListedNone
  <2> HIDE DEF none
  <2>2. s = none
    BY <1>1, <2>1, ListedEqual
  <2> QED  BY <2>2 DEF none
<1> QED  BY <1>1, EmptySeq

LEMMA ListedOne ==
  ASSUME NEW x, NEW s, s = <<x>>
  PROVE  Listed(s) /\ Len(s) = 1 /\ s[1] = x
<1>1. s \in Seq({x}) /\ Len(s) = 1 /\ s[1] = x
  OBVIOUS
<1> QED  BY <1>1, ListedIs

(* s followed by t.                                                        *)
Cat(s, t, r) ==
  /\ Listed(r) /\ Len(r) = Len(s) + Len(t)
  /\ \A i \in 1 .. Len(s) : r[i] = s[i]
  /\ \A i \in 1 .. Len(t) : r[Len(s) + i] = t[i]

(* s from m to n.                                                          *)
Part(s, m, n, r) ==
  /\ Listed(r) /\ Len(r) = (n - m) + 1
  /\ \A i \in 1 .. (n - m) + 1 : r[i] = s[(m + i) - 1]

(* s, x and t.                                                             *)
Around(s, x, t, r) ==
  /\ Listed(r) /\ Len(r) = Len(s) + 1 + Len(t)
  /\ \A i \in 1 .. Len(s) : r[i] = s[i]
  /\ r[Len(s) + 1] = x
  /\ \A i \in 1 .. Len(t) : r[Len(s) + 1 + i] = t[i]

(* s with x at n.                                                          *)
With(s, n, x, r) ==
  /\ Listed(r) /\ Len(r) = Len(s)
  /\ \A i \in 1 .. Len(s) : r[i] = IF i = n THEN x ELSE s[i]

LEMMA CatIs ==
  ASSUME NEW s, NEW t, Listed(s), Listed(t)
  PROVE  Cat(s, t, s \o t)
<1> DEFINE S == ToSet(s) \cup ToSet(t)
           r == s \o t
<1>1. /\ Len(s) \in Nat /\ Len(t) \in Nat
      /\ \A i \in 1 .. Len(s) : s[i] \in S
      /\ \A i \in 1 .. Len(t) : t[i] \in S
  BY ElementsOf DEF Listed
<1> HIDE DEF S
<1>2. s \in Seq(S) /\ t \in Seq(S)
  BY <1>1, ListedOf
<1>3. /\ r \in Seq(S) /\ Len(r) = Len(s) + Len(t)
      /\ \A i \in 1 .. Len(s) + Len(t) : r[i] = IF i <= Len(s) THEN s[i] ELSE t[i - Len(s)]
  BY <1>2, ConcatProperties
<1> HIDE DEF r
<1>4. Listed(r)
  BY <1>3, ListedIs
<1>5. \A i \in 1 .. Len(s) : r[i] = s[i]
  BY <1>1, <1>3
<1>6. ASSUME NEW i \in 1 .. Len(t) PROVE r[Len(s) + i] = t[i]
  <2>1. Len(s) + i \in 1 .. Len(s) + Len(t) /\ ~ (Len(s) + i <= Len(s)) /\ (Len(s) + i) - Len(s) = i
    BY <1>1
  <2> QED  BY <1>3, <2>1
<1>7. Cat(s, t, r)
  BY <1>3, <1>4, <1>5, <1>6 DEF Cat
<1> QED  BY <1>7 DEF r

LEMMA PartIs ==
  ASSUME NEW s, Listed(s), NEW m \in 1 .. Len(s) + 1, NEW n \in m - 1 .. Len(s)
  PROVE  Part(s, m, n, SubSeq(s, m, n))
<1> DEFINE r == SubSeq(s, m, n)
           S == ToSet(s)
<1>1. Len(s) \in Nat /\ \A i \in 1 .. Len(s) : s[i] \in S
  BY ElementsOf DEF Listed
<1> HIDE DEF S
<1>2. m \in Int /\ n \in Int /\ (m <= n \/ (n - m) + 1 = 0)
  BY <1>1
<1>3. \A i \in m .. n : i \in 1 .. Len(s)
  BY <1>1
<1>4. \A i \in m .. n : s[i] \in S
  BY <1>1, <1>3, Zenon
<1>5. /\ r \in Seq(S)
      /\ Len(r) = IF m <= n THEN n - m + 1 ELSE 0
      /\ \A i \in 1 .. n - m + 1 : r[i] = s[m + i - 1]
  BY <1>2, <1>4, SubSeqProperties
<1>6. Listed(r)
  BY <1>5, ListedIs
<1> HIDE DEF r
<1>7. Part(s, m, n, r)
  BY <1>2, <1>5, <1>6 DEF Part
<1> QED  BY <1>7 DEF r

LEMMA WithIs ==
  ASSUME NEW s, Listed(s), NEW n \in 1 .. Len(s), NEW x
  PROVE  With(s, n, x, [s EXCEPT ![n] = x])
<1> DEFINE r == [s EXCEPT ![n] = x]
           S == ToSet(s) \cup {x}
<1>1. Len(s) \in Nat /\ \A i \in 1 .. Len(s) : s[i] \in S
  BY ElementsOf DEF Listed
<1>2. s \in Seq(S) /\ x \in S
  BY <1>1, ListedOf
<1> HIDE DEF S
<1>3. /\ r \in Seq(S) /\ Len(r) = Len(s)
      /\ \A j \in 1 .. Len(s) : r[j] = IF j = n THEN x ELSE s[j]
  BY <1>2, ExceptSeq
<1> HIDE DEF r
<1>4. With(s, n, x, r)
  BY <1>3, ListedIs DEF With
<1> QED  BY <1>4 DEF r

LEMMA AroundIs ==
  ASSUME NEW s, NEW x, NEW t, Listed(s), Listed(t)
  PROVE  Around(s, x, t, (s \o <<x>>) \o t)
<1> DEFINE one == <<x>>
           c == s \o one
           r == c \o t
<1>1. Listed(one) /\ Len(one) = 1 /\ one[1] = x
  BY ListedOne
<1> HIDE DEF one
<1>2. Cat(s, one, c)
  BY <1>1, CatIs
<1> HIDE DEF c
<1>3. Cat(c, t, r)
  BY <1>2, CatIs DEF Cat
<1> HIDE DEF r
<1>4. Len(s) \in Nat /\ Len(t) \in Nat /\ Len(c) = Len(s) + 1 /\ Len(r) = Len(s) + 1 + Len(t)
  BY <1>1, <1>2, <1>3 DEF Cat, Listed
<1>5. \A i \in 1 .. Len(s) : r[i] = s[i]
  <2>1. \A i \in 1 .. Len(s) : i \in 1 .. Len(c) /\ c[i] = s[i]
    BY <1>2, <1>4 DEF Cat
  <2> QED  BY <1>3, <2>1 DEF Cat
<1>6. r[Len(s) + 1] = x
  <2>1. c[Len(s) + 1] = x /\ Len(s) + 1 \in 1 .. Len(c)
    BY <1>1, <1>2, <1>4 DEF Cat
  <2> QED  BY <1>3, <2>1 DEF Cat
<1>7. \A i \in 1 .. Len(t) : r[Len(s) + 1 + i] = t[i]
  BY <1>3, <1>4 DEF Cat
<1>8. Around(s, x, t, r)
  BY <1>3, <1>4, <1>5, <1>6, <1>7 DEF Around, Cat
<1> QED  BY <1>8 DEF r, c, one

-----------------------------------------------------------------------------
(* The loops, turn by turn.                                                *)

(* The total of the sizes.                                                 *)
IsTotal(children, n, turn) ==
  turn = [k \in 0 .. n |-> IF k = 0 THEN 0 ELSE turn[k - 1] + children[k].size]

Total(children, n, turn) ==
  turn[0] = 0 /\ \A k \in 1 .. n : turn[k] = turn[k - 1] + children[k].size

LEMMA IsTotalExists ==
  ASSUME NEW children, NEW n \in Nat
  PROVE  \E turn : IsTotal(children, n, turn)
<1> DEFINE Bad == {k \in Nat : ~ \E turn : IsTotal(children, k, turn)}
<1> SUFFICES ASSUME Bad # {} PROVE FALSE
  OBVIOUS
<1>1. PICK k \in Bad : \A l \in Bad : k <= l
  <2>1. Bad \in SUBSET Nat
    OBVIOUS
  <2> QED  BY <2>1, LeastNumber
<1>2. CASE k = 0
  <2> DEFINE g == [l \in 0 .. 0 |-> 0]
  <2>1. IsTotal(children, 0, g)
    BY DEF IsTotal
  <2> QED  BY <1>2, <2>1
<1>3. CASE k # 0
  <2>1. k \in Nat /\ k - 1 \in Nat /\ k - 1 \notin Bad
    BY <1>1, <1>3
  <2>2. PICK h : IsTotal(children, k - 1, h)
    BY <2>1
  <2> DEFINE last == h[k - 1] + children[k].size
             g == [l \in 0 .. k |-> IF l = k THEN last ELSE h[l]]
  <2>3. \A l \in 0 .. k - 1 : g[l] = h[l]
    BY <2>1
  <2>4. \A l \in 0 .. k : g[l] = IF l = 0 THEN 0 ELSE g[l - 1] + children[l].size
    <3> SUFFICES ASSUME NEW l \in 0 .. k
                 PROVE g[l] = IF l = 0 THEN 0 ELSE g[l - 1] + children[l].size
      OBVIOUS
    <3>1. CASE l = k
      <4>1. g[l] = last /\ k - 1 \in 0 .. k - 1 /\ l # 0
        BY <2>1, <3>1, <1>3
      <4>2. g[k - 1] = h[k - 1]
        BY <2>3, <4>1
      <4> QED  BY <3>1, <4>1, <4>2
    <3>2. CASE l # k
      <4>1. l \in 0 .. k - 1
        BY <2>1, <3>2
      <4>2. h[l] = IF l = 0 THEN 0 ELSE h[l - 1] + children[l].size
        BY <2>2, <4>1 DEF IsTotal
      <4>3. l # 0 => l - 1 \in 0 .. k - 1
        BY <2>1, <4>1
      <4>4. l # 0 => g[l - 1] = h[l - 1]
        BY <2>3, <4>3
      <4> QED  BY <2>3, <4>1, <4>2, <4>4
    <3> QED  BY <3>1, <3>2
  <2>5. g = [l \in 0 .. k |-> g[l]]
    OBVIOUS
  <2> HIDE DEF g
  <2>6. IsTotal(children, k, g)
    BY <2>4, <2>5 DEF IsTotal
  <2> QED  BY <2>6
<1> QED  BY <1>2, <1>3

LEMMA Totals ==
  ASSUME NEW children, NEW n \in Nat, NEW turn, IsTotal(children, n, turn)
  PROVE  Total(children, n, turn)
<1>1. \A k \in 0 .. n : turn[k] = IF k = 0 THEN 0 ELSE turn[k - 1] + children[k].size
  BY DEF IsTotal
<1>2. 0 \in 0 .. n /\ \A k \in 1 .. n : k \in 0 .. n /\ k # 0
  OBVIOUS
<1> QED  BY <1>1, <1>2 DEF Total

(* The binary search.                                                      *)
IsWindow(lt, items, v, n, turn) ==
  turn = [k \in 0 .. n |-> IF k = 0 THEN [i1 |-> 0, i2 |-> Len(items)] ELSE BisectTurn(lt, items, v, turn[k - 1])]

Window(lt, items, v, n, turn) ==
  turn[0] = [i1 |-> 0, i2 |-> Len(items)] /\ \A k \in 1 .. n : turn[k] = BisectTurn(lt, items, v, turn[k - 1])

LEMMA IsWindowExists ==
  ASSUME NEW lt, NEW items, NEW v, NEW n \in Nat
  PROVE  \E turn : IsWindow(lt, items, v, n, turn)
<1> DEFINE Bad == {k \in Nat : ~ \E turn : IsWindow(lt, items, v, k, turn)}
<1> SUFFICES ASSUME Bad # {} PROVE FALSE
  OBVIOUS
<1>1. PICK k \in Bad : \A l \in Bad : k <= l
  <2>1. Bad \in SUBSET Nat
    OBVIOUS
  <2> QED  BY <2>1, LeastNumber
<1>2. CASE k = 0
  <2> DEFINE g == [l \in 0 .. 0 |-> [i1 |-> 0, i2 |-> Len(items)]]
  <2>1. IsWindow(lt, items, v, 0, g)
    BY DEF IsWindow
  <2> QED  BY <1>2, <2>1
<1>3. CASE k # 0
  <2>1. k \in Nat /\ k - 1 \in Nat /\ k - 1 \notin Bad
    BY <1>1, <1>3
  <2>2. PICK h : IsWindow(lt, items, v, k - 1, h)
    BY <2>1
  <2> DEFINE last == BisectTurn(lt, items, v, h[k - 1])
             g == [l \in 0 .. k |-> IF l = k THEN last ELSE h[l]]
  <2>3. \A l \in 0 .. k - 1 : g[l] = h[l]
    BY <2>1
  <2>4. \A l \in 0 .. k : g[l] = IF l = 0 THEN [i1 |-> 0, i2 |-> Len(items)] ELSE BisectTurn(lt, items, v, g[l - 1])
    <3> SUFFICES ASSUME NEW l \in 0 .. k
                 PROVE g[l] = IF l = 0 THEN [i1 |-> 0, i2 |-> Len(items)] ELSE BisectTurn(lt, items, v, g[l - 1])
      OBVIOUS
    <3>1. CASE l = k
      <4>1. g[l] = last /\ k - 1 \in 0 .. k - 1 /\ l # 0
        BY <2>1, <3>1, <1>3
      <4>2. g[k - 1] = h[k - 1]
        BY <2>3, <4>1
      <4> QED  BY <3>1, <4>1, <4>2
    <3>2. CASE l # k
      <4>1. l \in 0 .. k - 1
        BY <2>1, <3>2
      <4>2. h[l] = IF l = 0 THEN [i1 |-> 0, i2 |-> Len(items)] ELSE BisectTurn(lt, items, v, h[l - 1])
        BY <2>2, <4>1 DEF IsWindow
      <4>3. l # 0 => l - 1 \in 0 .. k - 1
        BY <2>1, <4>1
      <4>4. l # 0 => g[l - 1] = h[l - 1]
        BY <2>3, <4>3
      <4> QED  BY <2>3, <4>1, <4>2, <4>4
    <3> QED  BY <3>1, <3>2
  <2>5. g = [l \in 0 .. k |-> g[l]]
    OBVIOUS
  <2> HIDE DEF g
  <2>6. IsWindow(lt, items, v, k, g)
    BY <2>4, <2>5 DEF IsWindow
  <2> QED  BY <2>6
<1> QED  BY <1>2, <1>3

LEMMA Windows ==
  ASSUME NEW lt, NEW items, NEW v, NEW n \in Nat, NEW turn, IsWindow(lt, items, v, n, turn)
  PROVE  Window(lt, items, v, n, turn)
<1>1. \A k \in 0 .. n : turn[k] = IF k = 0 THEN [i1 |-> 0, i2 |-> Len(items)] ELSE BisectTurn(lt, items, v, turn[k - 1])
  BY DEF IsWindow
<1>2. 0 \in 0 .. n /\ \A k \in 1 .. n : k \in 0 .. n /\ k # 0
  OBVIOUS
<1> QED  BY <1>1, <1>2 DEF Window

LEMMA BisectTurns ==
  ASSUME NEW lt, NEW items, NEW v, Len(items) \in Nat
  PROVE  \E turn : Window(lt, items, v, Len(items), turn) /\ Bisect(lt, items, v) = [at |-> turn[Len(items)].i2, exists |-> turn[Len(items)].i1 = turn[Len(items)].i2]
<1> DEFINE turn == CHOOSE t : IsWindow(lt, items, v, Len(items), t)
<1>1. IsWindow(lt, items, v, Len(items), turn)
  BY IsWindowExists, Zenon
<1>2. Bisect(lt, items, v) = [at |-> turn[Len(items)].i2, exists |-> turn[Len(items)].i1 = turn[Len(items)].i2]
  BY Zenon DEF Bisect, IsWindow
<1> HIDE DEF turn
<1>3. Window(lt, items, v, Len(items), turn)
  BY <1>1, Windows
<1> QED  BY <1>2, <1>3

(* The way down.                                                           *)
IsDown(w, goal, n, turn) ==
  turn = [k \in 0 .. n |-> IF k = 0 THEN w ELSE DescentTurn(turn[k - 1], goal)]

GoDown(w, goal, n, turn) ==
  turn[0] = w /\ \A k \in 1 .. n : turn[k] = DescentTurn(turn[k - 1], goal)

LEMMA IsDownExists ==
  ASSUME NEW w, NEW goal, NEW n \in Nat
  PROVE  \E turn : IsDown(w, goal, n, turn)
<1> DEFINE Bad == {k \in Nat : ~ \E turn : IsDown(w, goal, k, turn)}
<1> SUFFICES ASSUME Bad # {} PROVE FALSE
  OBVIOUS
<1>1. PICK k \in Bad : \A l \in Bad : k <= l
  <2>1. Bad \in SUBSET Nat
    OBVIOUS
  <2> QED  BY <2>1, LeastNumber
<1>2. CASE k = 0
  <2> DEFINE g == [l \in 0 .. 0 |-> w]
  <2>1. IsDown(w, goal, 0, g)
    BY DEF IsDown
  <2> QED  BY <1>2, <2>1
<1>3. CASE k # 0
  <2>1. k \in Nat /\ k - 1 \in Nat /\ k - 1 \notin Bad
    BY <1>1, <1>3
  <2>2. PICK h : IsDown(w, goal, k - 1, h)
    BY <2>1
  <2> DEFINE last == DescentTurn(h[k - 1], goal)
             g == [l \in 0 .. k |-> IF l = k THEN last ELSE h[l]]
  <2>3. \A l \in 0 .. k - 1 : g[l] = h[l]
    BY <2>1
  <2>4. \A l \in 0 .. k : g[l] = IF l = 0 THEN w ELSE DescentTurn(g[l - 1], goal)
    <3> SUFFICES ASSUME NEW l \in 0 .. k
                 PROVE g[l] = IF l = 0 THEN w ELSE DescentTurn(g[l - 1], goal)
      OBVIOUS
    <3>1. CASE l = k
      <4>1. g[l] = last /\ k - 1 \in 0 .. k - 1 /\ l # 0
        BY <2>1, <3>1, <1>3
      <4>2. g[k - 1] = h[k - 1]
        BY <2>3, <4>1
      <4> QED  BY <3>1, <4>1, <4>2
    <3>2. CASE l # k
      <4>1. l \in 0 .. k - 1
        BY <2>1, <3>2
      <4>2. h[l] = IF l = 0 THEN w ELSE DescentTurn(h[l - 1], goal)
        BY <2>2, <4>1 DEF IsDown
      <4>3. l # 0 => l - 1 \in 0 .. k - 1
        BY <2>1, <4>1
      <4>4. l # 0 => g[l - 1] = h[l - 1]
        BY <2>3, <4>3
      <4> QED  BY <2>3, <4>1, <4>2, <4>4
    <3> QED  BY <3>1, <3>2
  <2>5. g = [l \in 0 .. k |-> g[l]]
    OBVIOUS
  <2> HIDE DEF g
  <2>6. IsDown(w, goal, k, g)
    BY <2>4, <2>5 DEF IsDown
  <2> QED  BY <2>6
<1> QED  BY <1>2, <1>3

LEMMA GoDowns ==
  ASSUME NEW w, NEW goal, NEW n \in Nat, NEW turn, IsDown(w, goal, n, turn)
  PROVE  GoDown(w, goal, n, turn)
<1>1. \A k \in 0 .. n : turn[k] = IF k = 0 THEN w ELSE DescentTurn(turn[k - 1], goal)
  BY DEF IsDown
<1>2. 0 \in 0 .. n /\ \A k \in 1 .. n : k \in 0 .. n /\ k # 0
  OBVIOUS
<1> QED  BY <1>1, <1>2 DEF GoDown

LEMMA DescentTurns ==
  ASSUME NEW w, NEW goal, Here(w).size \in Nat
  PROVE  \E turn : GoDown(w, goal, Here(w).size, turn) /\ Descent(w, goal) = turn[Here(w).size]
<1> DEFINE turn == CHOOSE t : IsDown(w, goal, Here(w).size, t)
<1>1. IsDown(w, goal, Here(w).size, turn)
  BY IsDownExists, Zenon
<1>2. Descent(w, goal) = turn[Here(w).size]
  BY Zenon DEF Descent, IsDown
<1> HIDE DEF turn
<1>3. GoDown(w, goal, Here(w).size, turn)
  BY <1>1, GoDowns
<1> QED  BY <1>2, <1>3

(* The way up of an addition.                                              *)
IsGrowing(lt, w, v, n, turn) ==
  turn = [k \in 0 .. n |-> IF k = 0 THEN AddToNode(lt, Here(w), v, <<>>) ELSE AddTurn(lt, w, v, Len(w.path) + 1 - k, turn[k - 1])]

Grow(lt, w, v, n, turn) ==
  turn[0] = AddToNode(lt, Here(w), v, <<>>) /\ \A k \in 1 .. n : turn[k] = AddTurn(lt, w, v, Len(w.path) + 1 - k, turn[k - 1])

LEMMA IsGrowingExists ==
  ASSUME NEW lt, NEW w, NEW v, NEW n \in Nat
  PROVE  \E turn : IsGrowing(lt, w, v, n, turn)
<1> DEFINE Bad == {k \in Nat : ~ \E turn : IsGrowing(lt, w, v, k, turn)}
<1> SUFFICES ASSUME Bad # {} PROVE FALSE
  OBVIOUS
<1>1. PICK k \in Bad : \A l \in Bad : k <= l
  <2>1. Bad \in SUBSET Nat
    OBVIOUS
  <2> QED  BY <2>1, LeastNumber
<1>2. CASE k = 0
  <2> DEFINE g == [l \in 0 .. 0 |-> AddToNode(lt, Here(w), v, <<>>)]
  <2>1. IsGrowing(lt, w, v, 0, g)
    BY DEF IsGrowing
  <2> QED  BY <1>2, <2>1
<1>3. CASE k # 0
  <2>1. k \in Nat /\ k - 1 \in Nat /\ k - 1 \notin Bad
    BY <1>1, <1>3
  <2>2. PICK h : IsGrowing(lt, w, v, k - 1, h)
    BY <2>1
  <2> DEFINE last == AddTurn(lt, w, v, Len(w.path) + 1 - k, h[k - 1])
             g == [l \in 0 .. k |-> IF l = k THEN last ELSE h[l]]
  <2>3. \A l \in 0 .. k - 1 : g[l] = h[l]
    BY <2>1
  <2>4. \A l \in 0 .. k : g[l] = IF l = 0 THEN AddToNode(lt, Here(w), v, <<>>) ELSE AddTurn(lt, w, v, Len(w.path) + 1 - l, g[l - 1])
    <3> SUFFICES ASSUME NEW l \in 0 .. k
                 PROVE g[l] = IF l = 0 THEN AddToNode(lt, Here(w), v, <<>>) ELSE AddTurn(lt, w, v, Len(w.path) + 1 - l, g[l - 1])
      OBVIOUS
    <3>1. CASE l = k
      <4>1. g[l] = last /\ k - 1 \in 0 .. k - 1 /\ l # 0
        BY <2>1, <3>1, <1>3
      <4>2. g[k - 1] = h[k - 1]
        BY <2>3, <4>1
      <4> QED  BY <3>1, <4>1, <4>2
    <3>2. CASE l # k
      <4>1. l \in 0 .. k - 1
        BY <2>1, <3>2
      <4>2. h[l] = IF l = 0 THEN AddToNode(lt, Here(w), v, <<>>) ELSE AddTurn(lt, w, v, Len(w.path) + 1 - l, h[l - 1])
        BY <2>2, <4>1 DEF IsGrowing
      <4>3. l # 0 => l - 1 \in 0 .. k - 1
        BY <2>1, <4>1
      <4>4. l # 0 => g[l - 1] = h[l - 1]
        BY <2>3, <4>3
      <4> QED  BY <2>3, <4>1, <4>2, <4>4
    <3> QED  BY <3>1, <3>2
  <2>5. g = [l \in 0 .. k |-> g[l]]
    OBVIOUS
  <2> HIDE DEF g
  <2>6. IsGrowing(lt, w, v, k, g)
    BY <2>4, <2>5 DEF IsGrowing
  <2> QED  BY <2>6
<1> QED  BY <1>2, <1>3

LEMMA Grows ==
  ASSUME NEW lt, NEW w, NEW v, NEW n \in Nat, NEW turn, IsGrowing(lt, w, v, n, turn)
  PROVE  Grow(lt, w, v, n, turn)
<1>1. \A k \in 0 .. n : turn[k] = IF k = 0 THEN AddToNode(lt, Here(w), v, <<>>) ELSE AddTurn(lt, w, v, Len(w.path) + 1 - k, turn[k - 1])
  BY DEF IsGrowing
<1>2. 0 \in 0 .. n /\ \A k \in 1 .. n : k \in 0 .. n /\ k # 0
  OBVIOUS
<1> QED  BY <1>1, <1>2 DEF Grow

LEMMA AddAlongTurns ==
  ASSUME NEW lt, NEW w, NEW v, Len(w.path) \in Nat
  PROVE  \E turn : Grow(lt, w, v, Len(w.path), turn) /\ AddAlong(lt, w, v) = turn[Len(w.path)]
<1> DEFINE turn == CHOOSE t : IsGrowing(lt, w, v, Len(w.path), t)
<1>1. IsGrowing(lt, w, v, Len(w.path), turn)
  BY IsGrowingExists, Zenon
<1>2. AddAlong(lt, w, v) = turn[Len(w.path)]
  BY Zenon DEF AddAlong, IsGrowing
<1> HIDE DEF turn
<1>3. Grow(lt, w, v, Len(w.path), turn)
  BY <1>1, Grows
<1> QED  BY <1>2, <1>3

(* The way up of a removal.                                                *)
IsShrinking(w, at, n, turn) ==
  turn = [k \in 0 .. n |-> IF k = 0 THEN Node(RemoveAt(Here(w).items, at + 1), Here(w).children, Here(w).size - 1) ELSE RemoveTurn(w, Len(w.path) + 1 - k, turn[k - 1])]

Shrink(w, at, n, turn) ==
  turn[0] = Node(RemoveAt(Here(w).items, at + 1), Here(w).children, Here(w).size - 1) /\ \A k \in 1 .. n : turn[k] = RemoveTurn(w, Len(w.path) + 1 - k, turn[k - 1])

LEMMA IsShrinkingExists ==
  ASSUME NEW w, NEW at, NEW n \in Nat
  PROVE  \E turn : IsShrinking(w, at, n, turn)
<1> DEFINE Bad == {k \in Nat : ~ \E turn : IsShrinking(w, at, k, turn)}
<1> SUFFICES ASSUME Bad # {} PROVE FALSE
  OBVIOUS
<1>1. PICK k \in Bad : \A l \in Bad : k <= l
  <2>1. Bad \in SUBSET Nat
    OBVIOUS
  <2> QED  BY <2>1, LeastNumber
<1>2. CASE k = 0
  <2> DEFINE g == [l \in 0 .. 0 |-> Node(RemoveAt(Here(w).items, at + 1), Here(w).children, Here(w).size - 1)]
  <2>1. IsShrinking(w, at, 0, g)
    BY DEF IsShrinking
  <2> QED  BY <1>2, <2>1
<1>3. CASE k # 0
  <2>1. k \in Nat /\ k - 1 \in Nat /\ k - 1 \notin Bad
    BY <1>1, <1>3
  <2>2. PICK h : IsShrinking(w, at, k - 1, h)
    BY <2>1
  <2> DEFINE last == RemoveTurn(w, Len(w.path) + 1 - k, h[k - 1])
             g == [l \in 0 .. k |-> IF l = k THEN last ELSE h[l]]
  <2>3. \A l \in 0 .. k - 1 : g[l] = h[l]
    BY <2>1
  <2>4. \A l \in 0 .. k : g[l] = IF l = 0 THEN Node(RemoveAt(Here(w).items, at + 1), Here(w).children, Here(w).size - 1) ELSE RemoveTurn(w, Len(w.path) + 1 - l, g[l - 1])
    <3> SUFFICES ASSUME NEW l \in 0 .. k
                 PROVE g[l] = IF l = 0 THEN Node(RemoveAt(Here(w).items, at + 1), Here(w).children, Here(w).size - 1) ELSE RemoveTurn(w, Len(w.path) + 1 - l, g[l - 1])
      OBVIOUS
    <3>1. CASE l = k
      <4>1. g[l] = last /\ k - 1 \in 0 .. k - 1 /\ l # 0
        BY <2>1, <3>1, <1>3
      <4>2. g[k - 1] = h[k - 1]
        BY <2>3, <4>1
      <4> QED  BY <3>1, <4>1, <4>2
    <3>2. CASE l # k
      <4>1. l \in 0 .. k - 1
        BY <2>1, <3>2
      <4>2. h[l] = IF l = 0 THEN Node(RemoveAt(Here(w).items, at + 1), Here(w).children, Here(w).size - 1) ELSE RemoveTurn(w, Len(w.path) + 1 - l, h[l - 1])
        BY <2>2, <4>1 DEF IsShrinking
      <4>3. l # 0 => l - 1 \in 0 .. k - 1
        BY <2>1, <4>1
      <4>4. l # 0 => g[l - 1] = h[l - 1]
        BY <2>3, <4>3
      <4> QED  BY <2>3, <4>1, <4>2, <4>4
    <3> QED  BY <3>1, <3>2
  <2>5. g = [l \in 0 .. k |-> g[l]]
    OBVIOUS
  <2> HIDE DEF g
  <2>6. IsShrinking(w, at, k, g)
    BY <2>4, <2>5 DEF IsShrinking
  <2> QED  BY <2>6
<1> QED  BY <1>2, <1>3

LEMMA Shrinks ==
  ASSUME NEW w, NEW at, NEW n \in Nat, NEW turn, IsShrinking(w, at, n, turn)
  PROVE  Shrink(w, at, n, turn)
<1>1. \A k \in 0 .. n : turn[k] = IF k = 0 THEN Node(RemoveAt(Here(w).items, at + 1), Here(w).children, Here(w).size - 1) ELSE RemoveTurn(w, Len(w.path) + 1 - k, turn[k - 1])
  BY DEF IsShrinking
<1>2. 0 \in 0 .. n /\ \A k \in 1 .. n : k \in 0 .. n /\ k # 0
  OBVIOUS
<1> QED  BY <1>1, <1>2 DEF Shrink

LEMMA RemoveAlongTurns ==
  ASSUME NEW w, NEW at, Len(w.path) \in Nat
  PROVE  \E turn : Shrink(w, at, Len(w.path), turn) /\ RemoveAlong(w, at) = turn[Len(w.path)]
<1> DEFINE turn == CHOOSE t : IsShrinking(w, at, Len(w.path), t)
<1>1. IsShrinking(w, at, Len(w.path), turn)
  BY IsShrinkingExists, Zenon
<1>2. RemoveAlong(w, at) = turn[Len(w.path)]
  BY Zenon DEF RemoveAlong, IsShrinking
<1> HIDE DEF turn
<1>3. Shrink(w, at, Len(w.path), turn)
  BY <1>1, Shrinks
<1> QED  BY <1>2, <1>3

(* The insertion of a list in a new tree.                                  *)
IsFilling(lt, list, n, turn) ==
  turn = [k \in 0 .. n |-> IF k = 0 THEN EmptyNode ELSE Inserted(lt, turn[k - 1], list[k])]

Fill(lt, list, n, turn) ==
  turn[0] = EmptyNode /\ \A k \in 1 .. n : turn[k] = Inserted(lt, turn[k - 1], list[k])

LEMMA IsFillingExists ==
  ASSUME NEW lt, NEW list, NEW n \in Nat
  PROVE  \E turn : IsFilling(lt, list, n, turn)
<1> DEFINE Bad == {k \in Nat : ~ \E turn : IsFilling(lt, list, k, turn)}
<1> SUFFICES ASSUME Bad # {} PROVE FALSE
  OBVIOUS
<1>1. PICK k \in Bad : \A l \in Bad : k <= l
  <2>1. Bad \in SUBSET Nat
    OBVIOUS
  <2> QED  BY <2>1, LeastNumber
<1>2. CASE k = 0
  <2> DEFINE g == [l \in 0 .. 0 |-> EmptyNode]
  <2>1. IsFilling(lt, list, 0, g)
    BY DEF IsFilling
  <2> QED  BY <1>2, <2>1
<1>3. CASE k # 0
  <2>1. k \in Nat /\ k - 1 \in Nat /\ k - 1 \notin Bad
    BY <1>1, <1>3
  <2>2. PICK h : IsFilling(lt, list, k - 1, h)
    BY <2>1
  <2> DEFINE last == Inserted(lt, h[k - 1], list[k])
             g == [l \in 0 .. k |-> IF l = k THEN last ELSE h[l]]
  <2>3. \A l \in 0 .. k - 1 : g[l] = h[l]
    BY <2>1
  <2>4. \A l \in 0 .. k : g[l] = IF l = 0 THEN EmptyNode ELSE Inserted(lt, g[l - 1], list[l])
    <3> SUFFICES ASSUME NEW l \in 0 .. k
                 PROVE g[l] = IF l = 0 THEN EmptyNode ELSE Inserted(lt, g[l - 1], list[l])
      OBVIOUS
    <3>1. CASE l = k
      <4>1. g[l] = last /\ k - 1 \in 0 .. k - 1 /\ l # 0
        BY <2>1, <3>1, <1>3
      <4>2. g[k - 1] = h[k - 1]
        BY <2>3, <4>1
      <4> QED  BY <3>1, <4>1, <4>2
    <3>2. CASE l # k
      <4>1. l \in 0 .. k - 1
        BY <2>1, <3>2
      <4>2. h[l] = IF l = 0 THEN EmptyNode ELSE Inserted(lt, h[l - 1], list[l])
        BY <2>2, <4>1 DEF IsFilling
      <4>3. l # 0 => l - 1 \in 0 .. k - 1
        BY <2>1, <4>1
      <4>4. l # 0 => g[l - 1] = h[l - 1]
        BY <2>3, <4>3
      <4> QED  BY <2>3, <4>1, <4>2, <4>4
    <3> QED  BY <3>1, <3>2
  <2>5. g = [l \in 0 .. k |-> g[l]]
    OBVIOUS
  <2> HIDE DEF g
  <2>6. IsFilling(lt, list, k, g)
    BY <2>4, <2>5 DEF IsFilling
  <2> QED  BY <2>6
<1> QED  BY <1>2, <1>3

LEMMA Fills ==
  ASSUME NEW lt, NEW list, NEW n \in Nat, NEW turn, IsFilling(lt, list, n, turn)
  PROVE  Fill(lt, list, n, turn)
<1>1. \A k \in 0 .. n : turn[k] = IF k = 0 THEN EmptyNode ELSE Inserted(lt, turn[k - 1], list[k])
  BY DEF IsFilling
<1>2. 0 \in 0 .. n /\ \A k \in 1 .. n : k \in 0 .. n /\ k # 0
  OBVIOUS
<1> QED  BY <1>1, <1>2 DEF Fill

LEMMA RebuiltTurns ==
  ASSUME NEW lt, NEW list, Len(list) \in Nat
  PROVE  \E turn : Fill(lt, list, Len(list), turn) /\ Rebuilt(lt, list) = turn[Len(list)]
<1> DEFINE turn == CHOOSE t : IsFilling(lt, list, Len(list), t)
<1>1. IsFilling(lt, list, Len(list), turn)
  BY IsFillingExists, Zenon
<1>2. Rebuilt(lt, list) = turn[Len(list)]
  BY Zenon DEF Rebuilt, IsFilling
<1> HIDE DEF turn
<1>3. Fill(lt, list, Len(list), turn)
  BY <1>1, Fills
<1> QED  BY <1>2, <1>3

(* The levels below a node.                                                *)
IsLevels(node, n, turn) ==
  turn = [k \in 0 .. n |-> IF k = 0 THEN {node} ELSE UNION {ToSet(x.children) : x \in turn[k - 1]}]

Levels(node, n, turn) ==
  turn[0] = {node} /\ \A k \in 1 .. n : turn[k] = UNION {ToSet(x.children) : x \in turn[k - 1]}

LEMMA IsLevelsExists ==
  ASSUME NEW node, NEW n \in Nat
  PROVE  \E turn : IsLevels(node, n, turn)
<1> DEFINE Bad == {k \in Nat : ~ \E turn : IsLevels(node, k, turn)}
<1> SUFFICES ASSUME Bad # {} PROVE FALSE
  OBVIOUS
<1>1. PICK k \in Bad : \A l \in Bad : k <= l
  <2>1. Bad \in SUBSET Nat
    OBVIOUS
  <2> QED  BY <2>1, LeastNumber
<1>2. CASE k = 0
  <2> DEFINE g == [l \in 0 .. 0 |-> {node}]
  <2>1. IsLevels(node, 0, g)
    BY DEF IsLevels
  <2> QED  BY <1>2, <2>1
<1>3. CASE k # 0
  <2>1. k \in Nat /\ k - 1 \in Nat /\ k - 1 \notin Bad
    BY <1>1, <1>3
  <2>2. PICK h : IsLevels(node, k - 1, h)
    BY <2>1
  <2> DEFINE last == UNION {ToSet(x.children) : x \in h[k - 1]}
             g == [l \in 0 .. k |-> IF l = k THEN last ELSE h[l]]
  <2>3. \A l \in 0 .. k - 1 : g[l] = h[l]
    BY <2>1
  <2>4. \A l \in 0 .. k : g[l] = IF l = 0 THEN {node} ELSE UNION {ToSet(x.children) : x \in g[l - 1]}
    <3> SUFFICES ASSUME NEW l \in 0 .. k
                 PROVE g[l] = IF l = 0 THEN {node} ELSE UNION {ToSet(x.children) : x \in g[l - 1]}
      OBVIOUS
    <3>1. CASE l = k
      <4>1. g[l] = last /\ k - 1 \in 0 .. k - 1 /\ l # 0
        BY <2>1, <3>1, <1>3
      <4>2. g[k - 1] = h[k - 1]
        BY <2>3, <4>1
      <4> QED  BY <3>1, <4>1, <4>2
    <3>2. CASE l # k
      <4>1. l \in 0 .. k - 1
        BY <2>1, <3>2
      <4>2. h[l] = IF l = 0 THEN {node} ELSE UNION {ToSet(x.children) : x \in h[l - 1]}
        BY <2>2, <4>1 DEF IsLevels
      <4>3. l # 0 => l - 1 \in 0 .. k - 1
        BY <2>1, <4>1
      <4>4. l # 0 => g[l - 1] = h[l - 1]
        BY <2>3, <4>3
      <4> QED  BY <2>3, <4>1, <4>2, <4>4
    <3> QED  BY <3>1, <3>2
  <2>5. g = [l \in 0 .. k |-> g[l]]
    OBVIOUS
  <2> HIDE DEF g
  <2>6. IsLevels(node, k, g)
    BY <2>4, <2>5 DEF IsLevels
  <2> QED  BY <2>6
<1> QED  BY <1>2, <1>3

LEMMA LevelsStep ==
  ASSUME NEW node, NEW n \in Nat, NEW turn, IsLevels(node, n, turn)
  PROVE  Levels(node, n, turn)
<1>1. \A k \in 0 .. n : turn[k] = IF k = 0 THEN {node} ELSE UNION {ToSet(x.children) : x \in turn[k - 1]}
  BY DEF IsLevels
<1>2. 0 \in 0 .. n /\ \A k \in 1 .. n : k \in 0 .. n /\ k # 0
  OBVIOUS
<1> QED  BY <1>1, <1>2 DEF Levels

LEMMA LevelTurns ==
  ASSUME NEW node, NEW n, n \in Nat
  PROVE  \E turn : Levels(node, n, turn) /\ Level(node, n) = turn[n]
<1> DEFINE turn == CHOOSE t : IsLevels(node, n, t)
<1>1. IsLevels(node, n, turn)
  BY IsLevelsExists, Zenon
<1>2. Level(node, n) = turn[n]
  BY Zenon DEF Level, IsLevels
<1> HIDE DEF turn
<1>3. Levels(node, n, turn)
  BY <1>1, LevelsStep
<1> QED  BY <1>2, <1>3

-----------------------------------------------------------------------------
(* The sizes of a list of nodes.                                           *)

(* The total of the sizes of the first k nodes.                            *)
Sum(C, k) == (CHOOSE t : IsTotal(C, Len(C), t))[k]

Sized(C) == Listed(C) /\ \A i \in 1 .. Len(C) : C[i].size \in Nat

LEMMA SumFacts ==
  ASSUME NEW C, Listed(C)
  PROVE  /\ Len(C) \in Nat /\ Sum(C, 0) = 0
         /\ \A k \in 1 .. Len(C) : Sum(C, k) = Sum(C, k - 1) + C[k].size
         /\ SizeOf(C) = Sum(C, Len(C))
<1> DEFINE turn == CHOOSE t : IsTotal(C, Len(C), t)
<1>1. Len(C) \in Nat
  BY DEF Listed
<1>2. IsTotal(C, Len(C), turn)
  BY <1>1, IsTotalExists, Zenon
<1>3. SizeOf(C) = turn[Len(C)]
  BY Zenon DEF SizeOf, IsTotal
<1>4. \A k : Sum(C, k) = turn[k]
  BY DEF Sum
<1> HIDE DEF turn
<1>5. Total(C, Len(C), turn)
  BY <1>1, <1>2, Totals
<1> QED  BY <1>1, <1>3, <1>4, <1>5 DEF Total

LEMMA SumStep ==
  ASSUME NEW C, Listed(C), NEW k \in 0 .. Len(C) - 1
  PROVE  Sum(C, k + 1) = Sum(C, k) + C[k + 1].size
<1>1. Len(C) \in Nat /\ k + 1 \in 1 .. Len(C) /\ (k + 1) - 1 = k
  BY DEF Listed
<1>2. Sum(C, k + 1) = Sum(C, (k + 1) - 1) + C[k + 1].size
  BY <1>1, SumFacts
<1> QED  BY <1>1, <1>2

LEMMA SumNat ==
  ASSUME NEW C, Sized(C)
  PROVE  \A k \in 0 .. Len(C) : Sum(C, k) \in Nat
<1> DEFINE Bad == {k \in 0 .. Len(C) : Sum(C, k) \notin Nat}
<1>1. Len(C) \in Nat /\ Listed(C)
  BY DEF Sized, Listed
<1> SUFFICES ASSUME Bad # {} PROVE FALSE
  OBVIOUS
<1>2. Bad \in SUBSET Nat
  BY <1>1
<1>3. PICK k \in Bad : \A l \in Bad : k <= l
  BY <1>2, LeastNumber
<1>4. k # 0
  BY <1>1, <1>3, SumFacts
<1>5. k \in 1 .. Len(C) /\ k - 1 \in 0 .. Len(C) /\ k - 1 \notin Bad
  BY <1>1, <1>3, <1>4
<1>6. Sum(C, k) = Sum(C, k - 1) + C[k].size
  BY <1>1, <1>5, SumFacts
<1>7. Sum(C, k - 1) \in Nat /\ C[k].size \in Nat
  BY <1>5 DEF Sized
<1> QED  BY <1>3, <1>6, <1>7

LEMMA SumGrows ==
  ASSUME NEW C, Sized(C), NEW l \in 0 .. Len(C)
  PROVE  \A k \in 0 .. l : Sum(C, k) <= Sum(C, l)
<1> DEFINE Bad == {j \in 0 .. l : ~ (Sum(C, l - j) <= Sum(C, l))}
<1>1. Len(C) \in Nat /\ Listed(C) /\ \A k \in 0 .. Len(C) : Sum(C, k) \in Nat
  BY SumNat DEF Sized, Listed
<1>2. ASSUME Bad # {} PROVE FALSE
  <2>2. Bad \in SUBSET Nat
    BY <1>1
  <2>3. PICK j \in Bad : \A i \in Bad : j <= i
    BY <1>2, <2>2, LeastNumber
  <2>4. j # 0
    BY <1>1, <2>3
  <2>a. j \in 0 .. l
    BY <2>3
  <2>5. j - 1 \in 0 .. l /\ j - 1 \notin Bad
    <3>1. j - 1 \in 0 .. l /\ ~ (j <= j - 1)
      BY <2>a, <2>4
    <3> QED  BY <3>1, <2>3
  <2>6. Sum(C, l - (j - 1)) <= Sum(C, l)
    BY <2>5
  <2> HIDE DEF Bad
  <2>7. l - (j - 1) \in 1 .. Len(C) /\ (l - (j - 1)) - 1 = l - j /\ l - j \in 0 .. Len(C)
    BY <1>1, <2>a, <2>4
  <2>8. Sum(C, l - (j - 1)) = Sum(C, l - j) + C[l - (j - 1)].size
    BY <1>1, <2>7, SumFacts
  <2>9. C[l - (j - 1)].size \in Nat
    BY <2>7 DEF Sized
  <2>b. /\ Sum(C, l - j) \in Nat /\ Sum(C, l) \in Nat
    BY <1>1, <2>7
  <2>c. Sum(C, l - j) <= Sum(C, l)
    BY <2>6, <2>8, <2>9, <2>b
  <2> QED  BY <2>3, <2>c DEF Bad
<1>3. ASSUME NEW k \in 0 .. l PROVE Sum(C, k) <= Sum(C, l)
  <2>0. Bad = {}
    BY <1>2
  <2>1. l - k \in 0 .. l /\ l - (l - k) = k
    BY <1>1
  <2>2. Sum(C, l - (l - k)) <= Sum(C, l)
    BY <2>0, <2>1
  <2> QED  BY <2>1, <2>2
<1> QED  BY <1>3

LEMMA SumAgrees ==
  ASSUME NEW C, NEW D, Listed(C), Listed(D),
         NEW k \in Nat, k <= Len(C), k <= Len(D), \A i \in 1 .. k : C[i] = D[i]
  PROVE  Sum(C, k) = Sum(D, k)
<1> DEFINE Bad == {i \in 0 .. k : Sum(C, i) # Sum(D, i)}
<1>1. Len(C) \in Nat /\ Len(D) \in Nat
  BY DEF Listed
<1>2. ASSUME Bad # {} PROVE FALSE
  <2>1. Bad \in SUBSET Nat
    OBVIOUS
  <2>2. PICK i \in Bad : \A l \in Bad : i <= l
    BY <1>2, <2>1, LeastNumber
  <2>3. i # 0
    BY <2>2, SumFacts
  <2>4. i \in 1 .. Len(C) /\ i \in 1 .. Len(D) /\ i \in 1 .. k /\ i - 1 \in 0 .. k /\ i - 1 \notin Bad
    BY <1>1, <2>2, <2>3
  <2>5. Sum(C, i) = Sum(C, i - 1) + C[i].size /\ Sum(D, i) = Sum(D, i - 1) + D[i].size
    BY <2>4, SumFacts
  <2> QED  BY <2>2, <2>4, <2>5
<1>3. k \in 0 .. k
  OBVIOUS
<1> QED  BY <1>2, <1>3

(* b nodes of two lists, from k of one and from l of the other.            *)
Alike(C, k, D, l, b) == \A i \in 1 .. b : C[k + i] = D[l + i]

LEMMA SumShifts ==
  ASSUME NEW C, NEW D, Sized(C), Sized(D), NEW k \in Nat, NEW l \in Nat, NEW b \in Nat,
         NEW kk, NEW ll, kk = k + b, ll = l + b,
         kk <= Len(C), ll <= Len(D), Alike(C, k, D, l, b)
  PROVE  Sum(C, kk) + Sum(D, l) = Sum(D, ll) + Sum(C, k)
<1> DEFINE Bad == {i \in 0 .. b : Sum(C, k + i) + Sum(D, l) # Sum(D, l + i) + Sum(C, k)}
<1>1. /\ Len(C) \in Nat /\ Len(D) \in Nat /\ Listed(C) /\ Listed(D)
      /\ \A i \in 0 .. Len(C) : Sum(C, i) \in Nat
      /\ \A i \in 0 .. Len(D) : Sum(D, i) \in Nat
  BY SumNat DEF Listed, Sized
<1>2. ASSUME Bad # {} PROVE FALSE
  <2>1. Bad \in SUBSET Nat
    OBVIOUS
  <2>2. PICK i \in Bad : \A j \in Bad : i <= j
    BY <1>2, <2>1, LeastNumber
  <2>0. /\ k \in 0 .. Len(C) /\ l \in 0 .. Len(D) /\ k + 0 = k /\ l + 0 = l
        /\ Sum(C, k) \in Nat /\ Sum(D, l) \in Nat
    BY <1>1
  <2>3. i # 0
    BY <2>0, <2>2
  <2>4. i \in 1 .. b /\ i - 1 \in 0 .. b /\ i - 1 \notin Bad
    <3>1. i \in 0 .. b
      BY <2>2
    <3>2. i \in 1 .. b /\ i - 1 \in 0 .. b /\ ~ (i <= i - 1)
      BY <3>1, <2>3
    <3> QED  BY <3>2, <2>2
  <2>5. Sum(C, k + (i - 1)) + Sum(D, l) = Sum(D, l + (i - 1)) + Sum(C, k)
    BY <2>4
  <2>i. i \in 0 .. b /\ (Sum(C, k + i) + Sum(D, l) # Sum(D, l + i) + Sum(C, k))
    BY <2>2
  <2> HIDE DEF Bad
  <2>6. k + i \in 1 .. Len(C) /\ l + i \in 1 .. Len(D) /\ (k + i) - 1 = k + (i - 1) /\ (l + i) - 1 = l + (i - 1)
    BY <1>1, <2>4
  <2>7. Sum(C, k + i) = Sum(C, k + (i - 1)) + C[k + i].size
    BY <1>1, <2>6, SumFacts
  <2>8. Sum(D, l + i) = Sum(D, l + (i - 1)) + D[l + i].size
    BY <1>1, <2>6, SumFacts
  <2>9. C[k + i] = D[l + i] /\ D[l + i].size \in Nat
    BY <2>4, <2>6 DEF Sized, Alike
  <2>a. /\ Sum(C, k + (i - 1)) \in Nat /\ Sum(D, l + (i - 1)) \in Nat
        /\ Sum(C, k) \in Nat /\ Sum(D, l) \in Nat
    <3>1. k + (i - 1) \in 0 .. Len(C) /\ l + (i - 1) \in 0 .. Len(D)
      BY <1>1, <2>4
    <3> QED  BY <1>1, <2>0, <3>1
  <2>b. Sum(C, k + i) + Sum(D, l) = Sum(D, l + i) + Sum(C, k)
    <3> DEFINE x == Sum(C, k + i)
               y == Sum(D, l + i)
               u == Sum(C, k + (i - 1))
               v == Sum(D, l + (i - 1))
               s == D[l + i].size
               e == Sum(C, k)
               f == Sum(D, l)
    <3>1. u + f = v + e /\ x = u + s /\ y = v + s
      BY <2>5, <2>7, <2>8, <2>9, Zenon
    <3>2. u \in Nat /\ v \in Nat /\ s \in Nat /\ e \in Nat /\ f \in Nat
      BY <2>9, <2>a
    <3> HIDE DEF x, y, u, v, s, e, f
    <3>3. x + f = y + e
      BY <3>1, <3>2
    <3> QED  BY <3>3 DEF x, y, e, f
  <2> QED  BY <2>i, <2>b
<1>3. b \in 0 .. b
  OBVIOUS
<1>4. Sum(C, k + b) + Sum(D, l) = Sum(D, l + b) + Sum(C, k)
  BY <1>2, <1>3
<1> QED  BY <1>4

LEMMA FirstOnesIs ==
  ASSUME NEW C, Listed(C), NEW k \in Nat
  PROVE  Part(C, 1, IF k <= Len(C) THEN k ELSE Len(C), FirstOnes(k, C))
<1> DEFINE l == IF k <= Len(C) THEN k ELSE Len(C)
<1>1. Len(C) \in Nat
  BY DEF Listed
<1>2. 1 \in 1 .. Len(C) + 1 /\ l \in 1 - 1 .. Len(C)
  BY <1>1
<1>3. FirstOnes(k, C) = SubSeq(C, 1, l)
  BY DEF FirstOnes
<1> HIDE DEF l
<1>4. Part(C, 1, l, FirstOnes(k, C))
  BY <1>2, <1>3, PartIs
<1> QED  BY <1>4 DEF l

LEMMA FirstOnesSize ==
  ASSUME NEW C, Listed(C), NEW k \in Nat
  PROVE  SizeOf(FirstOnes(k, C)) = Sum(C, IF k <= Len(C) THEN k ELSE Len(C))
<1> DEFINE l == IF k <= Len(C) THEN k ELSE Len(C)
           D == FirstOnes(k, C)
<1>1. Len(C) \in Nat /\ l \in Nat /\ l <= Len(C)
  BY DEF Listed
<1>2. Part(C, 1, l, D)
  BY FirstOnesIs
<1> HIDE DEF l, D
<1>3. Listed(D) /\ Len(D) = l /\ \A i \in 1 .. l : D[i] = C[i]
  BY <1>1, <1>2 DEF Part
<1>4. Sum(D, l) = Sum(C, l)
  BY <1>1, <1>3, SumAgrees
<1>5. SizeOf(D) = Sum(D, l)
  BY <1>3, SumFacts
<1> QED  BY <1>4, <1>5 DEF l, D

LEMMA SizeOne ==
  ASSUME NEW x, NEW C, C = <<x>>, x.size \in Nat
  PROVE  SizeOf(C) = x.size /\ Sized(C)
<1>1. Listed(C) /\ Len(C) = 1 /\ C[1] = x
  BY ListedOne
<1>2. Sum(C, 0) = 0 /\ SizeOf(C) = Sum(C, 1) /\ Sum(C, 1) = Sum(C, 1 - 1) + C[1].size
  BY <1>1, SumFacts
<1> QED  BY <1>1, <1>2 DEF Sized

LEMMA SizeNone ==
  ASSUME NEW C, Listed(C), Len(C) = 0
  PROVE  SizeOf(C) = 0 /\ Sized(C)
BY SumFacts DEF Sized

LEMMA SizeNat ==
  ASSUME NEW C, Sized(C)
  PROVE  SizeOf(C) \in Nat
<1>1. Len(C) \in Nat /\ Listed(C)
  BY DEF Sized, Listed
<1>2. Len(C) \in 0 .. Len(C)
  BY <1>1
<1> QED  BY <1>1, <1>2, SumNat, SumFacts

LEMMA SizeCat ==
  ASSUME NEW C, NEW D, NEW E, Sized(C), Sized(D), Cat(C, D, E)
  PROVE  Sized(E) /\ SizeOf(E) = SizeOf(C) + SizeOf(D)
<1>1. /\ Len(C) \in Nat /\ Listed(C) /\ Len(D) \in Nat /\ Listed(D)
      /\ \A i \in 1 .. Len(C) : C[i].size \in Nat
      /\ \A i \in 1 .. Len(D) : D[i].size \in Nat
  BY DEF Sized, Listed
<1>2. /\ Listed(E) /\ Len(E) = Len(C) + Len(D)
      /\ \A i \in 1 .. Len(C) : E[i] = C[i]
      /\ \A i \in 1 .. Len(D) : E[Len(C) + i] = D[i]
  BY DEF Cat
<1>3. ASSUME NEW i \in 1 .. Len(E) PROVE E[i].size \in Nat
  <2>1. CASE i <= Len(C)
    BY <1>1, <1>2, <2>1
  <2>2. CASE i > Len(C)
    <3>1. i - Len(C) \in 1 .. Len(D) /\ Len(C) + (i - Len(C)) = i
      BY <1>1, <1>2, <2>2
    <3>2. E[Len(C) + (i - Len(C))] = D[i - Len(C)]
      BY <1>2, <3>1
    <3> QED  BY <1>1, <3>1, <3>2
  <2> QED  BY <1>1, <1>2, <2>1, <2>2
<1>4. Sized(E)
  BY <1>2, <1>3 DEF Sized
<1>5. Sum(E, Len(C)) = Sum(C, Len(C))
  <2>1. Len(C) <= Len(C) /\ Len(C) <= Len(E)
    BY <1>1, <1>2
  <2> QED  BY <1>1, <1>2, <2>1, SumAgrees, Zenon
<1>6. Sum(D, Len(D)) + Sum(E, Len(C)) = Sum(E, Len(E)) + Sum(D, 0)
  <2>1. /\ Len(D) = 0 + Len(D) /\ Len(E) = Len(C) + Len(D) /\ 0 \in Nat
        /\ Len(D) <= Len(D) /\ Len(E) <= Len(E)
    BY <1>1, <1>2
  <2>2. Alike(D, 0, E, Len(C), Len(D))
    BY <1>1, <1>2 DEF Alike
  <2> QED  BY <1>1, <1>4, <2>1, <2>2, SumShifts
<1>7. /\ SizeOf(E) = Sum(E, Len(E)) /\ SizeOf(C) = Sum(C, Len(C))
      /\ SizeOf(D) = Sum(D, Len(D)) /\ Sum(D, 0) = 0
  BY <1>1, <1>2, SumFacts
<1>8. SizeOf(E) \in Nat /\ SizeOf(C) \in Nat /\ SizeOf(D) \in Nat
  BY <1>4, SizeNat
<1> QED  BY <1>4, <1>5, <1>6, <1>7, <1>8

(***************************************************************************)
(* Two lists that start with the same k nodes and end with the same ones:  *)
(* what differs is the a nodes of one and the b nodes of the other.        *)
(***************************************************************************)
Spliced(C, D, k, a, b) ==
  /\ k + a <= Len(C) /\ Len(D) + a = Len(C) + b
  /\ \A i \in 1 .. k : D[i] = C[i]
  /\ \A i \in 1 .. Len(C) - (k + a) : D[(k + b) + i] = C[(k + a) + i]

LEMMA SizeSpliced ==
  ASSUME NEW C, NEW D, Sized(C), Sized(D), NEW k \in Nat, NEW a \in Nat, NEW b \in Nat,
         Spliced(C, D, k, a, b)
  PROVE  /\ Sum(D, k) = Sum(C, k)
         /\ SizeOf(D) + Sum(C, k + a) = SizeOf(C) + Sum(D, k + b)
<1> DEFINE e == Len(C) - (k + a)
<1>1. /\ Len(C) \in Nat /\ Len(D) \in Nat /\ Listed(C) /\ Listed(D)
  BY DEF Sized, Listed
<1>2. /\ e \in Nat /\ (k + a) + e = Len(C) /\ (k + b) + e = Len(D)
      /\ k <= Len(C) /\ k <= Len(D) /\ k + a \in Nat /\ k + b \in Nat
      /\ (k + a) + e <= Len(C) /\ (k + b) + e <= Len(D)
  BY <1>1 DEF Spliced
<1>3. \A i \in 1 .. e : D[(k + b) + i] = C[(k + a) + i]
  BY DEF Spliced
<1> HIDE DEF e
<1>4. Sum(D, Len(D)) + Sum(C, k + a) = Sum(C, Len(C)) + Sum(D, k + b)
  <2> DEFINE p == k + a
             q == k + b
  <2>1. /\ p \in Nat /\ q \in Nat /\ e \in Nat /\ Len(C) = p + e /\ Len(D) = q + e
        /\ Len(C) <= Len(C) /\ Len(D) <= Len(D)
        /\ Alike(D, q, C, p, e)
    BY <1>1, <1>2, <1>3 DEF Alike
  <2> HIDE DEF p, q
  <2>2. Sum(D, Len(D)) + Sum(C, p) = Sum(C, Len(C)) + Sum(D, q)
    BY <2>1, SumShifts
  <2> QED  BY <2>2 DEF p, q
<1>5. Sum(D, k) = Sum(C, k)
  <2>1. \A i \in 1 .. k : D[i] = C[i]
    BY DEF Spliced
  <2> QED  BY <1>1, <1>2, <2>1, SumAgrees
<1>6. SizeOf(C) = Sum(C, Len(C)) /\ SizeOf(D) = Sum(D, Len(D))
  BY <1>1, SumFacts
<1> QED  BY <1>2, <1>4, <1>5, <1>6

-----------------------------------------------------------------------------
(* The levels of a tree and the values within it.                          *)

LEMMA LevelsSame ==
  ASSUME NEW node, NEW n \in Nat, NEW m \in Nat, NEW t, NEW u,
         Levels(node, n, t), Levels(node, m, u), NEW k \in Nat, k <= n, k <= m
  PROVE  t[k] = u[k]
<1> DEFINE Bad == {i \in 0 .. k : t[i] # u[i]}
<1>1. ASSUME Bad # {} PROVE FALSE
  <2>1. Bad \in SUBSET Nat
    OBVIOUS
  <2>2. PICK i \in Bad : \A l \in Bad : i <= l
    BY <1>1, <2>1, LeastNumber
  <2>3. i # 0
    BY <2>2 DEF Levels
  <2>4. i \in 1 .. n /\ i \in 1 .. m /\ i - 1 \in 0 .. k /\ ~ (i <= i - 1)
    BY <2>2, <2>3
  <2>5. t[i - 1] = u[i - 1]
    BY <2>2, <2>4
  <2>6. t[i] = UNION {ToSet(x.children) : x \in t[i - 1]}
    BY <2>4 DEF Levels
  <2>7. u[i] = UNION {ToSet(x.children) : x \in u[i - 1]}
    BY <2>4 DEF Levels
  <2>8. t[i] = u[i]
    BY <2>5, <2>6, <2>7, Zenon
  <2> QED  BY <2>2, <2>8
<1>2. k \in 0 .. k
  OBVIOUS
<1> QED  BY <1>1, <1>2

LEMMA LevelZero ==
  ASSUME NEW n
  PROVE  Level(n, 0) = {n}
<1>1. PICK t : Levels(n, 0, t) /\ Level(n, 0) = t[0]
  BY LevelTurns
<1> QED  BY <1>1 DEF Levels

LEMMA LevelNext ==
  ASSUME NEW n, NEW k \in Nat, NEW j, j = k + 1
  PROVE  Level(n, j) = UNION {ToSet(x.children) : x \in Level(n, k)}
<1>1. PICK t : Levels(n, k, t) /\ Level(n, k) = t[k]
  BY LevelTurns
<1>2. j \in Nat
  OBVIOUS
<1>3. PICK u : Levels(n, j, u) /\ Level(n, j) = u[j]
  BY <1>2, LevelTurns
<1>4. k <= k /\ k <= j
  OBVIOUS
<1>5. t[k] = u[k]
  BY <1>1, <1>2, <1>3, <1>4, LevelsSame
<1>6. j \in 1 .. j /\ j - 1 = k
  OBVIOUS
<1>7. u[j] = UNION {ToSet(x.children) : x \in u[j - 1]}
  BY <1>3, <1>6 DEF Levels
<1> QED  BY <1>1, <1>3, <1>5, <1>6, <1>7

(* The levels below a node are those of its children.                      *)
LEMMA LevelTop ==
  ASSUME NEW n, NEW k \in Nat, NEW j, j = k + 1
  PROVE  Level(n, j) = UNION {Level(c, k) : c \in ToSet(n.children)}
<1> DEFINE Bad == {i \in Nat : ~ (Level(n, i + 1) = UNION {Level(c, i) : c \in ToSet(n.children)})}
<1>1. ASSUME Bad # {} PROVE FALSE
  <2>1. Bad \in SUBSET Nat
    OBVIOUS
  <2>2. PICK i \in Bad : \A l \in Bad : i <= l
    BY <1>1, <2>1, LeastNumber
  <2>3. CASE i = 0
    <3>0. 0 \in Nat /\ i + 1 = 0 + 1
      BY <2>3
    <3>1. Level(n, i + 1) = UNION {ToSet(x.children) : x \in Level(n, 0)}
      BY <3>0, LevelNext, Zenon
    <3>2. \A c : Level(c, 0) = {c}
      BY LevelZero
    <3>3. Level(n, i + 1) = ToSet(n.children)
      BY <3>1, <3>2
    <3>4. UNION {Level(c, 0) : c \in ToSet(n.children)} = ToSet(n.children)
      BY <3>2
    <3> QED  BY <2>2, <2>3, <3>3, <3>4
  <2>4. CASE i # 0
    <3>1. i - 1 \in Nat /\ ~ (i <= i - 1) /\ i = (i - 1) + 1 /\ i \in Nat
      BY <2>2, <2>4
    <3>2. Level(n, i) = UNION {Level(c, i - 1) : c \in ToSet(n.children)}
      <4>1. i - 1 \notin Bad
        BY <2>2, <3>1
      <4> QED  BY <3>1, <4>1
    <3>3. Level(n, i + 1) = UNION {ToSet(x.children) : x \in Level(n, i)}
      BY <3>1, LevelNext, Zenon
    <3>4. \A c : Level(c, i) = UNION {ToSet(x.children) : x \in Level(c, i - 1)}
      BY <3>1, LevelNext, Zenon
    <3>5. Level(n, i + 1) = UNION {Level(c, i) : c \in ToSet(n.children)}
      <4>1. ASSUME NEW y \in Level(n, i + 1) PROVE y \in UNION {Level(c, i) : c \in ToSet(n.children)}
        <5>1. PICK x \in Level(n, i) : y \in ToSet(x.children)
          BY <3>3
        <5>2. PICK c \in ToSet(n.children) : x \in Level(c, i - 1)
          BY <3>2
        <5>3. y \in Level(c, i)
          BY <3>4, <5>1, <5>2
        <5> QED  BY <5>3
      <4>2. ASSUME NEW c \in ToSet(n.children), NEW y \in Level(c, i) PROVE y \in Level(n, i + 1)
        <5>1. PICK x \in Level(c, i - 1) : y \in ToSet(x.children)
          BY <3>4
        <5>2. x \in Level(n, i)
          BY <3>2
        <5> QED  BY <3>3, <5>1, <5>2
      <4> QED  BY <4>1, <4>2
    <3> QED  BY <2>2, <3>5
  <2> QED  BY <2>3, <2>4
<1>2. k \notin Bad
  BY <1>1
<1> QED  BY <1>2

LEMMA WithinLeaf ==
  ASSUME NEW n
  PROVE  Within(n, 0) = ToSet(n.items)
<1>1. \A k \in 0 .. 0 : k = 0
  OBVIOUS
<1>2. UNION {Level(n, k) : k \in 0 .. 0} = {n}
  BY <1>1, LevelZero
<1> QED  BY <1>2 DEF Within

LEMMA WithinDown ==
  ASSUME NEW n, NEW g \in Nat, NEW h, h = g + 1
  PROVE  Within(n, h) = ToSet(n.items) \cup UNION {Within(c, g) : c \in ToSet(n.children)}
<1>0. \A m, j : \A v : v \in Within(m, j) <=> \E k \in 0 .. j : \E x \in Level(m, k) : v \in ToSet(x.items)
  BY DEF Within
<1>1. ASSUME NEW v \in Within(n, h)
      PROVE v \in ToSet(n.items) \/ \E c \in ToSet(n.children) : v \in Within(c, g)
  <2>1. PICK k \in 0 .. h : \E x \in Level(n, k) : v \in ToSet(x.items)
    BY <1>0
  <2>2. PICK x \in Level(n, k) : v \in ToSet(x.items)
    BY <2>1
  <2>3. CASE k = 0
    BY <2>2, <2>3, LevelZero
  <2>4. CASE k # 0
    <3>1. k - 1 \in 0 .. g /\ k - 1 \in Nat /\ k = (k - 1) + 1
      BY <2>4
    <3>2. Level(n, k) = UNION {Level(c, k - 1) : c \in ToSet(n.children)}
      BY <3>1, LevelTop, Zenon
    <3>3. PICK c \in ToSet(n.children) : x \in Level(c, k - 1)
      BY <3>2
    <3>4. v \in Within(c, g)
      BY <1>0, <2>2, <3>1, <3>3
    <3> QED  BY <3>4
  <2> QED  BY <2>3, <2>4
<1>2. ASSUME NEW v \in ToSet(n.items) PROVE v \in Within(n, h)
  <2>1. 0 \in 0 .. h /\ n \in Level(n, 0)
    BY LevelZero
  <2> QED  BY <1>0, <2>1
<1>3. ASSUME NEW c \in ToSet(n.children), NEW v \in Within(c, g) PROVE v \in Within(n, h)
  <2>1. PICK k \in 0 .. g : \E x \in Level(c, k) : v \in ToSet(x.items)
    BY <1>0
  <2>2. PICK x \in Level(c, k) : v \in ToSet(x.items)
    BY <2>1
  <2> DEFINE j == k + 1
  <2>3. k \in Nat /\ j = k + 1 /\ j \in 0 .. h
    OBVIOUS
  <2> HIDE DEF j
  <2>4. Level(n, j) = UNION {Level(y, k) : y \in ToSet(n.children)}
    BY <2>3, LevelTop
  <2>5. x \in Level(n, j)
    BY <2>4
  <2> QED  BY <1>0, <2>2, <2>3, <2>5
<1> QED  BY <1>1, <1>2, <1>3

-----------------------------------------------------------------------------
(* Rows: the items and the children of a node of h levels.                 *)

(* The values of a list of children of g levels.                           *)
Kids(C, g) == UNION {Within(C[i], g) : i \in 1 .. Len(C)}

Held(I, C, h) == ToSet(I) \cup Kids(C, h - 1)

NbKids(I, h) == IF h = 0 THEN 0 ELSE Len(I) + 1

(* The items are in order, and separate the values of the children.        *)
InOrder(lt, I) == \A i, j \in 1 .. Len(I) : i < j => Lesser(lt, I[i], I[j])

Between(lt, I, c, x) ==
  \A i \in 1 .. Len(I) : IF c <= i THEN Lesser(lt, x, I[i]) ELSE Lesser(lt, I[i], x)

Separated(lt, I, C, g) ==
  \A c \in 1 .. Len(C) : \A x \in Within(C[c], g) : Between(lt, I, c, x)

Arranged(lt, I, C, h) ==
  /\ h \in Nat
  /\ Listed(I) /\ \A i \in 1 .. Len(I) : I[i] \in Values
  /\ Listed(C) /\ Len(C) = NbKids(I, h)
  /\ \A c \in 1 .. Len(C) : Within(C[c], h - 1) \subseteq Values
  /\ InOrder(lt, I) /\ Separated(lt, I, C, h - 1)

(***************************************************************************)
(* A tree of h levels: every node of it is well formed and stores its      *)
(* size; the nodes below the first one are at least half full.             *)
(***************************************************************************)
Local(d, lt, x, j) ==
  /\ x = Node(x.items, x.children, x.size)
  /\ Arranged(lt, x.items, x.children, j)
  /\ Len(x.items) <= 2 * d
  /\ x.size \in Nat /\ x.size = Len(x.items) + SizeOf(x.children)

Tree(d, lt, n, h) ==
  \A k \in 0 .. h : \A x \in Level(n, k) :
    Local(d, lt, x, h - k) /\ (k # 0 => Len(x.items) >= d)

(* A row whose children are trees.                                         *)
Row(d, lt, I, C, h) ==
  /\ Arranged(lt, I, C, h)
  /\ \A c \in 1 .. Len(C) : Tree(d, lt, C[c], h - 1)

Full(d, C) == \A c \in 1 .. Len(C) : Len(C[c].items) >= d

LEMMA HeldIs ==
  ASSUME NEW n, NEW h \in Nat, Listed(n.items), Listed(n.children),
         Len(n.children) = NbKids(n.items, h)
  PROVE  Within(n, h) = Held(n.items, n.children, h)
<1>1. CASE h = 0
  <2>1. Len(n.children) = 0
    BY <1>1 DEF NbKids
  <2>2. Kids(n.children, h - 1) = {}
    BY <2>1 DEF Kids
  <2> QED  BY <1>1, <2>2, WithinLeaf DEF Held
<1>2. CASE h # 0
  <2>1. h - 1 \in Nat /\ h = (h - 1) + 1
    BY <1>2
  <2>2. Within(n, h) = ToSet(n.items) \cup UNION {Within(c, h - 1) : c \in ToSet(n.children)}
    BY <2>1, WithinDown, Zenon
  <2>3. UNION {Within(c, h - 1) : c \in ToSet(n.children)} = Kids(n.children, h - 1)
    BY ElementsOf DEF Kids
  <2> QED  BY <2>2, <2>3 DEF Held
<1> QED  BY <1>1, <1>2

LEMMA TreeUnfold ==
  ASSUME NEW d, NEW lt, NEW n, NEW h \in Nat, Tree(d, lt, n, h)
  PROVE  /\ Local(d, lt, n, h) /\ Row(d, lt, n.items, n.children, h)
         /\ Full(d, n.children) /\ Within(n, h) = Held(n.items, n.children, h)
<1>1. Local(d, lt, n, h)
  <2>1. 0 \in 0 .. h /\ n \in Level(n, 0) /\ h - 0 = h
    BY LevelZero
  <2> QED  BY <2>1 DEF Tree
<1>2. Arranged(lt, n.items, n.children, h)
  BY <1>1 DEF Local
<1>3. Listed(n.items) /\ Listed(n.children) /\ Len(n.children) = NbKids(n.items, h)
  BY <1>2 DEF Arranged
<1>4. Within(n, h) = Held(n.items, n.children, h)
  BY <1>3, HeldIs
<1>5. ASSUME NEW i \in 1 .. Len(n.children)
      PROVE Tree(d, lt, n.children[i], h - 1) /\ Len(n.children[i].items) >= d
  <2>1. h # 0
    BY <1>3 DEF NbKids
  <2> DEFINE c == n.children[i]
  <2>2. c \in ToSet(n.children)
    BY <1>3, ElementsOf
  <2> HIDE DEF c
  <2>3. ASSUME NEW k \in 0 .. h - 1, NEW x \in Level(c, k)
        PROVE Local(d, lt, x, (h - 1) - k) /\ Len(x.items) >= d
    <3> DEFINE j == k + 1
    <3>1. k \in Nat /\ j = k + 1 /\ j \in 0 .. h /\ j # 0 /\ h - j = (h - 1) - k
      BY <2>1
    <3> HIDE DEF j
    <3>2. Level(n, j) = UNION {Level(y, k) : y \in ToSet(n.children)}
      BY <3>1, LevelTop
    <3>3. x \in Level(n, j)
      BY <2>2, <3>2
    <3>4. Local(d, lt, x, h - j) /\ Len(x.items) >= d
      BY <3>1, <3>3 DEF Tree
    <3> QED  BY <3>1, <3>4
  <2>4. Tree(d, lt, c, h - 1)
    BY <2>3 DEF Tree
  <2>5. 0 \in 0 .. h - 1 /\ c \in Level(c, 0)
    BY <2>1, LevelZero
  <2>6. Len(c.items) >= d
    BY <2>3, <2>5
  <2> QED  BY <2>4, <2>6 DEF c
<1> QED  BY <1>1, <1>2, <1>4, <1>5 DEF Row, Full

LEMMA TreeFold ==
  ASSUME NEW d, NEW lt, NEW n, NEW h \in Nat, Local(d, lt, n, h),
         Row(d, lt, n.items, n.children, h), Full(d, n.children)
  PROVE  Tree(d, lt, n, h)
<1>1. Listed(n.children) /\ Len(n.children) = NbKids(n.items, h)
  BY DEF Local, Arranged
<1>2. ASSUME NEW k \in 0 .. h, NEW x \in Level(n, k)
      PROVE Local(d, lt, x, h - k) /\ (k # 0 => Len(x.items) >= d)
  <2>1. CASE k = 0
    <3>1. x = n /\ h - k = h
      BY <2>1, LevelZero
    <3> QED  BY <2>1, <3>1
  <2>2. CASE k # 0
    <3> DEFINE j == k - 1
    <3>1. j \in Nat /\ k = j + 1 /\ j \in 0 .. h - 1 /\ (h - 1) - j = h - k
      BY <2>2
    <3> HIDE DEF j
    <3>2. Level(n, k) = UNION {Level(y, j) : y \in ToSet(n.children)}
      BY <3>1, LevelTop
    <3>3. PICK c \in ToSet(n.children) : x \in Level(c, j)
      BY <3>2
    <3>4. PICK i \in 1 .. Len(n.children) : c = n.children[i]
      BY <1>1, ElementsOf
    <3>5. Tree(d, lt, c, h - 1) /\ Len(c.items) >= d
      BY <3>4 DEF Row, Full
    <3>6. Local(d, lt, x, (h - 1) - j) /\ (j # 0 => Len(x.items) >= d)
      BY <3>1, <3>3, <3>5 DEF Tree
    <3>7. j = 0 => x = c
      BY <3>3, LevelZero
    <3> QED  BY <3>1, <3>5, <3>6, <3>7
  <2> QED  BY <2>1, <2>2
<1> QED  BY <1>2 DEF Tree

-----------------------------------------------------------------------------
(* Trees and rows.                                                         *)

LEMMA LesserOrder ==
  ASSUME NEW lt
  PROVE  \A x, y, z \in Values :
           /\ ~ Lesser(lt, x, x)
           /\ Lesser(lt, x, y) /\ Lesser(lt, y, z) => Lesser(lt, x, z)
           /\ Lesser(lt, x, y) \/ x = y \/ Lesser(lt, y, x)
           /\ ~ (Lesser(lt, x, y) /\ Lesser(lt, y, x))
BY ValuesAssumption DEF Lesser

LEMMA HeldHas ==
  ASSUME NEW I, NEW C, NEW h, Listed(I)
  PROVE  \A y : y \in Held(I, C, h) <=>
           \/ \E i \in 1 .. Len(I) : y = I[i]
           \/ \E c \in 1 .. Len(C) : y \in Within(C[c], h - 1)
BY ElementsOf DEF Held, Kids

LEMMA NodeFields ==
  ASSUME NEW I, NEW C, NEW s
  PROVE  Node(I, C, s).items = I /\ Node(I, C, s).children = C /\ Node(I, C, s).size = s
BY DEF Node

LEMMA HeldValues ==
  ASSUME NEW lt, NEW I, NEW C, NEW h, Arranged(lt, I, C, h)
  PROVE  Held(I, C, h) \subseteq Values
<1>1. \A y : y \in Held(I, C, h) <=>
           \/ \E i \in 1 .. Len(I) : y = I[i]
           \/ \E c \in 1 .. Len(C) : y \in Within(C[c], h - 1)
  BY HeldHas DEF Arranged
<1> QED  BY <1>1 DEF Arranged

LEMMA TreeFacts ==
  ASSUME NEW d, NEW lt, NEW n, NEW h \in Nat, Tree(d, lt, n, h)
  PROVE  /\ n = Node(n.items, n.children, n.size)
         /\ Listed(n.items) /\ Listed(n.children) /\ Len(n.items) \in Nat
         /\ Len(n.children) = NbKids(n.items, h)
         /\ Len(n.items) <= 2 * d
         /\ n.size \in Nat /\ n.size = Len(n.items) + SizeOf(n.children)
         /\ \A i \in 1 .. Len(n.items) : n.items[i] \in Values
         /\ Within(n, h) \subseteq Values
<1>1. /\ Local(d, lt, n, h) /\ Within(n, h) = Held(n.items, n.children, h)
  BY TreeUnfold
<1>2. Arranged(lt, n.items, n.children, h)
  BY <1>1 DEF Local
<1>3. Within(n, h) \subseteq Values
  BY <1>1, <1>2, HeldValues
<1> QED  BY <1>1, <1>2, <1>3 DEF Local, Arranged, Listed

LEMMA RowSized ==
  ASSUME NEW d, NEW lt, NEW I, NEW C, NEW h, Row(d, lt, I, C, h)
  PROVE  Sized(C) /\ SizeOf(C) \in Nat
<1>1. h \in Nat /\ Listed(C) /\ Listed(I) /\ Len(C) = NbKids(I, h)
  BY DEF Row, Arranged
<1>2. CASE h = 0
  <2>1. Len(C) = 0
    BY <1>1, <1>2 DEF NbKids
  <2> QED  BY <1>1, <2>1, SizeNone
<1>3. CASE h # 0
  <2>1. h - 1 \in Nat
    BY <1>1, <1>3
  <2>2. \A i \in 1 .. Len(C) : C[i].size \in Nat
    BY <2>1, TreeFacts DEF Row
  <2>3. Sized(C)
    BY <1>1, <2>2 DEF Sized
  <2> QED  BY <2>3, SizeNat
<1> QED  BY <1>2, <1>3

LEMMA TreeMake ==
  ASSUME NEW d, NEW lt, NEW I, NEW C, NEW h, Row(d, lt, I, C, h), Full(d, C),
         Len(I) <= 2 * d, NEW s, s = Len(I) + SizeOf(C)
  PROVE  /\ Tree(d, lt, Node(I, C, s), h)
         /\ Within(Node(I, C, s), h) = Held(I, C, h)
<1> DEFINE n == Node(I, C, s)
<1>1. h \in Nat /\ Arranged(lt, I, C, h) /\ Len(I) \in Nat
  BY DEF Row, Arranged, Listed
<1>2. n = Node(n.items, n.children, n.size) /\ n.items = I /\ n.children = C /\ n.size = s
  BY NodeFields
<1> HIDE DEF n
<1>3. s \in Nat
  <2>1. SizeOf(C) \in Nat
    BY RowSized
  <2> QED  BY <1>1, <2>1
<1>4. Local(d, lt, n, h)
  BY <1>1, <1>2, <1>3 DEF Local
<1>5. Row(d, lt, n.items, n.children, h) /\ Full(d, n.children)
  BY <1>2
<1>6. Tree(d, lt, n, h)
  BY <1>1, <1>4, <1>5, TreeFold
<1>7. Within(n, h) = Held(n.items, n.children, h)
  BY <1>1, <1>6, TreeUnfold
<1> QED  BY <1>2, <1>6, <1>7 DEF n

(* Nothing is twice in a row.                                              *)
LEMMA RowDisjoint ==
  ASSUME NEW lt, NEW I, NEW C, NEW h, Arranged(lt, I, C, h)
  PROVE  /\ \A i, j \in 1 .. Len(I) : I[i] = I[j] => i = j
         /\ \A c \in 1 .. Len(C) : \A i \in 1 .. Len(I) : I[i] \notin Within(C[c], h - 1)
         /\ \A c, e \in 1 .. Len(C) : c < e =>
              \A x \in Within(C[c], h - 1) : \A y \in Within(C[e], h - 1) : Lesser(lt, x, y)
         /\ \A c, e \in 1 .. Len(C) : c # e =>
              \A x \in Within(C[c], h - 1) : x \notin Within(C[e], h - 1)
<1>1. /\ h \in Nat /\ Len(I) \in Nat /\ Len(C) \in Nat
      /\ \A i \in 1 .. Len(I) : I[i] \in Values
      /\ \A c \in 1 .. Len(C) : Within(C[c], h - 1) \subseteq Values
      /\ Len(C) = 0 \/ Len(C) = Len(I) + 1
      /\ InOrder(lt, I) /\ Separated(lt, I, C, h - 1)
  BY DEF Arranged, Listed, NbKids
<1>2. ASSUME NEW i \in 1 .. Len(I), NEW j \in 1 .. Len(I), I[i] = I[j] PROVE i = j
  <2>1. ~ (i < j) /\ ~ (j < i)
    BY <1>1, <1>2, LesserOrder DEF InOrder
  <2> QED  BY <2>1
<1>3. ASSUME NEW c \in 1 .. Len(C), NEW i \in 1 .. Len(I) PROVE I[i] \notin Within(C[c], h - 1)
  BY <1>1, LesserOrder DEF Separated, Between
<1>4. ASSUME NEW c \in 1 .. Len(C), NEW e \in 1 .. Len(C), c < e,
             NEW x \in Within(C[c], h - 1), NEW y \in Within(C[e], h - 1)
      PROVE Lesser(lt, x, y)
  <2>1. c \in 1 .. Len(I) /\ c <= c /\ ~ (e <= c)
    BY <1>1, <1>4
  <2>2. Lesser(lt, x, I[c]) /\ Lesser(lt, I[c], y)
    BY <1>1, <2>1 DEF Separated, Between
  <2>3. x \in Values /\ y \in Values /\ I[c] \in Values
    BY <1>1, <2>1
  <2> QED  BY <2>2, <2>3, LesserOrder
<1>5. ASSUME NEW c \in 1 .. Len(C), NEW e \in 1 .. Len(C), c # e, NEW x \in Within(C[c], h - 1),
             x \in Within(C[e], h - 1)
      PROVE FALSE
  <2>1. Lesser(lt, x, x)
    <3>1. c < e \/ e < c
      BY <1>5
    <3> QED  BY <1>4, <1>5, <3>1
  <2> QED  BY <1>1, <2>1, LesserOrder
<1> QED  BY <1>2, <1>3, <1>4, <1>5

LEMMA AroundAt ==
  ASSUME NEW s, NEW x, NEW t, NEW r, Around(s, x, t, r), Listed(s), Listed(t)
  PROVE  /\ Len(s) \in Nat /\ Len(t) \in Nat /\ Len(r) = Len(s) + 1 + Len(t)
         /\ \A i \in 1 .. Len(r) :
              \/ i \in 1 .. Len(s) /\ r[i] = s[i]
              \/ i = Len(s) + 1 /\ r[i] = x
              \/ /\ i > Len(s) + 1 /\ i - (Len(s) + 1) \in 1 .. Len(t)
                 /\ r[i] = t[i - (Len(s) + 1)]
<1>1. Len(s) \in Nat /\ Len(t) \in Nat /\ Len(r) = Len(s) + 1 + Len(t)
  BY DEF Around, Listed
<1>2. ASSUME NEW i \in 1 .. Len(r), i > Len(s) + 1
      PROVE i - (Len(s) + 1) \in 1 .. Len(t) /\ r[i] = t[i - (Len(s) + 1)]
  <2> DEFINE j == i - (Len(s) + 1)
  <2>1. j \in 1 .. Len(t) /\ i = Len(s) + 1 + j
    BY <1>1, <1>2
  <2> HIDE DEF j
  <2>2. r[i] = t[j]
    BY <2>1 DEF Around
  <2> QED  BY <2>1, <2>2 DEF j
<1>3. ASSUME NEW i \in 1 .. Len(r)
      PROVE i \in 1 .. Len(s) \/ i = Len(s) + 1 \/ i > Len(s) + 1
  BY <1>1
<1> QED  BY <1>1, <1>2, <1>3 DEF Around

LEMMA CatAt ==
  ASSUME NEW s, NEW t, NEW r, Cat(s, t, r), Listed(s), Listed(t)
  PROVE  /\ Len(s) \in Nat /\ Len(t) \in Nat /\ Len(r) = Len(s) + Len(t)
         /\ \A i \in 1 .. Len(r) :
              \/ i \in 1 .. Len(s) /\ r[i] = s[i]
              \/ /\ i > Len(s) /\ i - Len(s) \in 1 .. Len(t)
                 /\ r[i] = t[i - Len(s)]
<1>1. Len(s) \in Nat /\ Len(t) \in Nat /\ Len(r) = Len(s) + Len(t)
  BY DEF Cat, Listed
<1>2. ASSUME NEW i \in 1 .. Len(r), i > Len(s)
      PROVE i - Len(s) \in 1 .. Len(t) /\ r[i] = t[i - Len(s)]
  <2> DEFINE j == i - Len(s)
  <2>1. j \in 1 .. Len(t) /\ i = Len(s) + j
    BY <1>1, <1>2
  <2> HIDE DEF j
  <2>2. r[i] = t[j]
    BY <2>1 DEF Cat
  <2> QED  BY <2>1, <2>2 DEF j
<1>3. ASSUME NEW i \in 1 .. Len(r)
      PROVE i \in 1 .. Len(s) \/ i > Len(s)
  BY <1>1
<1> QED  BY <1>1, <1>2, <1>3 DEF Cat

(***************************************************************************)
(* Two rows with an item between them.                                     *)
(***************************************************************************)
Divided(I1, C1, x, I2, C2, I, C) == Around(I1, x, I2, I) /\ Cat(C1, C2, C)

LEMMA DividedHeld ==
  ASSUME NEW I1, NEW C1, NEW x, NEW I2, NEW C2, NEW I, NEW C, NEW h,
         Listed(I1), Listed(C1), Listed(I2), Listed(C2), Divided(I1, C1, x, I2, C2, I, C)
  PROVE  Held(I, C, h) = Held(I1, C1, h) \cup {x} \cup Held(I2, C2, h)
<1>1. Around(I1, x, I2, I) /\ Cat(C1, C2, C) /\ Listed(I) /\ Listed(C)
  BY DEF Divided, Around, Cat
<1>2. /\ \A y : y \in Held(I, C, h) <=>
           \/ \E i \in 1 .. Len(I) : y = I[i]
           \/ \E c \in 1 .. Len(C) : y \in Within(C[c], h - 1)
      /\ \A y : y \in Held(I1, C1, h) <=>
           \/ \E i \in 1 .. Len(I1) : y = I1[i]
           \/ \E c \in 1 .. Len(C1) : y \in Within(C1[c], h - 1)
      /\ \A y : y \in Held(I2, C2, h) <=>
           \/ \E i \in 1 .. Len(I2) : y = I2[i]
           \/ \E c \in 1 .. Len(C2) : y \in Within(C2[c], h - 1)
  BY <1>1, HeldHas
<1>i. \A i \in 1 .. Len(I) :
        \/ i \in 1 .. Len(I1) /\ I[i] = I1[i]
        \/ i = Len(I1) + 1 /\ I[i] = x
        \/ /\ i > Len(I1) + 1 /\ i - (Len(I1) + 1) \in 1 .. Len(I2)
           /\ I[i] = I2[i - (Len(I1) + 1)]
  BY <1>1, AroundAt
<1>c. \A c \in 1 .. Len(C) :
        \/ c \in 1 .. Len(C1) /\ C[c] = C1[c]
        \/ c > Len(C1) /\ c - Len(C1) \in 1 .. Len(C2) /\ C[c] = C2[c - Len(C1)]
  BY <1>1, CatAt
<1>3. ASSUME NEW y \in Held(I, C, h) PROVE y \in Held(I1, C1, h) \cup {x} \cup Held(I2, C2, h)
  <2>1. CASE \E i \in 1 .. Len(I) : y = I[i]
    <3>1. PICK i \in 1 .. Len(I) : y = I[i]
      BY <2>1
    <3>2. \/ i \in 1 .. Len(I1) /\ y = I1[i]
          \/ y = x
          \/ i - (Len(I1) + 1) \in 1 .. Len(I2) /\ y = I2[i - (Len(I1) + 1)]
      BY <1>i, <3>1, Zenon
    <3> QED  BY <1>2, <3>2, Zenon
  <2>2. CASE \E c \in 1 .. Len(C) : y \in Within(C[c], h - 1)
    <3>1. PICK c \in 1 .. Len(C) : y \in Within(C[c], h - 1)
      BY <2>2
    <3>2. \/ c \in 1 .. Len(C1) /\ C[c] = C1[c]
          \/ c - Len(C1) \in 1 .. Len(C2) /\ C[c] = C2[c - Len(C1)]
      BY <1>c, <3>1, Zenon
    <3> QED  BY <1>2, <3>1, <3>2
  <2> QED  BY <1>2, <2>1, <2>2
<1>4. Len(I1) \in Nat /\ Len(I2) \in Nat /\ Len(C1) \in Nat /\ Len(C2) \in Nat
  BY DEF Listed
<1>5. /\ \A i \in 1 .. Len(I1) : i \in 1 .. Len(I) /\ I[i] = I1[i]
      /\ Len(I1) + 1 \in 1 .. Len(I) /\ I[Len(I1) + 1] = x
      /\ \A i \in 1 .. Len(I2) : Len(I1) + 1 + i \in 1 .. Len(I) /\ I[Len(I1) + 1 + i] = I2[i]
      /\ \A i \in 1 .. Len(C1) : i \in 1 .. Len(C) /\ C[i] = C1[i]
      /\ \A i \in 1 .. Len(C2) : Len(C1) + i \in 1 .. Len(C) /\ C[Len(C1) + i] = C2[i]
  BY <1>1, <1>4 DEF Around, Cat
<1>6. Held(I1, C1, h) \subseteq Held(I, C, h)
  BY <1>2, <1>5
<1>7. Held(I2, C2, h) \subseteq Held(I, C, h)
  <2>1. ASSUME NEW i \in 1 .. Len(I2) PROVE I2[i] \in Held(I, C, h)
    BY <1>2, <1>5
  <2>2. ASSUME NEW c \in 1 .. Len(C2), NEW y \in Within(C2[c], h - 1) PROVE y \in Held(I, C, h)
    <3> DEFINE e == Len(C1) + c
    <3>1. e \in 1 .. Len(C) /\ C[e] = C2[c]
      BY <1>5
    <3> HIDE DEF e
    <3> QED  BY <1>2, <3>1
  <2> QED  BY <1>2, <2>1, <2>2
<1>8. x \in Held(I, C, h)
  BY <1>2, <1>5
<1> QED  BY <1>3, <1>6, <1>7, <1>8

LEMMA JoinArranged ==
  ASSUME NEW lt, NEW I1, NEW C1, NEW x \in Values, NEW I2, NEW C2, NEW I, NEW C, NEW h,
         Arranged(lt, I1, C1, h), Arranged(lt, I2, C2, h), Divided(I1, C1, x, I2, C2, I, C),
         \A y \in Held(I1, C1, h) : Lesser(lt, y, x),
         \A y \in Held(I2, C2, h) : Lesser(lt, x, y)
  PROVE  Arranged(lt, I, C, h)
<1>1. /\ h \in Nat /\ Listed(I1) /\ Listed(C1) /\ Listed(I2) /\ Listed(C2)
      /\ Len(C1) = NbKids(I1, h) /\ Len(C2) = NbKids(I2, h)
      /\ Around(I1, x, I2, I) /\ Cat(C1, C2, C) /\ Listed(I) /\ Listed(C)
  BY DEF Arranged, Divided, Around, Cat
<1>2. /\ Len(I1) \in Nat /\ Len(I2) \in Nat /\ Len(I) = Len(I1) + 1 + Len(I2)
      /\ \A i \in 1 .. Len(I) :
              \/ i \in 1 .. Len(I1) /\ I[i] = I1[i]
              \/ i = Len(I1) + 1 /\ I[i] = x
              \/ /\ i > Len(I1) + 1 /\ i - (Len(I1) + 1) \in 1 .. Len(I2)
                 /\ I[i] = I2[i - (Len(I1) + 1)]
  BY <1>1, AroundAt
<1>3. /\ Len(C1) \in Nat /\ Len(C2) \in Nat /\ Len(C) = Len(C1) + Len(C2)
      /\ \A c \in 1 .. Len(C) :
              \/ c \in 1 .. Len(C1) /\ C[c] = C1[c]
              \/ /\ c > Len(C1) /\ c - Len(C1) \in 1 .. Len(C2)
                 /\ C[c] = C2[c - Len(C1)]
  <2>1. Cat(C1, C2, C) /\ Listed(C1) /\ Listed(C2)
    BY <1>1
  <2> QED  BY <2>1, CatAt, Zenon
<1>4. /\ \A i \in 1 .. Len(I1) : I1[i] \in Values /\ Lesser(lt, I1[i], x)
      /\ \A i \in 1 .. Len(I2) : I2[i] \in Values /\ Lesser(lt, x, I2[i])
      /\ \A c \in 1 .. Len(C1) : \A y \in Within(C1[c], h - 1) : y \in Values /\ Lesser(lt, y, x)
      /\ \A c \in 1 .. Len(C2) : \A y \in Within(C2[c], h - 1) : y \in Values /\ Lesser(lt, x, y)
  BY <1>1, HeldHas DEF Arranged
<1>5. /\ \A i, j \in 1 .. Len(I1) : i < j => Lesser(lt, I1[i], I1[j])
      /\ \A i, j \in 1 .. Len(I2) : i < j => Lesser(lt, I2[i], I2[j])
      /\ \A c \in 1 .. Len(C1) : \A y \in Within(C1[c], h - 1) : Between(lt, I1, c, y)
      /\ \A c \in 1 .. Len(C2) : \A y \in Within(C2[c], h - 1) : Between(lt, I2, c, y)
  BY DEF Arranged, InOrder, Separated
<1>6. Len(C) = NbKids(I, h)
  BY <1>1, <1>2, <1>3 DEF NbKids
<1>7. \A i \in 1 .. Len(I) : I[i] \in Values
  BY <1>2, <1>4
<1>8. \A c \in 1 .. Len(C) : Within(C[c], h - 1) \subseteq Values
  BY <1>3, <1>4
<1>9. ASSUME NEW i \in 1 .. Len(I), NEW j \in 1 .. Len(I), i < j PROVE Lesser(lt, I[i], I[j])
  <2>1. CASE j \in 1 .. Len(I1)
    <3>1. i \in 1 .. Len(I1) /\ ~ (i > Len(I1) + 1) /\ i # Len(I1) + 1 /\ ~ (j > Len(I1) + 1) /\ j # Len(I1) + 1
      BY <1>2, <1>9, <2>1
    <3>2. I[i] = I1[i] /\ I[j] = I1[j]
      BY <1>2, <3>1, <2>1
    <3> QED  BY <1>5, <1>9, <2>1, <3>1, <3>2
  <2>2. CASE j = Len(I1) + 1
    <3>1. i \in 1 .. Len(I1) /\ I[i] = I1[i] /\ I[j] = x
      BY <1>2, <1>9, <2>2
    <3> QED  BY <1>4, <3>1
  <2>3. CASE j > Len(I1) + 1
    <3> DEFINE l == j - (Len(I1) + 1)
    <3>1. l \in 1 .. Len(I2) /\ I[j] = I2[l]
      BY <1>2, <2>3
    <3>2. Lesser(lt, x, I[j]) /\ I[j] \in Values
      BY <1>4, <3>1
    <3>3. CASE i \in 1 .. Len(I1)
      <4>1. I[i] = I1[i]
        BY <1>2, <3>3
      <4>2. Lesser(lt, I[i], x) /\ I[i] \in Values
        BY <1>4, <3>3, <4>1
      <4> QED  BY <3>2, <4>2, LesserOrder
    <3>4. CASE i = Len(I1) + 1
      <4>1. I[i] = x
        BY <1>2, <3>4
      <4> QED  BY <3>2, <4>1
    <3>5. CASE i > Len(I1) + 1
      <4> DEFINE k == i - (Len(I1) + 1)
      <4>1. k \in 1 .. Len(I2) /\ I[i] = I2[k] /\ k < l
        BY <1>2, <1>9, <3>5
      <4> HIDE DEF k, l
      <4> QED  BY <1>5, <3>1, <4>1
    <3> QED  BY <1>2, <3>3, <3>4, <3>5
  <2> QED  BY <1>2, <2>1, <2>2, <2>3
<1>a. ASSUME NEW c \in 1 .. Len(C), NEW y \in Within(C[c], h - 1), NEW i \in 1 .. Len(I)
      PROVE IF c <= i THEN Lesser(lt, y, I[i]) ELSE Lesser(lt, I[i], y)
  <2>0. h # 0 /\ Len(C1) = Len(I1) + 1 /\ Len(C2) = Len(I2) + 1
    BY <1>1, <1>3 DEF NbKids
  <2>1. CASE c <= Len(C1)
    <3>1. c \in 1 .. Len(C1) /\ C[c] = C1[c] /\ y \in Within(C1[c], h - 1)
      BY <1>3, <2>1
    <3>2. Lesser(lt, y, x) /\ y \in Values /\ Between(lt, I1, c, y)
      BY <1>4, <1>5, <3>1
    <3>3. CASE i \in 1 .. Len(I1)
      <4>1. I[i] = I1[i]
        BY <1>2, <3>3
      <4> QED  BY <3>2, <3>3, <4>1 DEF Between
    <3>4. CASE i = Len(I1) + 1
      <4>1. I[i] = x /\ c <= i
        BY <1>2, <2>0, <2>1, <3>4
      <4> QED  BY <3>2, <4>1
    <3>5. CASE i > Len(I1) + 1
      <4>1. i - (Len(I1) + 1) \in 1 .. Len(I2) /\ I[i] = I2[i - (Len(I1) + 1)] /\ c <= i
        BY <1>2, <2>0, <2>1, <3>5
      <4>2. Lesser(lt, x, I[i]) /\ I[i] \in Values
        BY <1>4, <4>1
      <4> QED  BY <3>2, <4>1, <4>2, LesserOrder
    <3> QED  BY <1>2, <3>3, <3>4, <3>5
  <2>2. CASE c > Len(C1)
    <3> DEFINE e == c - Len(C1)
    <3>1. e \in 1 .. Len(C2) /\ C[c] = C2[e] /\ y \in Within(C2[e], h - 1)
      BY <1>3, <2>2
    <3>2. Lesser(lt, x, y) /\ y \in Values /\ Between(lt, I2, e, y)
      BY <1>4, <1>5, <3>1
    <3>3. CASE i \in 1 .. Len(I1)
      <4>1. I[i] = I1[i] /\ ~ (c <= i)
        BY <1>2, <2>0, <2>2, <3>3
      <4>2. Lesser(lt, I[i], x) /\ I[i] \in Values
        BY <1>4, <3>3, <4>1
      <4> QED  BY <3>2, <4>1, <4>2, LesserOrder
    <3>4. CASE i = Len(I1) + 1
      <4>1. I[i] = x /\ ~ (c <= i)
        BY <1>2, <2>0, <2>2, <3>4
      <4> QED  BY <3>2, <4>1
    <3>5. CASE i > Len(I1) + 1
      <4> DEFINE k == i - (Len(I1) + 1)
      <4>1. k \in 1 .. Len(I2) /\ I[i] = I2[k] /\ (e <= k <=> c <= i)
        BY <1>2, <1>3, <2>0, <3>5
      <4> HIDE DEF k, e
      <4> QED  BY <3>2, <4>1 DEF Between
    <3> QED  BY <1>2, <3>3, <3>4, <3>5
  <2> QED  BY <1>3, <2>1, <2>2
<1> QED  BY <1>1, <1>6, <1>7, <1>8, <1>9, <1>a DEF Arranged, InOrder, Separated, Between

LEMMA CutArranged ==
  ASSUME NEW lt, NEW I1, NEW C1, NEW x, NEW I2, NEW C2, NEW I, NEW C, NEW h,
         Arranged(lt, I, C, h), Divided(I1, C1, x, I2, C2, I, C),
         Listed(I1), Listed(C1), Listed(I2), Listed(C2), Len(C1) = NbKids(I1, h)
  PROVE  /\ Arranged(lt, I1, C1, h) /\ Arranged(lt, I2, C2, h) /\ x \in Values
         /\ \A y \in Held(I1, C1, h) : Lesser(lt, y, x)
         /\ \A y \in Held(I2, C2, h) : Lesser(lt, x, y)
<1>1. /\ h \in Nat /\ Listed(I) /\ Listed(C) /\ Len(C) = NbKids(I, h)
      /\ Around(I1, x, I2, I) /\ Cat(C1, C2, C)
      /\ Len(I1) \in Nat /\ Len(I2) \in Nat /\ Len(C1) \in Nat /\ Len(C2) \in Nat
      /\ Len(I) = Len(I1) + 1 + Len(I2) /\ Len(C) = Len(C1) + Len(C2)
  BY DEF Arranged, Divided, Around, Cat, Listed
<1>2. Len(C2) = NbKids(I2, h) /\ (Len(C1) = 0 \/ Len(C1) = Len(I1) + 1)
  BY <1>1 DEF NbKids
<1> DEFINE l == Len(I1) + 1
           g == Len(C1)
<1>3. l \in 1 .. Len(I) /\ I[l] = x /\ g \in Nat
  BY <1>1 DEF Around
<1>4. \A i \in 1 .. Len(I1) : i \in 1 .. Len(I) /\ I[i] = I1[i] /\ i < l
  BY <1>1 DEF Around
<1>5. \A i \in 1 .. Len(I2) : l + i \in 1 .. Len(I) /\ I[l + i] = I2[i] /\ l < l + i
  BY <1>1 DEF Around
<1>6. \A c \in 1 .. Len(C1) : c \in 1 .. Len(C) /\ C[c] = C1[c] /\ c <= l
  BY <1>1, <1>2 DEF Cat
<1>7. \A c \in 1 .. Len(C2) : g + c \in 1 .. Len(C) /\ C[g + c] = C2[c]
  BY <1>1 DEF Cat
<1>8. \A c \in 1 .. Len(C2) : g = l
  BY <1>1, <1>2 DEF NbKids
<1>9. /\ \A i \in 1 .. Len(I) : I[i] \in Values
      /\ \A c \in 1 .. Len(C) : Within(C[c], h - 1) \subseteq Values
      /\ \A i, j \in 1 .. Len(I) : i < j => Lesser(lt, I[i], I[j])
      /\ \A c \in 1 .. Len(C) : \A y \in Within(C[c], h - 1) : Between(lt, I, c, y)
  BY DEF Arranged, InOrder, Separated
<1> HIDE DEF l, g
<1>a. Arranged(lt, I1, C1, h)
  <2>1. InOrder(lt, I1)
    BY <1>4, <1>9 DEF InOrder
  <2>2. Separated(lt, I1, C1, h - 1)
    BY <1>4, <1>6, <1>9 DEF Separated, Between
  <2>3. \A i \in 1 .. Len(I1) : I1[i] \in Values
    BY <1>4, <1>9
  <2>4. \A c \in 1 .. Len(C1) : Within(C1[c], h - 1) \subseteq Values
    BY <1>6, <1>9
  <2> QED  BY <1>1, <2>1, <2>2, <2>3, <2>4 DEF Arranged
<1>b. Arranged(lt, I2, C2, h)
  <2>1. ASSUME NEW i \in 1 .. Len(I2), NEW j \in 1 .. Len(I2), i < j PROVE Lesser(lt, I2[i], I2[j])
    <3>1. l + i < l + j
      BY <1>3, <2>1
    <3> QED  BY <1>5, <1>9, <3>1
  <2>2. ASSUME NEW c \in 1 .. Len(C2), NEW y \in Within(C2[c], h - 1), NEW i \in 1 .. Len(I2)
        PROVE IF c <= i THEN Lesser(lt, y, I2[i]) ELSE Lesser(lt, I2[i], y)
    <3> DEFINE e == g + c
               k == l + i
    <3>1. e \in 1 .. Len(C) /\ C[e] = C2[c] /\ k \in 1 .. Len(I) /\ I[k] = I2[i] /\ (e <= k <=> c <= i)
      BY <1>3, <1>5, <1>7, <1>8
    <3> HIDE DEF e, k
    <3>2. Between(lt, I, e, y)
      BY <1>9, <3>1
    <3> QED  BY <3>1, <3>2 DEF Between
  <2>3. \A i \in 1 .. Len(I2) : I2[i] \in Values
    BY <1>5, <1>9
  <2>4. \A c \in 1 .. Len(C2) : Within(C2[c], h - 1) \subseteq Values
    BY <1>7, <1>9
  <2> QED  BY <1>1, <1>2, <2>1, <2>2, <2>3, <2>4 DEF Arranged, InOrder, Separated, Between
<1>c. ASSUME NEW y \in Held(I1, C1, h) PROVE Lesser(lt, y, x)
  <2>1. CASE \E i \in 1 .. Len(I1) : y = I1[i]
    BY <1>3, <1>4, <1>9, <2>1
  <2>2. CASE \E c \in 1 .. Len(C1) : y \in Within(C1[c], h - 1)
    <3>1. PICK c \in 1 .. Len(C1) : y \in Within(C1[c], h - 1)
      BY <2>2
    <3>2. Between(lt, I, c, y) /\ c <= l
      BY <1>6, <1>9, <3>1
    <3> QED  BY <1>3, <3>2 DEF Between
  <2> QED  BY <2>1, <2>2, HeldHas
<1>d. ASSUME NEW y \in Held(I2, C2, h) PROVE Lesser(lt, x, y)
  <2>1. CASE \E i \in 1 .. Len(I2) : y = I2[i]
    BY <1>3, <1>5, <1>9, <2>1
  <2>2. CASE \E c \in 1 .. Len(C2) : y \in Within(C2[c], h - 1)
    <3>1. PICK c \in 1 .. Len(C2) : y \in Within(C2[c], h - 1)
      BY <2>2
    <3> DEFINE e == g + c
    <3>2. e \in 1 .. Len(C) /\ C[e] = C2[c] /\ ~ (e <= l)
      BY <1>3, <1>7, <1>8
    <3> HIDE DEF e
    <3>3. Between(lt, I, e, y)
      BY <1>9, <3>1, <3>2
    <3> QED  BY <1>3, <3>2, <3>3 DEF Between
  <2> QED  BY <2>1, <2>2, HeldHas
<1> QED  BY <1>3, <1>9, <1>a, <1>b, <1>c, <1>d

(***************************************************************************)
(* A child of a row replaced by another.                                   *)
(***************************************************************************)
LEMMA ReplaceArranged ==
  ASSUME NEW lt, NEW I, NEW C, NEW h, Arranged(lt, I, C, h), NEW q \in 1 .. Len(C),
         NEW b, NEW D, With(C, q, b, D), Within(b, h - 1) \subseteq Values,
         \A y \in Within(b, h - 1) : Between(lt, I, q, y)
  PROVE  Arranged(lt, I, D, h)
<1>1. /\ Listed(D) /\ Len(D) = Len(C)
      /\ \A c \in 1 .. Len(C) : D[c] = IF c = q THEN b ELSE C[c]
  BY DEF With
<1>2. \A c \in 1 .. Len(D) : Within(D[c], h - 1) \subseteq Values
  BY <1>1 DEF Arranged
<1>3. Separated(lt, I, D, h - 1)
  BY <1>1 DEF Arranged, Separated
<1> QED  BY <1>1, <1>2, <1>3 DEF Arranged

(* S and T together; S but for x.                                          *)
Both(S, T, R) == R = S \cup T

But(S, x, R) == R = S \ {x}

Same(S, T) == S = T

LEMMA ReplaceAdd ==
  ASSUME NEW I, NEW C, NEW h, NEW q \in 1 .. Len(C), NEW b, NEW D, NEW v,
         With(C, q, b, D), Both(Within(C[q], h - 1), {v}, Within(b, h - 1))
  PROVE  Both(Held(I, C, h), {v}, Held(I, D, h))
<1>1. /\ Len(D) = Len(C)
      /\ \A c \in 1 .. Len(C) : D[c] = IF c = q THEN b ELSE C[c]
  BY DEF With
<1>2. Kids(D, h - 1) = Kids(C, h - 1) \cup {v}
  BY <1>1 DEF Kids, Both
<1> QED  BY <1>2 DEF Held, Both

LEMMA ReplaceLose ==
  ASSUME NEW lt, NEW I, NEW C, NEW h, Arranged(lt, I, C, h), NEW q \in 1 .. Len(C),
         NEW b, NEW D, With(C, q, b, D), NEW u \in Within(C[q], h - 1),
         But(Within(C[q], h - 1), u, Within(b, h - 1))
  PROVE  Arranged(lt, I, D, h) /\ But(Held(I, C, h), u, Held(I, D, h))
<1>0. Within(b, h - 1) = Within(C[q], h - 1) \ {u}
  BY DEF But
<1>1. /\ Len(D) = Len(C) /\ Listed(I)
      /\ \A c \in 1 .. Len(C) : D[c] = IF c = q THEN b ELSE C[c]
  BY DEF With, Arranged
<1>2. Arranged(lt, I, D, h)
  <2>1. Within(b, h - 1) \subseteq Values
    BY <1>0 DEF Arranged
  <2>2. \A y \in Within(b, h - 1) : Between(lt, I, q, y)
    BY <1>0 DEF Arranged, Separated
  <2> QED  BY <2>1, <2>2, ReplaceArranged
<1>3. /\ \A i \in 1 .. Len(I) : I[i] # u
      /\ \A c \in 1 .. Len(C) : c # q => u \notin Within(C[c], h - 1)
  <2>1. \A c \in 1 .. Len(C) : \A i \in 1 .. Len(I) : I[i] \notin Within(C[c], h - 1)
    BY RowDisjoint
  <2>2. \A c, e \in 1 .. Len(C) : c # e =>
              \A x \in Within(C[c], h - 1) : x \notin Within(C[e], h - 1)
    BY RowDisjoint
  <2> QED  BY <2>1, <2>2
<1>4. /\ \A y : y \in Held(I, C, h) <=>
           \/ \E i \in 1 .. Len(I) : y = I[i]
           \/ \E c \in 1 .. Len(C) : y \in Within(C[c], h - 1)
      /\ \A y : y \in Held(I, D, h) <=>
           \/ \E i \in 1 .. Len(I) : y = I[i]
           \/ \E c \in 1 .. Len(D) : y \in Within(D[c], h - 1)
  BY <1>1, HeldHas
<1>5. ASSUME NEW y \in Held(I, D, h) PROVE y \in Held(I, C, h) \ {u}
  BY <1>0, <1>1, <1>3, <1>4
<1>6. ASSUME NEW y \in Held(I, C, h) \ {u} PROVE y \in Held(I, D, h)
  BY <1>0, <1>1, <1>4
<1> QED  BY <1>2, <1>5, <1>6 DEF But

(***************************************************************************)
(* An item of a row and the children at its two sides replaced by others.  *)
(***************************************************************************)
Pivoted(I, C, q, u, l, r, J, D) ==
  /\ With(I, q, u, J) /\ Listed(D) /\ Len(D) = Len(C)
  /\ \A c \in 1 .. Len(C) : D[c] = IF c = q THEN l ELSE IF c = q + 1 THEN r ELSE C[c]

(* A value that is between the items before and after the item q.          *)
Fits(lt, I, q, y) ==
  \A i \in 1 .. Len(I) : (i < q => Lesser(lt, I[i], y)) /\ (q < i => Lesser(lt, y, I[i]))

(* The values at an item and within the children at its two sides.         *)
AtPivot(x, l, r, g) == Within(l, g) \cup {x} \cup Within(r, g)

LEMMA FitsIs ==
  ASSUME NEW lt, NEW I, NEW C, NEW h, Arranged(lt, I, C, h), h # 0, NEW q \in 1 .. Len(I)
  PROVE  \A y \in AtPivot(I[q], C[q], C[q + 1], h - 1) : Fits(lt, I, q, y)
<1>1. /\ Len(I) \in Nat /\ Len(C) = Len(I) + 1
      /\ \A i, j \in 1 .. Len(I) : i < j => Lesser(lt, I[i], I[j])
      /\ \A c \in 1 .. Len(C) : \A y \in Within(C[c], h - 1) : Between(lt, I, c, y)
  BY DEF Arranged, Listed, NbKids, InOrder, Separated
<1>2. q \in 1 .. Len(C) /\ q + 1 \in 1 .. Len(C)
  BY <1>1
<1>3. Fits(lt, I, q, I[q])
  BY <1>1 DEF Fits
<1>4. ASSUME NEW y \in Within(C[q], h - 1) PROVE Fits(lt, I, q, y)
  <2>1. Between(lt, I, q, y)
    BY <1>1, <1>2
  <2> QED  BY <2>1 DEF Between, Fits
<1>5. ASSUME NEW y \in Within(C[q + 1], h - 1) PROVE Fits(lt, I, q, y)
  <2>1. Between(lt, I, q + 1, y)
    BY <1>1, <1>2
  <2> QED  BY <2>1 DEF Between, Fits
<1> QED  BY <1>3, <1>4, <1>5 DEF AtPivot

LEMMA PivotArranged ==
  ASSUME NEW lt, NEW I, NEW C, NEW h, Arranged(lt, I, C, h), h # 0, NEW q \in 1 .. Len(I),
         NEW u \in Values, NEW l, NEW r, NEW J, NEW D, Pivoted(I, C, q, u, l, r, J, D),
         Within(l, h - 1) \subseteq Values, Within(r, h - 1) \subseteq Values,
         \A y \in AtPivot(u, l, r, h - 1) : Fits(lt, I, q, y),
         \A y \in Within(l, h - 1) : Lesser(lt, y, u),
         \A y \in Within(r, h - 1) : Lesser(lt, u, y)
  PROVE  Arranged(lt, J, D, h)
<1>1. /\ Len(I) \in Nat /\ Len(C) = Len(I) + 1 /\ h \in Nat
      /\ \A i \in 1 .. Len(I) : I[i] \in Values
      /\ \A c \in 1 .. Len(C) : Within(C[c], h - 1) \subseteq Values
      /\ \A i, j \in 1 .. Len(I) : i < j => Lesser(lt, I[i], I[j])
      /\ \A c \in 1 .. Len(C) : \A y \in Within(C[c], h - 1) : Between(lt, I, c, y)
  BY DEF Arranged, Listed, NbKids, InOrder, Separated
<1>2. /\ Listed(J) /\ Len(J) = Len(I) /\ Listed(D) /\ Len(D) = Len(C)
      /\ \A i \in 1 .. Len(I) : J[i] = IF i = q THEN u ELSE I[i]
      /\ \A c \in 1 .. Len(C) : D[c] = IF c = q THEN l ELSE IF c = q + 1 THEN r ELSE C[c]
  BY DEF Pivoted, With
<1>3. \A i \in 1 .. Len(J) : J[i] \in Values
  BY <1>1, <1>2
<1>4. \A c \in 1 .. Len(D) : Within(D[c], h - 1) \subseteq Values
  BY <1>1, <1>2
<1>5. Len(D) = NbKids(J, h)
  BY <1>1, <1>2 DEF NbKids
<1>6. \A i \in 1 .. Len(I) : (i < q => Lesser(lt, I[i], u)) /\ (q < i => Lesser(lt, u, I[i]))
  BY DEF AtPivot, Fits
<1>7. InOrder(lt, J)
  BY <1>1, <1>2, <1>6 DEF InOrder
<1>8. ASSUME NEW c \in 1 .. Len(D), NEW y \in Within(D[c], h - 1), NEW i \in 1 .. Len(J)
      PROVE IF c <= i THEN Lesser(lt, y, J[i]) ELSE Lesser(lt, J[i], y)
  <2>1. CASE c = q
    <3>1. y \in Within(l, h - 1) /\ Fits(lt, I, q, y) /\ Lesser(lt, y, u)
      BY <1>2, <2>1 DEF AtPivot
    <3> QED  BY <1>1, <1>2, <2>1, <3>1 DEF Fits
  <2>2. CASE c = q + 1
    <3>1. y \in Within(r, h - 1) /\ Fits(lt, I, q, y) /\ Lesser(lt, u, y)
      BY <1>2, <2>2 DEF AtPivot
    <3> QED  BY <1>1, <1>2, <2>2, <3>1 DEF Fits
  <2>3. CASE c # q /\ c # q + 1
    <3>1. y \in Within(C[c], h - 1) /\ Between(lt, I, c, y) /\ y \in Values
      BY <1>1, <1>2, <2>3
    <3>2. CASE i # q
      BY <1>2, <3>1, <3>2 DEF Between
    <3>3. CASE i = q /\ c < q
      <4>1. c \in 1 .. Len(I) /\ c <= c /\ c <= i
        BY <1>1, <3>3
      <4>2. Lesser(lt, y, I[c]) /\ Lesser(lt, I[c], u) /\ I[c] \in Values
        BY <1>1, <1>6, <3>1, <3>3, <4>1 DEF Between
      <4>3. Lesser(lt, y, u)
        BY <3>1, <4>2, LesserOrder
      <4> QED  BY <1>2, <3>3, <4>1, <4>3
    <3>4. CASE i = q /\ c > q + 1
      <4> DEFINE k == c - 1
      <4>1. k \in 1 .. Len(I) /\ ~ (c <= k) /\ ~ (c <= i) /\ q < k
        BY <1>1, <1>2, <3>4
      <4> HIDE DEF k
      <4>2. Lesser(lt, I[k], y) /\ Lesser(lt, u, I[k]) /\ I[k] \in Values
        BY <1>1, <1>6, <3>1, <4>1 DEF Between
      <4>3. Lesser(lt, u, y)
        BY <3>1, <4>2, LesserOrder
      <4> QED  BY <1>2, <3>4, <4>1, <4>3
    <3> QED  BY <1>1, <1>2, <2>3, <3>2, <3>3, <3>4
  <2> QED  BY <2>1, <2>2, <2>3
<1> QED  BY <1>1, <1>2, <1>3, <1>4, <1>5, <1>7, <1>8 DEF Arranged, Separated, Between

(* What a row holds, seen from the item q and the children at its sides.   *)
SeenFrom(I, C, q, u, l, r, h, S) ==
  \A y : y \in S <=>
           \/ y \in AtPivot(u, l, r, h - 1)
           \/ \E i \in 1 .. Len(I) : i # q /\ y = I[i]
           \/ \E c \in 1 .. Len(C) : c # q /\ c # q + 1 /\ y \in Within(C[c], h - 1)

LEMMA PivotHeld ==
  ASSUME NEW I, NEW C, NEW h, Listed(I), Len(C) = Len(I) + 1, NEW q \in 1 .. Len(I), NEW u,
         NEW l, NEW r, NEW J, NEW D, Pivoted(I, C, q, u, l, r, J, D)
  PROVE  SeenFrom(I, C, q, u, l, r, h, Held(J, D, h))
<1>1. /\ Len(I) \in Nat /\ Len(C) = Len(I) + 1
      /\ Listed(J) /\ Len(J) = Len(I) /\ Len(D) = Len(C)
      /\ \A i \in 1 .. Len(I) : J[i] = IF i = q THEN u ELSE I[i]
      /\ \A c \in 1 .. Len(C) : D[c] = IF c = q THEN l ELSE IF c = q + 1 THEN r ELSE C[c]
  BY DEF Pivoted, With, Listed
<1>2. \A y : y \in Held(J, D, h) <=>
           \/ \E i \in 1 .. Len(J) : y = J[i]
           \/ \E c \in 1 .. Len(D) : y \in Within(D[c], h - 1)
  BY <1>1, HeldHas
<1>3. q \in 1 .. Len(D) /\ q + 1 \in 1 .. Len(D) /\ q # q + 1
  BY <1>1
<1>4. D[q] = l /\ D[q + 1] = r /\ J[q] = u
  BY <1>1, <1>3
<1>5. ASSUME NEW y PROVE (\E i \in 1 .. Len(J) : y = J[i]) <=>
                         (y = u \/ \E i \in 1 .. Len(I) : i # q /\ y = I[i])
  BY <1>1, <1>4
<1>6. ASSUME NEW y
      PROVE (\E c \in 1 .. Len(D) : y \in Within(D[c], h - 1)) <=>
            \/ y \in Within(l, h - 1) \/ y \in Within(r, h - 1)
            \/ \E c \in 1 .. Len(C) : c # q /\ c # q + 1 /\ y \in Within(C[c], h - 1)
  <2>1. ASSUME NEW c \in 1 .. Len(D), y \in Within(D[c], h - 1)
        PROVE \/ y \in Within(l, h - 1) \/ y \in Within(r, h - 1)
              \/ c # q /\ c # q + 1 /\ y \in Within(C[c], h - 1)
    BY <1>1, <2>1
  <2>2. ASSUME NEW c \in 1 .. Len(C), c # q /\ c # q + 1 /\ y \in Within(C[c], h - 1)
        PROVE c \in 1 .. Len(D) /\ y \in Within(D[c], h - 1)
    BY <1>1, <2>2
  <2>3. y \in Within(l, h - 1) => \E c \in 1 .. Len(D) : y \in Within(D[c], h - 1)
    BY <1>3, <1>4
  <2>4. y \in Within(r, h - 1) => \E c \in 1 .. Len(D) : y \in Within(D[c], h - 1)
    BY <1>3, <1>4
  <2> QED  BY <1>1, <2>1, <2>2, <2>3, <2>4
<1> QED  BY <1>2, <1>5, <1>6 DEF AtPivot, SeenFrom

(* The row itself, seen from one of its items.                             *)
LEMMA PivotSelf ==
  ASSUME NEW lt, NEW I, NEW C, NEW h, Arranged(lt, I, C, h), h # 0, NEW q \in 1 .. Len(I)
  PROVE  /\ Listed(I) /\ Len(C) = Len(I) + 1
         /\ Pivoted(I, C, q, I[q], C[q], C[q + 1], I, C)
BY DEF Arranged, Listed, NbKids, Pivoted, With

LEMMA PivotSame ==
  ASSUME NEW lt, NEW I, NEW C, NEW h, Arranged(lt, I, C, h), h # 0, NEW q \in 1 .. Len(I),
         NEW u \in Values, NEW l, NEW r, NEW J, NEW D, Pivoted(I, C, q, u, l, r, J, D),
         Same(AtPivot(I[q], C[q], C[q + 1], h - 1), AtPivot(u, l, r, h - 1)),
         \A y \in Within(l, h - 1) : Lesser(lt, y, u),
         \A y \in Within(r, h - 1) : Lesser(lt, u, y)
  PROVE  Arranged(lt, J, D, h) /\ Same(Held(I, C, h), Held(J, D, h))
<1>0. AtPivot(u, l, r, h - 1) = AtPivot(I[q], C[q], C[q + 1], h - 1)
  BY DEF Same
<1>1. /\ Listed(I) /\ Len(C) = Len(I) + 1
      /\ Pivoted(I, C, q, I[q], C[q], C[q + 1], I, C)
  BY PivotSelf
<1>2. Held(I, C, h) \subseteq Values
  BY HeldValues
<1>3. SeenFrom(I, C, q, I[q], C[q], C[q + 1], h, Held(I, C, h))
  BY <1>1, PivotHeld
<1>4. SeenFrom(I, C, q, u, l, r, h, Held(J, D, h))
  BY <1>1, PivotHeld
<1>5. AtPivot(u, l, r, h - 1) \subseteq Values
  BY <1>0, <1>2, <1>3 DEF SeenFrom
<1>6. Within(l, h - 1) \subseteq Values /\ Within(r, h - 1) \subseteq Values
  BY <1>5 DEF AtPivot
<1>7. \A y \in AtPivot(u, l, r, h - 1) : Fits(lt, I, q, y)
  BY <1>0, FitsIs
<1>8. Arranged(lt, J, D, h)
  BY <1>6, <1>7, PivotArranged
<1> QED  BY <1>0, <1>3, <1>4, <1>8 DEF SeenFrom, Same

(* An item exchanged with a value next to it.                              *)
LEMMA PivotLose ==
  ASSUME NEW lt, NEW I, NEW C, NEW h, Arranged(lt, I, C, h), h # 0, NEW q \in 1 .. Len(I),
         NEW u \in Values, NEW l, NEW r, NEW J, NEW D, Pivoted(I, C, q, u, l, r, J, D),
         Both(Within(C[q], h - 1), Within(C[q + 1], h - 1), AtPivot(u, l, r, h - 1)),
         \A y \in Within(l, h - 1) : Lesser(lt, y, u),
         \A y \in Within(r, h - 1) : Lesser(lt, u, y)
  PROVE  Arranged(lt, J, D, h) /\ But(Held(I, C, h), I[q], Held(J, D, h))
<1>0. AtPivot(u, l, r, h - 1) = Within(C[q], h - 1) \cup Within(C[q + 1], h - 1)
  BY DEF Both
<1>1. /\ Listed(I) /\ Len(C) = Len(I) + 1 /\ Len(I) \in Nat
      /\ Pivoted(I, C, q, I[q], C[q], C[q + 1], I, C)
  BY PivotSelf DEF Listed
<1>2. Held(I, C, h) \subseteq Values
  BY HeldValues
<1>3. SeenFrom(I, C, q, I[q], C[q], C[q + 1], h, Held(I, C, h))
  BY <1>1, PivotHeld
<1>4. SeenFrom(I, C, q, u, l, r, h, Held(J, D, h))
  BY <1>1, PivotHeld
<1>5. AtPivot(u, l, r, h - 1) \subseteq AtPivot(I[q], C[q], C[q + 1], h - 1)
  BY <1>0 DEF AtPivot
<1>6. Within(l, h - 1) \subseteq Values /\ Within(r, h - 1) \subseteq Values
  BY <1>2, <1>3, <1>5 DEF AtPivot, SeenFrom
<1>7. \A y \in AtPivot(u, l, r, h - 1) : Fits(lt, I, q, y)
  BY <1>5, FitsIs
<1>8. Arranged(lt, J, D, h)
  BY <1>6, <1>7, PivotArranged
<1>9. /\ \A i \in 1 .. Len(I) : i # q => I[i] # I[q]
      /\ \A c \in 1 .. Len(C) : I[q] \notin Within(C[c], h - 1)
      /\ q \in 1 .. Len(C) /\ q + 1 \in 1 .. Len(C)
  BY <1>1, RowDisjoint
<1>a. AtPivot(I[q], C[q], C[q + 1], h - 1) = AtPivot(u, l, r, h - 1) \cup {I[q]}
  BY <1>0 DEF AtPivot
<1>b. I[q] \notin AtPivot(u, l, r, h - 1)
  BY <1>0, <1>9
<1>c. I[q] \notin Held(J, D, h)
  BY <1>4, <1>9, <1>b DEF SeenFrom
<1> QED  BY <1>3, <1>4, <1>8, <1>a, <1>c DEF SeenFrom, But

(***************************************************************************)
(* A child opened in two by an item, and the converse.                     *)
(***************************************************************************)
Put(I, k, x, J) ==
  /\ Listed(J) /\ Len(J) = Len(I) + 1
  /\ \A i \in 1 .. k : J[i] = I[i]
  /\ J[k + 1] = x
  /\ \A i \in k + 1 .. Len(I) : J[i + 1] = I[i]

Opened(C, k, l, r, D) ==
  /\ Listed(D) /\ Len(D) = Len(C) + 1
  /\ \A i \in 1 .. k : D[i] = C[i]
  /\ D[k + 1] = l
  /\ D[k + 2] = r
  /\ \A i \in k + 2 .. Len(C) : D[i + 1] = C[i]

LEMMA PutAt ==
  ASSUME NEW I, NEW k, NEW x, NEW J, Listed(I), k \in 0 .. Len(I), Put(I, k, x, J)
  PROVE  /\ Len(I) \in Nat /\ Len(J) = Len(I) + 1 /\ k \in Nat
         /\ \A i \in 1 .. Len(J) :
              \/ i \in 1 .. k /\ J[i] = I[i]
              \/ i = k + 1 /\ J[i] = x
              \/ i > k + 1 /\ i - 1 \in k + 1 .. Len(I) /\ J[i] = I[i - 1]
<1>1. Len(I) \in Nat /\ Len(J) = Len(I) + 1 /\ k \in Nat
  BY DEF Put, Listed
<1>2. ASSUME NEW i \in 1 .. Len(J), i > k + 1 PROVE i - 1 \in k + 1 .. Len(I) /\ J[i] = I[i - 1]
  <2> DEFINE j == i - 1
  <2>1. j \in k + 1 .. Len(I) /\ i = j + 1
    BY <1>1, <1>2
  <2> HIDE DEF j
  <2>2. J[i] = I[j]
    BY <2>1 DEF Put
  <2> QED  BY <2>1, <2>2 DEF j
<1>3. \A i \in 1 .. Len(J) : i \in 1 .. k \/ i = k + 1 \/ i > k + 1
  BY <1>1
<1> QED  BY <1>1, <1>2, <1>3 DEF Put

OpenedCase(C, k, l, r, D, c) ==
  \/ c \in 1 .. k /\ D[c] = C[c]
  \/ c = k + 1 /\ D[c] = l
  \/ c = k + 2 /\ D[c] = r
  \/ c > k + 2 /\ c - 1 \in k + 2 .. Len(C) /\ D[c] = C[c - 1]

LEMMA OpenedAt ==
  ASSUME NEW C, NEW k, NEW l, NEW r, NEW D, Listed(C), k \in 0 .. Len(C) - 1, Opened(C, k, l, r, D)
  PROVE  \A c \in 1 .. Len(D) : OpenedCase(C, k, l, r, D, c)
<1>1. Len(C) \in Nat /\ Len(D) = Len(C) + 1 /\ k \in Nat
  BY DEF Opened, Listed
<1>2. ASSUME NEW c \in 1 .. Len(D), c > k + 2 PROVE c - 1 \in k + 2 .. Len(C) /\ D[c] = C[c - 1]
  <2> DEFINE j == c - 1
  <2>1. j \in k + 2 .. Len(C) /\ c = j + 1
    BY <1>1, <1>2
  <2> HIDE DEF j
  <2>2. D[c] = C[j]
    BY <2>1 DEF Opened
  <2> QED  BY <2>1, <2>2 DEF j
<1>3. \A c \in 1 .. Len(D) : c \in 1 .. k \/ c = k + 1 \/ c = k + 2 \/ c > k + 2
  BY <1>1
<1> QED  BY <1>1, <1>2, <1>3 DEF Opened, OpenedCase

LEMMA PutInOrder ==
  ASSUME NEW lt, NEW I, NEW k, NEW x, NEW J, Listed(I), k \in 0 .. Len(I), Put(I, k, x, J),
         InOrder(lt, I), Between(lt, I, k + 1, x)
  PROVE  InOrder(lt, J)
<1>1. /\ Len(I) \in Nat /\ Len(J) = Len(I) + 1 /\ k \in Nat
      /\ \A i \in 1 .. Len(J) :
              \/ i \in 1 .. k /\ J[i] = I[i]
              \/ i = k + 1 /\ J[i] = x
              \/ i > k + 1 /\ i - 1 \in k + 1 .. Len(I) /\ J[i] = I[i - 1]
  BY PutAt
<1>2. ASSUME NEW i \in 1 .. Len(J), NEW j \in 1 .. Len(J), i < j PROVE Lesser(lt, J[i], J[j])
  <2>1. CASE i = k + 1
    <3>1. j - 1 \in k + 1 .. Len(I) /\ J[j] = I[j - 1] /\ J[i] = x
      BY <1>1, <1>2, <2>1
    <3>2. j - 1 \in 1 .. Len(I) /\ k + 1 <= j - 1
      BY <1>1, <3>1
    <3> QED  BY <3>1, <3>2 DEF Between
  <2>2. CASE j = k + 1
    <3>1. i \in 1 .. k /\ J[i] = I[i] /\ J[j] = x
      BY <1>1, <1>2, <2>2
    <3>2. i \in 1 .. Len(I) /\ ~ (k + 1 <= i)
      BY <1>1, <3>1
    <3> QED  BY <3>1, <3>2 DEF Between
  <2>3. CASE i # k + 1 /\ j # k + 1
    <3> DEFINE a == IF i <= k THEN i ELSE i - 1
               b == IF j <= k THEN j ELSE j - 1
    <3>1. a \in 1 .. Len(I) /\ J[i] = I[a]
      BY <1>1, <2>3
    <3>2. b \in 1 .. Len(I) /\ J[j] = I[b]
      BY <1>1, <2>3
    <3>3. a < b
      BY <1>1, <1>2, <2>3
    <3> HIDE DEF a, b
    <3> QED  BY <3>1, <3>2, <3>3 DEF InOrder
  <2> QED  BY <2>1, <2>2, <2>3
<1> QED  BY <1>2 DEF InOrder

LEMMA TakenInOrder ==
  ASSUME NEW lt, NEW I, NEW k, NEW x, NEW J, Listed(I), k \in 0 .. Len(I), Put(I, k, x, J),
         InOrder(lt, J)
  PROVE  InOrder(lt, I)
<1>1. /\ Len(I) \in Nat /\ Len(J) = Len(I) + 1 /\ k \in Nat
  BY DEF Put, Listed
<1>2. ASSUME NEW i \in 1 .. Len(I), NEW j \in 1 .. Len(I), i < j PROVE Lesser(lt, I[i], I[j])
  <2> DEFINE a == IF i <= k THEN i ELSE i + 1
             b == IF j <= k THEN j ELSE j + 1
  <2>1. a \in 1 .. Len(J) /\ J[a] = I[i]
    BY <1>1 DEF Put
  <2>2. b \in 1 .. Len(J) /\ J[b] = I[j]
    BY <1>1 DEF Put
  <2>3. a < b
    BY <1>1, <1>2
  <2> HIDE DEF a, b
  <2> QED  BY <2>1, <2>2, <2>3 DEF InOrder
<1> QED  BY <1>2 DEF InOrder

LEMMA OpenArranged ==
  ASSUME NEW lt, NEW I, NEW C, NEW h, Arranged(lt, I, C, h), h # 0, NEW k \in 0 .. Len(I),
         NEW x \in Values, NEW l, NEW r, NEW J, NEW D, Put(I, k, x, J), Opened(C, k, l, r, D),
         Within(l, h - 1) \subseteq Values, Within(r, h - 1) \subseteq Values,
         \A y \in AtPivot(x, l, r, h - 1) : Between(lt, I, k + 1, y),
         \A y \in Within(l, h - 1) : Lesser(lt, y, x),
         \A y \in Within(r, h - 1) : Lesser(lt, x, y)
  PROVE  Arranged(lt, J, D, h)
<1>1. /\ Len(I) \in Nat /\ Len(C) = Len(I) + 1 /\ h \in Nat /\ Listed(I) /\ Listed(C)
      /\ \A i \in 1 .. Len(I) : I[i] \in Values
      /\ \A c \in 1 .. Len(C) : Within(C[c], h - 1) \subseteq Values
      /\ InOrder(lt, I)
      /\ \A c \in 1 .. Len(C) : \A y \in Within(C[c], h - 1) : Between(lt, I, c, y)
  BY DEF Arranged, Listed, NbKids, Separated
<1>2. Listed(J) /\ Listed(D)
  BY DEF Put, Opened
<1>3. /\ Len(J) = Len(I) + 1 /\ k \in Nat
      /\ \A i \in 1 .. Len(J) :
              \/ i \in 1 .. k /\ J[i] = I[i]
              \/ i = k + 1 /\ J[i] = x
              \/ i > k + 1 /\ i - 1 \in k + 1 .. Len(I) /\ J[i] = I[i - 1]
  BY <1>1, PutAt
<1>4. k \in 0 .. Len(C) - 1
  BY <1>1
<1>5. /\ Len(D) = Len(C) + 1
      /\ \A c \in 1 .. Len(D) :
              \/ c \in 1 .. k /\ D[c] = C[c]
              \/ c = k + 1 /\ D[c] = l
              \/ c = k + 2 /\ D[c] = r
              \/ c > k + 2 /\ c - 1 \in k + 2 .. Len(C) /\ D[c] = C[c - 1]
  <2>1. \A c \in 1 .. Len(D) : OpenedCase(C, k, l, r, D, c)
    BY <1>1, <1>4, OpenedAt
  <2> QED  BY <2>1 DEF Opened, OpenedCase
<1>6. Len(D) = NbKids(J, h)
  BY <1>1, <1>3, <1>5 DEF NbKids
<1>7. \A i \in 1 .. Len(J) : J[i] \in Values
  <2>1. (\A i \in 1 .. k : i \in 1 .. Len(I)) /\ (\A i \in k + 1 .. Len(I) : i \in 1 .. Len(I))
    BY <1>1, <1>3
  <2> QED  BY <1>1, <1>3, <2>1, Zenon
<1>8. ASSUME NEW c \in 1 .. Len(D) PROVE Within(D[c], h - 1) \subseteq Values
  <2>1. \/ c \in 1 .. k /\ D[c] = C[c]
        \/ c = k + 1 /\ D[c] = l
        \/ c = k + 2 /\ D[c] = r
        \/ c > k + 2 /\ c - 1 \in k + 2 .. Len(C) /\ D[c] = C[c - 1]
    BY <1>5
  <2>2. (c \in 1 .. k => c \in 1 .. Len(C)) /\ (c - 1 \in k + 2 .. Len(C) => c - 1 \in 1 .. Len(C))
    BY <1>1, <1>3
  <2> QED  BY <1>1, <2>1, <2>2
<1>x. Between(lt, I, k + 1, x)
  BY DEF AtPivot
<1>9. InOrder(lt, J)
  BY <1>1, <1>x, PutInOrder
<1>a. ASSUME NEW c \in 1 .. Len(D), NEW y \in Within(D[c], h - 1), NEW i \in 1 .. Len(J)
      PROVE IF c <= i THEN Lesser(lt, y, J[i]) ELSE Lesser(lt, J[i], y)
  <2>1. CASE c = k + 1 \/ c = k + 2
    <3>1. /\ Between(lt, I, k + 1, y)
          /\ c = k + 1 => Lesser(lt, y, x)
          /\ c = k + 2 => Lesser(lt, x, y)
      BY <1>3, <1>5, <2>1 DEF AtPivot
    <3>2. CASE i \in 1 .. k
      <4>1. J[i] = I[i] /\ i \in 1 .. Len(I) /\ ~ (k + 1 <= i) /\ ~ (c <= i)
        BY <1>1, <1>3, <2>1, <3>2
      <4> QED  BY <3>1, <4>1 DEF Between
    <3>3. CASE i = k + 1
      <4>1. J[i] = x /\ (c <= i <=> c = k + 1)
        BY <1>3, <2>1, <3>3
      <4> QED  BY <2>1, <3>1, <4>1
    <3>4. CASE i > k + 1
      <4> DEFINE j == i - 1
      <4>1. J[i] = I[j] /\ j \in 1 .. Len(I) /\ k + 1 <= j /\ c <= i
        BY <1>1, <1>3, <2>1, <3>4
      <4> HIDE DEF j
      <4> QED  BY <3>1, <4>1 DEF Between
    <3> QED  BY <1>3, <3>2, <3>3, <3>4
  <2>2. CASE c \in 1 .. k
    <3>1. c \in 1 .. Len(C) /\ y \in Within(C[c], h - 1) /\ Between(lt, I, c, y) /\ y \in Values
      BY <1>1, <1>3, <1>5, <2>2
    <3>2. CASE i \in 1 .. k
      <4>1. J[i] = I[i] /\ i \in 1 .. Len(I)
        BY <1>1, <1>3, <3>2
      <4> QED  BY <3>1, <4>1 DEF Between
    <3>3. CASE i = k + 1
      <4>1. J[i] = x /\ c <= i /\ k \in 1 .. Len(I) /\ c <= k /\ ~ (k + 1 <= k)
        BY <1>1, <1>3, <2>2, <3>3
      <4>2. Lesser(lt, y, I[k]) /\ Lesser(lt, I[k], x) /\ I[k] \in Values
        BY <1>1, <1>x, <3>1, <4>1 DEF Between
      <4>3. Lesser(lt, y, x)
        BY <3>1, <4>2, LesserOrder
      <4> QED  BY <4>1, <4>3
    <3>4. CASE i > k + 1
      <4> DEFINE j == i - 1
      <4>1. J[i] = I[j] /\ j \in 1 .. Len(I) /\ c <= j /\ c <= i
        BY <1>1, <1>3, <2>2, <3>4
      <4> HIDE DEF j
      <4> QED  BY <3>1, <4>1 DEF Between
    <3> QED  BY <1>3, <3>2, <3>3, <3>4
  <2>3. CASE c > k + 2
    <3> DEFINE e == c - 1
    <3>0. e \in k + 2 .. Len(C) /\ D[c] = C[e]
      BY <1>1, <1>3, <1>5, <2>3
    <3>1. e \in 1 .. Len(C) /\ y \in Within(C[e], h - 1) /\ Between(lt, I, e, y) /\ y \in Values
      BY <1>1, <1>3, <3>0
    <3>2. CASE i \in 1 .. k
      <4>1. J[i] = I[i] /\ i \in 1 .. Len(I) /\ ~ (e <= i) /\ ~ (c <= i)
        BY <1>1, <1>3, <2>3, <3>2
      <4> HIDE DEF e
      <4> QED  BY <3>1, <4>1 DEF Between
    <3>3. CASE i = k + 1
      <4> DEFINE j == k + 1
      <4>1. J[i] = x /\ ~ (c <= i) /\ j \in 1 .. Len(I) /\ ~ (e <= j) /\ k + 1 <= j
        BY <1>1, <1>3, <2>3, <3>0, <3>3
      <4> HIDE DEF e, j
      <4>2. Lesser(lt, I[j], y) /\ Lesser(lt, x, I[j]) /\ I[j] \in Values
        BY <1>1, <1>x, <3>1, <4>1 DEF Between
      <4>3. Lesser(lt, x, y)
        BY <3>1, <4>2, LesserOrder
      <4> QED  BY <4>1, <4>3
    <3>4. CASE i > k + 1
      <4> DEFINE j == i - 1
      <4>1. J[i] = I[j] /\ j \in 1 .. Len(I) /\ (e <= j <=> c <= i)
        BY <1>1, <1>3, <2>3, <3>4
      <4> HIDE DEF j, e
      <4> QED  BY <3>1, <4>1 DEF Between
    <3> QED  BY <1>3, <3>2, <3>3, <3>4
  <2> QED  BY <1>5, <2>1, <2>2, <2>3
<1>b. Separated(lt, J, D, h - 1)
  BY <1>a DEF Separated, Between
<1> QED  BY <1>1, <1>2, <1>6, <1>7, <1>8, <1>9, <1>b DEF Arranged

LEMMA CloseArranged ==
  ASSUME NEW lt, NEW I, NEW C, NEW h, NEW J, NEW D, Arranged(lt, J, D, h), h # 0,
         Listed(I), Listed(C), NEW k \in 0 .. Len(I), NEW x, NEW l, NEW r,
         Put(I, k, x, J), Opened(C, k, l, r, D), k + 1 <= Len(C),
         Within(C[k + 1], h - 1) = AtPivot(x, l, r, h - 1)
  PROVE  Arranged(lt, I, C, h)
<1>1. /\ Len(I) \in Nat /\ Len(C) \in Nat /\ k \in Nat /\ h \in Nat
      /\ Len(J) = Len(I) + 1 /\ Len(D) = Len(C) + 1 /\ Len(D) = Len(J) + 1
      /\ \A i \in 1 .. Len(J) : J[i] \in Values
      /\ \A c \in 1 .. Len(D) : Within(D[c], h - 1) \subseteq Values
      /\ \A i, j \in 1 .. Len(J) : i < j => Lesser(lt, J[i], J[j])
      /\ \A c \in 1 .. Len(D) : \A y \in Within(D[c], h - 1) : Between(lt, J, c, y)
  BY DEF Arranged, Listed, NbKids, InOrder, Separated, Put, Opened
<1>2. /\ \A i \in 1 .. k : i \in 1 .. Len(J) /\ J[i] = I[i]
      /\ \A i \in k + 1 .. Len(I) : i + 1 \in 1 .. Len(J) /\ J[i + 1] = I[i]
      /\ k + 1 \in 1 .. Len(J) /\ J[k + 1] = x
  BY <1>1 DEF Put
<1>3. /\ \A c \in 1 .. k : c \in 1 .. Len(D) /\ D[c] = C[c]
      /\ \A c \in k + 2 .. Len(C) : c + 1 \in 1 .. Len(D) /\ D[c + 1] = C[c]
      /\ k + 1 \in 1 .. Len(D) /\ D[k + 1] = l
      /\ k + 2 \in 1 .. Len(D) /\ D[k + 2] = r
  BY <1>1 DEF Opened
<1>4. Len(C) = NbKids(I, h)
  BY <1>1 DEF NbKids
<1>5. ASSUME NEW i \in 1 .. Len(I) PROVE i \in 1 .. k \/ i \in k + 1 .. Len(I)
  BY <1>1
<1>6. \A i \in 1 .. Len(I) : I[i] \in Values
  BY <1>1, <1>2, <1>5
<1>7. x \in Values
  BY <1>1, <1>2
<1>8. \A c \in 1 .. Len(C) : Within(C[c], h - 1) \subseteq Values
  <2>1. \A c \in 1 .. Len(C) : c \in 1 .. k \/ c = k + 1 \/ c \in k + 2 .. Len(C)
    BY <1>1
  <2> QED  BY <1>1, <1>3, <1>7, <2>1 DEF AtPivot
<1>9. InOrder(lt, I)
  <2>1. InOrder(lt, J)
    BY DEF Arranged
  <2> QED  BY <2>1, TakenInOrder
<1>a. ASSUME NEW c \in 1 .. Len(C), NEW y \in Within(C[c], h - 1), NEW i \in 1 .. Len(I)
      PROVE IF c <= i THEN Lesser(lt, y, I[i]) ELSE Lesser(lt, I[i], y)
  <2> DEFINE j == IF i <= k THEN i ELSE i + 1
  <2>n. Len(I) \in Nat /\ Len(C) \in Nat /\ k \in Nat /\ i \in Nat /\ c \in Nat
    BY <1>1
  <2>0. j \in 1 .. Len(J) /\ J[j] = I[i] /\ j # k + 1
    <3>1. CASE i <= k
      <4>1. i \in 1 .. k /\ j = i
        BY <2>n, <3>1
      <4> QED  BY <1>2, <2>n, <3>1, <4>1
    <3>2. CASE ~ (i <= k)
      <4>1. i \in k + 1 .. Len(I) /\ j = i + 1 /\ j # k + 1
        BY <2>n, <3>2
      <4> QED  BY <1>2, <4>1
    <3> QED  BY <3>1, <3>2
  <2>1. CASE c \in 1 .. k
    <3>1. c <= j <=> c <= i
      BY <2>n, <2>1
    <3>2. Between(lt, J, c, y)
      BY <1>1, <1>3, <2>1
    <3> HIDE DEF j
    <3> QED  BY <2>0, <3>1, <3>2 DEF Between
  <2>2. CASE c \in k + 2 .. Len(C)
    <3>1. c + 1 <= j <=> c <= i
      BY <2>n, <2>2
    <3>2. c + 1 \in 1 .. Len(D) /\ D[c + 1] = C[c]
      BY <1>3, <2>2
    <3>3. Between(lt, J, c + 1, y)
      BY <1>1, <3>2
    <3> HIDE DEF j
    <3> QED  BY <2>0, <3>1, <3>3 DEF Between
  <2>3. CASE c = k + 1
    <3>1. (c <= i <=> k + 1 <= j) /\ (c <= i <=> k + 2 <= j) /\ (c <= i => k + 1 < j) /\ (~ (c <= i) => j < k + 1)
      BY <1>1, <2>3
    <3> HIDE DEF j
    <3>2. CASE y = x
      <4>1. IF c <= i THEN Lesser(lt, x, J[j]) ELSE Lesser(lt, J[j], x)
        BY <1>1, <1>2, <2>0, <3>1
      <4> QED  BY <2>0, <3>2, <4>1
    <3>3. CASE y \in Within(l, h - 1)
      <4>1. Between(lt, J, k + 1, y)
        BY <1>1, <1>3, <3>3
      <4> QED  BY <2>0, <3>1, <4>1 DEF Between
    <3>4. CASE y \in Within(r, h - 1)
      <4>1. Between(lt, J, k + 2, y)
        BY <1>1, <1>3, <3>4
      <4> QED  BY <2>0, <3>1, <4>1 DEF Between
    <3> QED  BY <2>3, <3>2, <3>3, <3>4 DEF AtPivot
  <2> QED  BY <1>1, <2>1, <2>2, <2>3
<1>b. Separated(lt, I, C, h - 1)
  BY <1>a DEF Separated, Between
<1> QED  BY <1>1, <1>4, <1>6, <1>8, <1>9, <1>b DEF Arranged

LEMMA OpenedHeld ==
  ASSUME NEW I, NEW C, NEW h, NEW J, NEW D, Listed(I), Listed(C), NEW k \in 0 .. Len(I),
         NEW x, NEW l, NEW r, Put(I, k, x, J), Opened(C, k, l, r, D), k + 1 <= Len(C),
         NEW S, Both(Within(C[k + 1], h - 1), S, AtPivot(x, l, r, h - 1))
  PROVE  Both(Held(I, C, h), S, Held(J, D, h))
<1>0. AtPivot(x, l, r, h - 1) = Within(C[k + 1], h - 1) \cup S
  BY DEF Both
<1>1. /\ Len(I) \in Nat /\ Len(C) \in Nat /\ k \in Nat
      /\ Len(J) = Len(I) + 1 /\ Len(D) = Len(C) + 1 /\ Listed(J) /\ Listed(D)
  BY DEF Listed, Put, Opened
<1>2. /\ \A y : y \in Held(I, C, h) <=>
           \/ \E i \in 1 .. Len(I) : y = I[i]
           \/ \E c \in 1 .. Len(C) : y \in Within(C[c], h - 1)
      /\ \A y : y \in Held(J, D, h) <=>
           \/ \E i \in 1 .. Len(J) : y = J[i]
           \/ \E c \in 1 .. Len(D) : y \in Within(D[c], h - 1)
  BY <1>1, HeldHas
<1>3. /\ \A i \in 1 .. k : i \in 1 .. Len(J) /\ J[i] = I[i]
      /\ \A i \in k + 1 .. Len(I) : i + 1 \in 1 .. Len(J) /\ J[i + 1] = I[i]
      /\ k + 1 \in 1 .. Len(J) /\ J[k + 1] = x
      /\ \A c \in 1 .. k : c \in 1 .. Len(D) /\ D[c] = C[c]
      /\ \A c \in k + 2 .. Len(C) : c + 1 \in 1 .. Len(D) /\ D[c + 1] = C[c]
      /\ k + 1 \in 1 .. Len(D) /\ D[k + 1] = l
      /\ k + 2 \in 1 .. Len(D) /\ D[k + 2] = r
  BY <1>1 DEF Put, Opened
<1>4. k + 1 \in 1 .. Len(C)
  BY <1>1
<1>5. AtPivot(x, l, r, h - 1) \subseteq Held(J, D, h)
  BY <1>2, <1>3 DEF AtPivot
<1>6. ASSUME NEW y \in Held(I, C, h) PROVE y \in Held(J, D, h)
  <2>1. ASSUME NEW i \in 1 .. Len(I), y = I[i] PROVE y \in Held(J, D, h)
    <3>1. CASE i \in 1 .. k
      BY <1>2, <1>3, <2>1, <3>1
    <3>2. CASE i \in k + 1 .. Len(I)
      BY <1>2, <1>3, <2>1, <3>2
    <3> QED  BY <1>1, <3>1, <3>2
  <2>2. ASSUME NEW c \in 1 .. Len(C), y \in Within(C[c], h - 1) PROVE y \in Held(J, D, h)
    <3>1. CASE c \in 1 .. k
      BY <1>2, <1>3, <2>2, <3>1
    <3>2. CASE c \in k + 2 .. Len(C)
      BY <1>2, <1>3, <2>2, <3>2
    <3>3. CASE c = k + 1
      BY <1>0, <1>5, <2>2, <3>3
    <3> QED  BY <1>1, <3>1, <3>2, <3>3
  <2> QED  BY <1>2, <2>1, <2>2
<1>7. ASSUME NEW y \in Held(J, D, h), y \notin AtPivot(x, l, r, h - 1) PROVE y \in Held(I, C, h)
  <2>1. ASSUME NEW i \in 1 .. Len(J), y = J[i] PROVE y \in Held(I, C, h)
    <3>1. \/ i \in 1 .. k /\ J[i] = I[i]
          \/ i = k + 1 /\ J[i] = x
          \/ i > k + 1 /\ i - 1 \in k + 1 .. Len(I) /\ J[i] = I[i - 1]
      BY PutAt
    <3>2. i # k + 1
      BY <1>3, <1>7, <2>1 DEF AtPivot
    <3>3. CASE i \in 1 .. k /\ J[i] = I[i]
      <4>1. i \in 1 .. Len(I)
        BY <1>1, <3>3
      <4> QED  BY <1>2, <2>1, <3>3, <4>1
    <3>4. CASE i - 1 \in k + 1 .. Len(I) /\ J[i] = I[i - 1]
      <4>1. i - 1 \in 1 .. Len(I)
        BY <1>1, <3>4
      <4> QED  BY <1>2, <2>1, <3>4, <4>1
    <3> QED  BY <3>1, <3>2, <3>3, <3>4
  <2>2. ASSUME NEW c \in 1 .. Len(D), y \in Within(D[c], h - 1) PROVE y \in Held(I, C, h)
    <3>0. k \in 0 .. Len(C) - 1
      BY <1>1
    <3>1. \/ c \in 1 .. k /\ D[c] = C[c]
          \/ c = k + 1 /\ D[c] = l
          \/ c = k + 2 /\ D[c] = r
          \/ c > k + 2 /\ c - 1 \in k + 2 .. Len(C) /\ D[c] = C[c - 1]
      BY <3>0, OpenedAt DEF OpenedCase
    <3>2. D[c] # l /\ D[c] # r
      BY <1>7, <2>2 DEF AtPivot
    <3>3. CASE c \in 1 .. k /\ D[c] = C[c]
      <4>1. c \in 1 .. Len(C)
        BY <1>1, <3>3
      <4> QED  BY <1>2, <2>2, <3>3, <4>1
    <3>4. CASE c - 1 \in k + 2 .. Len(C) /\ D[c] = C[c - 1]
      <4>1. c - 1 \in 1 .. Len(C)
        BY <1>1, <3>4
      <4> QED  BY <1>2, <2>2, <3>4, <4>1
    <3> QED  BY <3>1, <3>2, <3>3, <3>4
  <2> QED  BY <1>2, <2>1, <2>2
<1>8. Within(C[k + 1], h - 1) \subseteq Held(I, C, h)
  BY <1>2, <1>4
<1> QED  BY <1>0, <1>5, <1>6, <1>7, <1>8 DEF Both

LEMMA PutHeld ==
  ASSUME NEW I, NEW C, NEW h, NEW J, NEW k \in 0 .. Len(I), NEW x,
         Listed(I), Len(C) = 0, Put(I, k, x, J)
  PROVE  Held(J, C, h) = Held(I, C, h) \cup {x}
<1>1. /\ Len(I) \in Nat /\ k \in Nat /\ Len(J) = Len(I) + 1 /\ Listed(J)
  BY DEF Listed, Put
<1>2. /\ \A y : y \in Held(I, C, h) <=>
           \/ \E i \in 1 .. Len(I) : y = I[i]
           \/ \E c \in 1 .. Len(C) : y \in Within(C[c], h - 1)
      /\ \A y : y \in Held(J, C, h) <=>
           \/ \E i \in 1 .. Len(J) : y = J[i]
           \/ \E c \in 1 .. Len(C) : y \in Within(C[c], h - 1)
  BY <1>1, HeldHas
<1>3. /\ \A i \in 1 .. k : i \in 1 .. Len(J) /\ J[i] = I[i]
      /\ \A i \in k + 1 .. Len(I) : i + 1 \in 1 .. Len(J) /\ J[i + 1] = I[i]
      /\ k + 1 \in 1 .. Len(J) /\ J[k + 1] = x
  BY <1>1 DEF Put
<1>4. ASSUME NEW i \in 1 .. Len(I) PROVE \E j \in 1 .. Len(J) : I[i] = J[j]
  <2>1. i \in 1 .. k \/ i \in k + 1 .. Len(I)
    BY <1>1
  <2> QED  BY <1>3, <2>1
<1>5. ASSUME NEW i \in 1 .. Len(J), i # k + 1 PROVE \E j \in 1 .. Len(I) : J[i] = I[j]
  <2>1. \/ i \in 1 .. k /\ J[i] = I[i]
        \/ i = k + 1 /\ J[i] = x
        \/ i > k + 1 /\ i - 1 \in k + 1 .. Len(I) /\ J[i] = I[i - 1]
    BY PutAt
  <2>2. (i \in 1 .. k => i \in 1 .. Len(I)) /\ (i - 1 \in k + 1 .. Len(I) => i - 1 \in 1 .. Len(I))
    BY <1>1
  <2> QED  BY <1>5, <2>1, <2>2
<1>6. Len(C) = 0
  OBVIOUS
<1>7. ~ \E c \in 1 .. Len(C) : TRUE
  BY <1>6
<1>8. \A y : y \in Held(J, C, h) => y \in Held(I, C, h) \/ y = x
  BY <1>2, <1>3, <1>5, <1>7
<1>9. \A y : y \in Held(I, C, h) => y \in Held(J, C, h)
  BY <1>2, <1>4, <1>7
<1>a. x \in Held(J, C, h)
  BY <1>2, <1>3
<1> QED  BY <1>8, <1>9, <1>a

LEMMA PutArranged ==
  ASSUME NEW lt, NEW I, NEW C, NEW h, NEW k \in 0 .. Len(I), NEW x \in Values, NEW J,
         Arranged(lt, I, C, h), h = 0, Put(I, k, x, J),
         Between(lt, I, k + 1, x)
  PROVE  /\ Arranged(lt, J, C, h) /\ Held(J, C, h) = Held(I, C, h) \cup {x}
<1>1. /\ Len(I) \in Nat /\ Listed(I) /\ Len(C) = 0 /\ InOrder(lt, I)
      /\ \A i \in 1 .. Len(I) : I[i] \in Values
  BY DEF Arranged, NbKids, Listed
<1>2. Listed(J) /\ InOrder(lt, J)
  BY <1>1, PutInOrder DEF Put
<1>3. ASSUME NEW i \in 1 .. Len(J) PROVE J[i] \in Values
  <2>1. \/ i \in 1 .. k /\ J[i] = I[i]
        \/ i = k + 1 /\ J[i] = x
        \/ i > k + 1 /\ i - 1 \in k + 1 .. Len(I) /\ J[i] = I[i - 1]
    BY <1>1, PutAt
  <2>2. (i \in 1 .. k => i \in 1 .. Len(I)) /\ (i - 1 \in k + 1 .. Len(I) => i - 1 \in 1 .. Len(I))
    BY <1>1
  <2> QED  BY <1>1, <2>1, <2>2
<1>4. Separated(lt, J, C, h - 1)
  BY <1>1 DEF Separated
<1>5. Arranged(lt, J, C, h)
  BY <1>1, <1>2, <1>3, <1>4 DEF Arranged, NbKids
<1>6. Held(J, C, h) = Held(I, C, h) \cup {x}
  BY <1>1, PutHeld
<1> QED  BY <1>5, <1>6

LEMMA TakenArranged ==
  ASSUME NEW lt, NEW I, NEW C, NEW h, NEW k \in 0 .. Len(I), NEW x, NEW J,
         Arranged(lt, J, C, h), h = 0, Listed(I), Put(I, k, x, J)
  PROVE  /\ Arranged(lt, I, C, h) /\ Held(I, C, h) = Held(J, C, h) \ {x}
<1>1. /\ Len(I) \in Nat /\ k \in Nat /\ Len(J) = Len(I) + 1 /\ Len(C) = 0 /\ InOrder(lt, J)
      /\ \A i \in 1 .. Len(J) : J[i] \in Values
  BY DEF Arranged, NbKids, Listed, Put
<1>2. InOrder(lt, I)
  BY <1>1, TakenInOrder
<1>3. /\ \A i \in 1 .. k : i \in 1 .. Len(J) /\ J[i] = I[i]
      /\ \A i \in k + 1 .. Len(I) : i + 1 \in 1 .. Len(J) /\ J[i + 1] = I[i]
      /\ k + 1 \in 1 .. Len(J) /\ J[k + 1] = x
  BY <1>1 DEF Put
<1>4. ASSUME NEW i \in 1 .. Len(I) PROVE I[i] \in Values /\ I[i] # x
  <2>1. \A a, b \in 1 .. Len(J) : J[a] = J[b] => a = b
    BY RowDisjoint
  <2>2. CASE i \in 1 .. k
    BY <1>1, <1>3, <2>1, <2>2
  <2>3. CASE i \in k + 1 .. Len(I)
    <3>1. i + 1 \in 1 .. Len(J) /\ J[i + 1] = I[i] /\ i + 1 # k + 1
      BY <1>1, <1>3, <2>3
    <3> QED  BY <1>1, <1>3, <2>1, <3>1
  <2> QED  BY <1>1, <2>2, <2>3
<1>5. Separated(lt, I, C, h - 1)
  BY <1>1 DEF Separated
<1>6. Arranged(lt, I, C, h)
  BY <1>1, <1>2, <1>4, <1>5 DEF Arranged, NbKids
<1>7. Held(J, C, h) = Held(I, C, h) \cup {x}
  BY <1>1, PutHeld
<1>8. x \notin Held(I, C, h)
  BY <1>1, <1>4, HeldHas
<1> QED  BY <1>6, <1>7, <1>8

-----------------------------------------------------------------------------
(* The position of a value in a node.                                      *)

Positioned(lt, I, v, p) ==
  /\ p.at \in 0 .. Len(I)
  /\ p.exists \in BOOLEAN
  /\ p.exists => p.at < Len(I) /\ I[p.at + 1] = v
  /\ ~ p.exists => Between(lt, I, p.at + 1, v)

LEMMA NoPosition ==
  ASSUME NEW lt, NEW I, NEW v, NEW p, p.exists = FALSE, p.at \in 0 .. Len(I),
         Between(lt, I, p.at + 1, v)
  PROVE  Positioned(lt, I, v, p)
<1>1. ~ p.exists /\ p.exists \in BOOLEAN
  BY Zenon
<1> QED  BY <1>1, Zenon DEF Positioned

LEMMA OnePosition ==
  ASSUME NEW lt, NEW I, NEW v, NEW p, p.exists = TRUE, p.at \in 0 .. Len(I),
         p.at < Len(I), I[p.at + 1] = v
  PROVE  Positioned(lt, I, v, p)
<1>1. p.exists /\ p.exists \in BOOLEAN
  BY Zenon
<1> QED  BY <1>1, Zenon DEF Positioned

Sorted(lt, I) == Listed(I) /\ (\A i \in 1 .. Len(I) : I[i] \in Values) /\ InOrder(lt, I)

(* The binary search after k turns.                                        *)
Narrowed(lt, I, v, w, k) ==
  /\ w = [i1 |-> w.i1, i2 |-> w.i2]
  /\ w.i1 \in Nat /\ w.i2 \in Nat /\ w.i2 <= Len(I)
  /\ \/ w.i1 = w.i2 /\ w.i1 < Len(I) /\ I[w.i1 + 1] = v
     \/ /\ w.i1 < w.i2 /\ (w.i2 - w.i1 = 1 \/ w.i2 - w.i1 <= Len(I) - k)
        /\ Lesser(lt, I[w.i1 + 1], v)
        /\ w.i2 < Len(I) => Lesser(lt, v, I[w.i2 + 1])

LEMMA NarrowStep ==
  ASSUME NEW lt, NEW I, Sorted(lt, I), NEW v \in Values, NEW k \in Nat, NEW w,
         Narrowed(lt, I, v, w, k), NEW j, j = k + 1
  PROVE  Narrowed(lt, I, v, BisectTurn(lt, I, v, w), j)
<1> DEFINE a == w.i1
           b == w.i2
           c == (a + b) \div 2
           x == I[c + 1]
           t == BisectTurn(lt, I, v, w)
<1>1. /\ w = [i1 |-> a, i2 |-> b] /\ a \in Nat /\ b \in Nat /\ b <= Len(I) /\ Len(I) \in Nat
      /\ \A i \in 1 .. Len(I) : I[i] \in Values
  BY DEF Narrowed, Sorted, Listed
<1>2. t = IF a + 1 >= b THEN w
          ELSE IF Lesser(lt, v, x) THEN [w EXCEPT !.i2 = c]
          ELSE IF Lesser(lt, x, v) THEN [w EXCEPT !.i1 = c]
          ELSE [i1 |-> c, i2 |-> c]
  BY DEF BisectTurn
<1>3. \/ a = b /\ a < Len(I) /\ I[a + 1] = v
      \/ /\ a < b /\ (b - a = 1 \/ b - a <= Len(I) - k)
         /\ Lesser(lt, I[a + 1], v)
         /\ b < Len(I) => Lesser(lt, v, I[b + 1])
  BY DEF Narrowed
<1>c. a + 1 < b => c \in Nat /\ a < c /\ c < b
  BY <1>1
<1> HIDE DEF a, b, c, t, x
<1>4. CASE a + 1 >= b
  <2>1. t = w /\ (a = b \/ b - a = 1)
    BY <1>1, <1>2, <1>3, <1>4
  <2> QED  BY <1>1, <1>3, <2>1 DEF Narrowed, t, a, b
<1>5. CASE a + 1 < b
  <2>0. c \in Nat /\ a < c /\ c < b /\ c < Len(I) /\ c + 1 \in 1 .. Len(I)
    BY <1>1, <1>5, <1>c
  <2>1. a # b /\ ~ (a + 1 >= b) /\ b - a <= Len(I) - k /\ Lesser(lt, I[a + 1], v) /\ (b < Len(I) => Lesser(lt, v, I[b + 1]))
    BY <1>1, <1>3, <1>5
  <2>2. CASE Lesser(lt, v, x)
    <3>1. t = [i1 |-> a, i2 |-> c]
      BY <1>1, <1>2, <2>1, <2>2
    <3>2. t.i1 = a /\ t.i2 = c
      BY <3>1
    <3>3. c - a <= Len(I) - j
      BY <1>1, <2>0, <2>1
    <3>4. Narrowed(lt, I, v, t, j)
      BY <1>1, <2>0, <2>1, <2>2, <3>1, <3>2, <3>3 DEF Narrowed, x
    <3> QED  BY <3>4 DEF t
  <2>3. CASE ~ Lesser(lt, v, x) /\ Lesser(lt, x, v)
    <3>1. t = [i1 |-> c, i2 |-> b]
      BY <1>1, <1>2, <2>1, <2>3
    <3>2. t.i1 = c /\ t.i2 = b
      BY <3>1
    <3>3. b - c <= Len(I) - j
      BY <1>1, <2>0, <2>1
    <3>4. Narrowed(lt, I, v, t, j)
      BY <1>1, <2>0, <2>1, <2>3, <3>1, <3>2, <3>3 DEF Narrowed, x
    <3> QED  BY <3>4 DEF t
  <2>4. CASE ~ Lesser(lt, v, x) /\ ~ Lesser(lt, x, v)
    <3>1. t = [i1 |-> c, i2 |-> c]
      BY <1>1, <1>2, <2>1, <2>4
    <3>2. x \in Values /\ x = v
      BY <1>1, <2>0, <2>4, LesserOrder DEF x
    <3>3. t.i1 = c /\ t.i2 = c
      BY <3>1
    <3>4. Narrowed(lt, I, v, t, j)
      BY <1>1, <2>0, <3>1, <3>2, <3>3 DEF Narrowed, x
    <3> QED  BY <3>4 DEF t
  <2> QED  BY <2>2, <2>3, <2>4
<1> QED  BY <1>1, <1>4, <1>5

LEMMA BisectFinds ==
  ASSUME NEW lt, NEW I, Sorted(lt, I), NEW v \in Values, Len(I) # 0, Lesser(lt, I[1], v)
  PROVE  Positioned(lt, I, v, Bisect(lt, I, v))
<1> DEFINE n == Len(I)
<1>1. n \in Nat /\ n >= 1 /\ n # 0
  BY DEF Sorted, Listed
<1>2. PICK turn : /\ Window(lt, I, v, n, turn)
                  /\ Bisect(lt, I, v) = [at |-> turn[n].i2, exists |-> turn[n].i1 = turn[n].i2]
  BY <1>1, BisectTurns
<1> DEFINE Bad == {k \in 0 .. n : ~ Narrowed(lt, I, v, turn[k], k)}
<1>3. ASSUME Bad # {} PROVE FALSE
  <2>1. Bad \in SUBSET Nat
    BY <1>1
  <2>2. PICK k \in Bad : \A l \in Bad : k <= l
    BY <1>3, <2>1, LeastNumber
  <2>3. k # 0
    <3>1. Narrowed(lt, I, v, turn[0], 0)
      <4>1. turn[0] = [i1 |-> 0, i2 |-> n]
        BY <1>2 DEF Window
      <4>2. turn[0].i1 = 0 /\ turn[0].i2 = n
        BY <4>1
      <4>3. I[0 + 1] = I[1] /\ n - 0 <= n - 0
        BY <1>1
      <4> QED  BY <1>1, <4>1, <4>2, <4>3 DEF Narrowed
    <3> QED  BY <2>2, <3>1
  <2>4. k \in 1 .. n /\ k - 1 \in Nat /\ k - 1 \in 0 .. n /\ k = (k - 1) + 1 /\ ~ (k <= k - 1)
    BY <1>1, <2>2, <2>3
  <2>5. Narrowed(lt, I, v, turn[k - 1], k - 1)
    BY <2>2, <2>4
  <2>6. turn[k] = BisectTurn(lt, I, v, turn[k - 1])
    BY <1>2, <2>4 DEF Window
  <2>7. Narrowed(lt, I, v, turn[k], k)
    BY <2>4, <2>5, <2>6, NarrowStep, Zenon
  <2> QED  BY <2>2, <2>7
<1>4. n \in 0 .. n
  BY <1>1
<1>5. Narrowed(lt, I, v, turn[n], n)
  BY <1>3, <1>4
<1> DEFINE a == turn[n].i1
           b == turn[n].i2
           p == Bisect(lt, I, v)
<1>6. p.at = b /\ p.exists = (a = b)
  BY <1>2
<1>7. /\ a \in Nat /\ b \in Nat /\ b <= n
      /\ \/ a = b /\ a < n /\ I[a + 1] = v
         \/ /\ a < b /\ (b - a = 1 \/ b - a <= n - n)
            /\ Lesser(lt, I[a + 1], v)
            /\ b < n => Lesser(lt, v, I[b + 1])
  BY <1>5 DEF Narrowed
<1> SUFFICES Positioned(lt, I, v, p)
  OBVIOUS
<1> HIDE DEF a, b, p
<1>8. p.at \in 0 .. n /\ p.exists \in BOOLEAN
  BY <1>1, <1>6, <1>7
<1>9. CASE a = b
  <2>0. b < n /\ I[b + 1] = v
    <3>1. ~ (a < b)
      BY <1>7, <1>9
    <3> QED  BY <1>7, <1>9, <3>1
  <2>1. p.exists = TRUE /\ p.at = b /\ b < Len(I) /\ I[b + 1] = v
    BY <1>6, <1>9, <2>0, Zenon
  <2>2. p.at < Len(I) /\ I[p.at + 1] = v
    BY <2>1
  <2> QED  BY <1>8, <2>1, <2>2, OnePosition
<1>a. CASE a # b
  <2>1. b = a + 1 /\ Lesser(lt, I[a + 1], v) /\ (b < n => Lesser(lt, v, I[b + 1]))
    BY <1>1, <1>7, <1>a
  <2>2. ASSUME NEW i \in 1 .. n PROVE IF b + 1 <= i THEN Lesser(lt, v, I[i]) ELSE Lesser(lt, I[i], v)
    <3>0. I[i] \in Values /\ b \in 1 .. n /\ I[b] \in Values
      BY <1>1, <1>7, <2>1 DEF Sorted
    <3>1. CASE i > b
      <4>1. b + 1 \in 1 .. n /\ Lesser(lt, v, I[b + 1]) /\ I[b + 1] \in Values
        BY <1>1, <1>7, <2>1, <3>1 DEF Sorted
      <4>2. i = b + 1 \/ Lesser(lt, I[b + 1], I[i])
        BY <1>7, <3>1, <4>1 DEF Sorted, InOrder
      <4>3. Lesser(lt, v, I[i])
        BY <3>0, <4>1, <4>2, LesserOrder
      <4> QED  BY <1>7, <3>1, <4>3
    <3>2. CASE i <= b
      <4>1. i = b \/ Lesser(lt, I[i], I[b])
        BY <1>7, <3>0, <3>2 DEF Sorted, InOrder
      <4>2. Lesser(lt, I[i], v)
        BY <2>1, <3>0, <4>1, LesserOrder
      <4> QED  BY <1>7, <3>2, <4>2
    <3> QED  BY <1>7, <3>1, <3>2
  <2>3. Between(lt, I, b + 1, v)
    BY <2>2 DEF Between
  <2>4. p.exists = FALSE /\ p.at = b
    BY <1>6, <1>a
  <2>5. Between(lt, I, p.at + 1, v)
    BY <2>3, <2>4
  <2> QED  BY <1>8, <2>4, <2>5, NoPosition
<1> QED  BY <1>9, <1>a

LEMMA PositionIs ==
  ASSUME NEW lt, NEW n, Sorted(lt, n.items), NEW v \in Values
  PROVE  Positioned(lt, n.items, v, GetPosition(lt, n, v))
<1> DEFINE I == n.items
           p == GetPosition(lt, n, v)
<1>1. Len(I) \in Nat /\ (\A i \in 1 .. Len(I) : I[i] \in Values) /\ InOrder(lt, I) /\ Listed(I)
  BY DEF Sorted, Listed
<1>2. p = IF Len(I) = 0 \/ Lesser(lt, v, I[1]) THEN [at |-> 0, exists |-> FALSE]
          ELSE IF Lesser(lt, Last(I), v) THEN [at |-> Len(I), exists |-> FALSE]
          ELSE IF ~Lesser(lt, I[1], v) THEN [at |-> 0, exists |-> TRUE]
          ELSE Bisect(lt, I, v)
  BY DEF GetPosition, NbItems
<1>3. Last(I) = I[Len(I)]
  BY DEF Last
<1>s. Sorted(lt, I)
  OBVIOUS
<1> SUFFICES Positioned(lt, I, v, p)
  OBVIOUS
<1> HIDE DEF p, I
<1>4. CASE Len(I) = 0
  <2>1. p.at = 0 /\ p.exists = FALSE
    BY <1>2, <1>4
  <2>2. Between(lt, I, p.at + 1, v)
    BY <1>1, <1>4 DEF Between
  <2>3. p.at \in 0 .. Len(I)
    BY <1>1, <2>1
  <2> QED  BY <2>1, <2>2, <2>3, NoPosition
<1>5. CASE Len(I) # 0 /\ Lesser(lt, v, I[1])
  <2>1. p.at = 0 /\ p.exists = FALSE
    BY <1>2, <1>5
  <2>2. ASSUME NEW i \in 1 .. Len(I) PROVE Lesser(lt, v, I[i]) /\ 0 + 1 <= i
    <3>1. 1 \in 1 .. Len(I) /\ (i = 1 \/ 1 < i)
      BY <1>1, <1>5
    <3>2. i = 1 \/ Lesser(lt, I[1], I[i])
      BY <1>1, <3>1 DEF InOrder
    <3>3. I[1] \in Values /\ I[i] \in Values
      BY <1>1, <3>1
    <3>4. Lesser(lt, v, I[i])
      BY <1>5, <3>2, <3>3, LesserOrder
    <3> QED  BY <3>4
  <2>3. Between(lt, I, 0 + 1, v)
    BY <2>2 DEF Between
  <2>4. p.at \in 0 .. Len(I) /\ Between(lt, I, p.at + 1, v)
    BY <1>1, <2>1, <2>3
  <2> QED  BY <2>1, <2>4, NoPosition
<1>6. CASE Len(I) # 0 /\ ~ Lesser(lt, v, I[1]) /\ Lesser(lt, Last(I), v)
  <2>1. p.at = Len(I) /\ p.exists = FALSE
    BY <1>2, <1>6
  <2>2. ASSUME NEW i \in 1 .. Len(I) PROVE Lesser(lt, I[i], v) /\ ~ (Len(I) + 1 <= i)
    <3>1. Len(I) \in 1 .. Len(I) /\ (i = Len(I) \/ i < Len(I)) /\ ~ (Len(I) + 1 <= i)
      BY <1>1, <1>6
    <3>2. i = Len(I) \/ Lesser(lt, I[i], I[Len(I)])
      BY <1>1, <3>1 DEF InOrder
    <3>3. I[Len(I)] \in Values /\ I[i] \in Values
      BY <1>1, <3>1
    <3>4. Lesser(lt, I[i], v)
      BY <1>3, <1>6, <3>2, <3>3, LesserOrder
    <3> QED  BY <3>1, <3>4
  <2>3. Between(lt, I, Len(I) + 1, v)
    BY <2>2 DEF Between
  <2>4. p.at \in 0 .. Len(I) /\ Between(lt, I, p.at + 1, v)
    BY <1>1, <2>1, <2>3
  <2> QED  BY <2>1, <2>4, NoPosition
<1>7. CASE Len(I) # 0 /\ ~ Lesser(lt, v, I[1]) /\ ~ Lesser(lt, Last(I), v) /\ ~ Lesser(lt, I[1], v)
  <2>1. p.at = 0 /\ p.exists = TRUE
    BY <1>2, <1>7
  <2>2. 1 \in 1 .. Len(I) /\ I[1] \in Values /\ 0 + 1 = 1
    BY <1>1, <1>7
  <2>3. I[1] = v
    BY <1>7, <2>2, LesserOrder
  <2>4. p.at \in 0 .. Len(I) /\ p.at < Len(I) /\ I[p.at + 1] = v
    BY <1>1, <2>1, <2>2, <2>3
  <2> QED  BY <2>1, <2>4, OnePosition
<1>8. CASE Len(I) # 0 /\ ~ Lesser(lt, v, I[1]) /\ ~ Lesser(lt, Last(I), v) /\ Lesser(lt, I[1], v)
  <2>1. p = Bisect(lt, I, v)
    BY <1>2, <1>8
  <2>2. Positioned(lt, I, v, p)
    BY <1>s, <1>8, <2>1, BisectFinds
  <2> QED  BY <2>2
<1> QED  BY <1>4, <1>5, <1>6, <1>7, <1>8


-----------------------------------------------------------------------------
(* Numbers of elements.                                                    *)

Counted(S, k) == IsFiniteSet(S) /\ Cardinality(S) = k

LEMMA CountedNone ==
  ASSUME NEW S, S = {}
  PROVE  Counted(S, 0)
BY FS_EmptySet DEF Counted

LEMMA CountedMore ==
  ASSUME NEW S, NEW k \in Nat, Counted(S, k), NEW x, x \notin S, NEW j, j = k + 1
  PROVE  Counted(S \cup {x}, j)
BY FS_AddElement DEF Counted

LEMMA CountedBoth ==
  ASSUME NEW S, NEW T, NEW k \in Nat, NEW j \in Nat, Counted(S, k), Counted(T, j),
         \A x \in S : x \notin T, NEW n, n = k + j
  PROVE  Counted(S \cup T, n)
<1>1. S \cap T = {}
  OBVIOUS
<1>2. Cardinality(S \cap T) = 0
  BY <1>1, FS_EmptySet
<1> QED  BY <1>2, FS_Union DEF Counted

(* The first q items.                                                      *)
LowItems(I, q) == {I[i] : i \in 1 .. q}

LEMMA ItemsCounted ==
  ASSUME NEW lt, NEW I, NEW C, NEW h, Arranged(lt, I, C, h), NEW q \in 0 .. Len(I)
  PROVE  Counted(LowItems(I, q), q)
<1>0. Len(I) \in Nat /\ \A i, j \in 1 .. Len(I) : I[i] = I[j] => i = j
  BY RowDisjoint DEF Arranged, Listed
<1> DEFINE Bad == {k \in 0 .. Len(I) : ~ Counted(LowItems(I, k), k)}
<1> SUFFICES ASSUME Bad # {} PROVE FALSE
  OBVIOUS
<1>1. PICK k \in Bad : \A l \in Bad : k <= l
  <2>1. Bad \in SUBSET Nat
    BY <1>0
  <2> QED  BY <2>1, LeastNumber
<1>2. CASE k = 0
  <2>1. LowItems(I, k) = {}
    BY <1>2 DEF LowItems
  <2>2. Counted(LowItems(I, k), 0)
    BY <2>1, CountedNone
  <2> QED  BY <1>1, <1>2, <2>2
<1>3. CASE k # 0
  <2>1. k \in 1 .. Len(I) /\ k - 1 \in Nat /\ k - 1 \in 0 .. Len(I) /\ k = (k - 1) + 1 /\ ~ (k <= k - 1)
    BY <1>0, <1>1, <1>3
  <2>2. Counted(LowItems(I, k - 1), k - 1)
    BY <1>1, <2>1
  <2>3. I[k] \notin LowItems(I, k - 1)
    BY <1>0, <2>1 DEF LowItems
  <2>4. LowItems(I, k) = LowItems(I, k - 1) \cup {I[k]}
    BY <2>1 DEF LowItems
  <2>5. Counted(LowItems(I, k - 1) \cup {I[k]}, k)
    BY <2>1, <2>2, <2>3, CountedMore
  <2> QED  BY <1>1, <2>4, <2>5
<1> QED  BY <1>2, <1>3

(* The values of the first p children.                                     *)
LowKids(C, g, p) == UNION {Within(C[c], g) : c \in 1 .. p}

AllCounted(C, g) == \A c \in 1 .. Len(C) : C[c].size \in Nat /\ Counted(Within(C[c], g), C[c].size)

LEMMA KidsCounted ==
  ASSUME NEW lt, NEW I, NEW C, NEW h, Arranged(lt, I, C, h), AllCounted(C, h - 1), NEW p \in 0 .. Len(C)
  PROVE  Counted(LowKids(C, h - 1, p), Sum(C, p)) /\ Sum(C, p) \in Nat
<1> DEFINE g == h - 1
<1>0. /\ Listed(C) /\ Len(C) \in Nat /\ Sized(C)
      /\ \A c, e \in 1 .. Len(C) : c # e => \A x \in Within(C[c], g) : x \notin Within(C[e], g)
  BY RowDisjoint DEF Arranged, Listed, Sized, AllCounted
<1>a. \A c \in 1 .. Len(C) : Counted(Within(C[c], g), C[c].size) /\ C[c].size \in Nat
  BY DEF AllCounted
<1>b. \A k \in 0 .. Len(C) : Sum(C, k) \in Nat
  BY <1>0, SumNat
<1>c. Sum(C, 0) = 0 /\ \A k \in 1 .. Len(C) : Sum(C, k) = Sum(C, k - 1) + C[k].size
  BY <1>0, SumFacts
<1> SUFFICES Counted(LowKids(C, g, p), Sum(C, p))
  BY <1>b
<1> HIDE DEF g
<1> DEFINE Bad == {k \in 0 .. Len(C) : ~ Counted(LowKids(C, g, k), Sum(C, k))}
<1> SUFFICES ASSUME Bad # {} PROVE FALSE
  OBVIOUS
<1>1. PICK k \in Bad : \A l \in Bad : k <= l
  <2>1. Bad \in SUBSET Nat
    BY <1>0
  <2> QED  BY <2>1, LeastNumber
<1>2. CASE k = 0
  <2>1. LowKids(C, g, k) = {}
    BY <1>2 DEF LowKids
  <2>2. Counted(LowKids(C, g, k), 0)
    BY <2>1, CountedNone
  <2> QED  BY <1>1, <1>2, <1>c, <2>2
<1>3. CASE k # 0
  <2>1. k \in 1 .. Len(C) /\ k - 1 \in Nat /\ k - 1 \in 0 .. Len(C) /\ k = (k - 1) + 1 /\ ~ (k <= k - 1)
    BY <1>0, <1>1, <1>3
  <2>2. Counted(LowKids(C, g, k - 1), Sum(C, k - 1))
    BY <1>1, <2>1
  <2>3. \A x \in LowKids(C, g, k - 1) : x \notin Within(C[k], g)
    <3> SUFFICES ASSUME NEW x \in LowKids(C, g, k - 1) PROVE x \notin Within(C[k], g)
      OBVIOUS
    <3>1. PICK c \in 1 .. k - 1 : x \in Within(C[c], g)
      BY DEF LowKids
    <3>2. c \in 1 .. Len(C) /\ c # k
      BY <2>1, <3>1
    <3> QED  BY <1>0, <2>1, <3>1, <3>2
  <2>4. LowKids(C, g, k) = LowKids(C, g, k - 1) \cup Within(C[k], g)
    <3>1. \A c \in 1 .. k : c \in 1 .. k - 1 \/ c = k
      BY <2>1
    <3>2. k \in 1 .. k /\ \A c \in 1 .. k - 1 : c \in 1 .. k
      BY <2>1
    <3> QED  BY <3>1, <3>2, Zenon DEF LowKids
  <2>5. Counted(LowKids(C, g, k - 1) \cup Within(C[k], g), Sum(C, k))
    BY <1>a, <1>b, <1>c, <2>1, <2>2, <2>3, CountedBoth
  <2> QED  BY <1>1, <2>4, <2>5
<1> QED  BY <1>2, <1>3

(* The first q items and the values of the first p children.               *)
Low(I, C, g, q, p) == LowItems(I, q) \cup LowKids(C, g, p)

LEMMA LowCounted ==
  ASSUME NEW lt, NEW I, NEW C, NEW h, Arranged(lt, I, C, h), AllCounted(C, h - 1),
         NEW q \in 0 .. Len(I), NEW p \in 0 .. Len(C), NEW n, n = q + Sum(C, p)
  PROVE  Counted(Low(I, C, h - 1, q, p), n)
<1>0. Len(I) \in Nat /\ Len(C) \in Nat
  BY DEF Arranged, Listed
<1>1. Counted(LowItems(I, q), q) /\ q \in Nat
  BY <1>0, ItemsCounted
<1>2. Counted(LowKids(C, h - 1, p), Sum(C, p)) /\ Sum(C, p) \in Nat
  BY KidsCounted
<1>3. \A x \in LowItems(I, q) : x \notin LowKids(C, h - 1, p)
  <2> SUFFICES ASSUME NEW x \in LowItems(I, q), x \in LowKids(C, h - 1, p) PROVE FALSE
    OBVIOUS
  <2>1. PICK i \in 1 .. q : x = I[i]
    BY DEF LowItems
  <2>2. PICK c \in 1 .. p : x \in Within(C[c], h - 1)
    BY DEF LowKids
  <2>3. i \in 1 .. Len(I) /\ c \in 1 .. Len(C)
    BY <1>0
  <2> QED  BY <2>1, <2>2, <2>3, RowDisjoint
<1> QED  BY <1>1, <1>2, <1>3, CountedBoth DEF Low

LEMMA TreeCounted ==
  ASSUME NEW d, NEW lt, NEW n, NEW h \in Nat, Tree(d, lt, n, h)
  PROVE  Counted(Within(n, h), n.size)
<1> DEFINE Bad == {k \in Nat : \E x : Tree(d, lt, x, k) /\ ~ Counted(Within(x, k), x.size)}
<1> SUFFICES ASSUME Bad # {} PROVE FALSE
  OBVIOUS
<1>1. PICK k \in Bad : \A l \in Bad : k <= l
  <2>1. Bad \in SUBSET Nat
    OBVIOUS
  <2> QED  BY <2>1, LeastNumber
<1>2. PICK x : Tree(d, lt, x, k) /\ ~ Counted(Within(x, k), x.size)
  BY <1>1
<1> DEFINE I == x.items
           C == x.children
<1>3. Row(d, lt, I, C, k) /\ Within(x, k) = Held(I, C, k)
  BY <1>1, <1>2, TreeUnfold
<1>4. Arranged(lt, I, C, k) /\ Listed(I) /\ Listed(C) /\ Len(I) \in Nat /\ Len(C) \in Nat /\ Len(C) = NbKids(I, k)
  BY <1>3 DEF Row, Arranged, Listed
<1>5. x.size = Len(I) + SizeOf(C)
  BY <1>1, <1>2, TreeFacts
<1> HIDE DEF I, C
<1>6. AllCounted(C, k - 1)
  <2>1. CASE k = 0
    BY <1>4, <2>1 DEF AllCounted, NbKids
  <2>2. CASE k # 0
    <3>1. k - 1 \in Nat /\ ~ (k <= k - 1)
      BY <1>1, <2>2
    <3>2. k - 1 \notin Bad
      BY <1>1, <3>1
    <3>3. ASSUME NEW c \in 1 .. Len(C) PROVE C[c].size \in Nat /\ Counted(Within(C[c], k - 1), C[c].size)
      <4>1. Tree(d, lt, C[c], k - 1)
        BY <1>3 DEF Row
      <4>2. C[c].size \in Nat
        BY <3>1, <4>1, TreeFacts
      <4> QED  BY <3>1, <3>2, <4>1, <4>2
    <3> QED  BY <3>3 DEF AllCounted
  <2> QED  BY <2>1, <2>2
<1>7. Held(I, C, k) = Low(I, C, k - 1, Len(I), Len(C))
  <2>1. ToSet(I) = LowItems(I, Len(I))
    BY <1>4, ElementsOf DEF LowItems
  <2>2. Kids(C, k - 1) = LowKids(C, k - 1, Len(C))
    BY DEF Kids, LowKids
  <2> QED  BY <2>1, <2>2 DEF Held, Low
<1>8. SizeOf(C) = Sum(C, Len(C))
  BY <1>4, SumFacts
<1>9. Counted(Low(I, C, k - 1, Len(I), Len(C)), x.size)
  <2>1. Len(I) \in 0 .. Len(I) /\ Len(C) \in 0 .. Len(C) /\ x.size = Len(I) + Sum(C, Len(C))
    BY <1>4, <1>5, <1>8
  <2> QED  BY <1>4, <1>6, <2>1, LowCounted
<1> QED  BY <1>2, <1>3, <1>7, <1>9

LEMMA RowCounted ==
  ASSUME NEW d, NEW lt, NEW I, NEW C, NEW h, Row(d, lt, I, C, h)
  PROVE  AllCounted(C, h - 1)
<1>1. h \in Nat /\ Len(C) = NbKids(I, h)
  BY DEF Row, Arranged
<1>2. ASSUME NEW c \in 1 .. Len(C) PROVE C[c].size \in Nat /\ Counted(Within(C[c], h - 1), C[c].size)
  <2>1. h - 1 \in Nat
    BY <1>1 DEF NbKids
  <2>2. Tree(d, lt, C[c], h - 1)
    BY DEF Row
  <2> QED  BY <2>1, <2>2, TreeCounted, TreeFacts
<1> QED  BY <1>2 DEF AllCounted

(* The number of elements before a value.                                  *)
Lessers(lt, S, x) == {y \in S : Lesser(lt, y, x)}
Rank(lt, S, x) == Cardinality(Lessers(lt, S, x))

LEMMA RankOf ==
  ASSUME NEW lt, NEW S, NEW x, NEW k, Counted(Lessers(lt, S, x), k)
  PROVE  Rank(lt, S, x) = k
BY DEF Rank, Counted

(* The values before an item, and before a value between two items.        *)
LEMMA BeforeItem ==
  ASSUME NEW lt, NEW I, NEW C, NEW h, Arranged(lt, I, C, h), NEW q \in 1 .. Len(I),
         NEW p, p = IF h = 0 THEN 0 ELSE q
  PROVE  Lessers(lt, Held(I, C, h), I[q]) = Low(I, C, h - 1, q - 1, p)
<1>0. /\ Listed(I) /\ Len(I) \in Nat /\ Listed(C) /\ Len(C) = NbKids(I, h) /\ Len(C) \in Nat
      /\ \A i \in 1 .. Len(I) : I[i] \in Values
      /\ \A c \in 1 .. Len(C) : Within(C[c], h - 1) \subseteq Values
      /\ InOrder(lt, I) /\ Separated(lt, I, C, h - 1)
  BY DEF Arranged, Listed
<1>p. p \in 0 .. Len(C)
  BY <1>0 DEF NbKids
<1>1. ASSUME NEW y \in Lessers(lt, Held(I, C, h), I[q]) PROVE y \in Low(I, C, h - 1, q - 1, p)
  <2>0. y \in Held(I, C, h) /\ Lesser(lt, y, I[q])
    BY DEF Lessers
  <2>1. ASSUME NEW i \in 1 .. Len(I), y = I[i] PROVE y \in Low(I, C, h - 1, q - 1, p)
    <3>1. i < q
      <4>1. q < i => Lesser(lt, I[q], I[i])
        BY <1>0 DEF InOrder
      <4>2. i # q /\ ~ Lesser(lt, I[q], I[i])
        BY <1>0, <2>0, <2>1, LesserOrder
      <4> QED  BY <1>0, <4>1, <4>2
    <3>2. i \in 1 .. q - 1
      BY <1>0, <3>1
    <3> QED  BY <2>1, <3>2 DEF Low, LowItems
  <2>2. ASSUME NEW c \in 1 .. Len(C), y \in Within(C[c], h - 1) PROVE y \in Low(I, C, h - 1, q - 1, p)
    <3>1. Between(lt, I, c, y)
      BY <1>0, <2>2 DEF Separated
    <3>2. c <= q
      <4>1. y \in Values /\ I[q] \in Values
        BY <1>0, <2>2
      <4>2. ~ (c <= q) => Lesser(lt, I[q], y)
        BY <3>1 DEF Between
      <4> QED  BY <2>0, <4>1, <4>2, LesserOrder
    <3>3. h # 0
      BY <1>0 DEF NbKids
    <3>4. c \in 1 .. p
      BY <1>0, <3>2, <3>3
    <3> QED  BY <2>2, <3>4 DEF Low, LowKids
  <2> QED  BY <1>0, <2>0, <2>1, <2>2, HeldHas
<1>2. ASSUME NEW y \in Low(I, C, h - 1, q - 1, p) PROVE y \in Lessers(lt, Held(I, C, h), I[q])
  <2>1. ASSUME NEW i \in 1 .. q - 1, y = I[i] PROVE y \in Held(I, C, h) /\ Lesser(lt, y, I[q])
    <3>1. i \in 1 .. Len(I) /\ i < q
      BY <1>0
    <3>2. Lesser(lt, I[i], I[q])
      BY <1>0, <3>1 DEF InOrder
    <3> QED  BY <1>0, <2>1, <3>1, <3>2, HeldHas
  <2>2. ASSUME NEW c \in 1 .. p, y \in Within(C[c], h - 1) PROVE y \in Held(I, C, h) /\ Lesser(lt, y, I[q])
    <3>1. c \in 1 .. Len(C) /\ c <= q
      BY <1>p, <1>0
    <3>2. Between(lt, I, c, y)
      BY <1>0, <2>2, <3>1 DEF Separated
    <3>3. Lesser(lt, y, I[q])
      BY <3>1, <3>2 DEF Between
    <3> QED  BY <1>0, <2>2, <3>1, <3>3, HeldHas
  <2>3. y \in Held(I, C, h) /\ Lesser(lt, y, I[q])
    BY <2>1, <2>2 DEF Low, LowItems, LowKids
  <2> QED  BY <2>3 DEF Lessers
<1> QED  BY <1>1, <1>2

(* Whole children before a gap, and what is before x in the one of the gap. *)
GapParts(lt, C, h, q, x, p, W) ==
  /\ p = IF h = 0 THEN 0 ELSE q - 1
  /\ W = IF h = 0 THEN {} ELSE Lessers(lt, Within(C[q], h - 1), x)

LEMMA BeforeGap ==
  ASSUME NEW lt, NEW I, NEW C, NEW h, Arranged(lt, I, C, h), NEW q \in 1 .. Len(I) + 1,
         NEW x \in Values, Between(lt, I, q, x), NEW p, NEW W, GapParts(lt, C, h, q, x, p, W)
  PROVE  Lessers(lt, Held(I, C, h), x) = Low(I, C, h - 1, q - 1, p) \cup W
<1>i. /\ p = IF h = 0 THEN 0 ELSE q - 1
      /\ W = IF h = 0 THEN {} ELSE Lessers(lt, Within(C[q], h - 1), x)
  BY DEF GapParts
<1>0. /\ Listed(I) /\ Len(I) \in Nat /\ Listed(C) /\ Len(C) = NbKids(I, h) /\ Len(C) \in Nat
      /\ \A i \in 1 .. Len(I) : I[i] \in Values
      /\ \A c \in 1 .. Len(C) : Within(C[c], h - 1) \subseteq Values
      /\ InOrder(lt, I) /\ Separated(lt, I, C, h - 1)
  BY DEF Arranged, Listed
<1>p. p \in 0 .. Len(C) /\ (h # 0 => q \in 1 .. Len(C)) /\ q \in Nat
  BY <1>0, <1>i DEF NbKids
<1>x. \A i \in 1 .. Len(I) : IF q <= i THEN Lesser(lt, x, I[i]) ELSE Lesser(lt, I[i], x)
  BY DEF Between
<1>1. ASSUME NEW y \in Lessers(lt, Held(I, C, h), x) PROVE y \in Low(I, C, h - 1, q - 1, p) \cup W
  <2>0. y \in Held(I, C, h) /\ Lesser(lt, y, x)
    BY DEF Lessers
  <2>1. ASSUME NEW i \in 1 .. Len(I), y = I[i] PROVE y \in Low(I, C, h - 1, q - 1, p)
    <3>1. ~ (q <= i)
      BY <1>0, <1>x, <2>0, <2>1, LesserOrder
    <3>2. i \in 1 .. q - 1
      BY <1>0, <1>p, <3>1
    <3> QED  BY <2>1, <3>2 DEF Low, LowItems
  <2>2. ASSUME NEW c \in 1 .. Len(C), y \in Within(C[c], h - 1) PROVE y \in Low(I, C, h - 1, q - 1, p) \cup W
    <3>1. Between(lt, I, c, y)
      BY <1>0, <2>2 DEF Separated
    <3>3. h # 0
      BY <1>0 DEF NbKids
    <3>2. c <= q
      <4> SUFFICES ASSUME ~ (c <= q) PROVE FALSE
        OBVIOUS
      <4>1. q \in 1 .. Len(I) /\ ~ (c <= q)
        BY <1>0, <1>p, <3>3 DEF NbKids
      <4>2. Lesser(lt, I[q], y)
        BY <3>1, <4>1 DEF Between
      <4>3. Lesser(lt, x, I[q])
        BY <1>x, <1>p, <4>1
      <4>4. y \in Values /\ I[q] \in Values
        BY <1>0, <2>2, <4>1
      <4> QED  BY <2>0, <4>2, <4>3, <4>4, LesserOrder
    <3>4. CASE c = q
      <4>1. y \in W
        BY <1>i, <2>0, <2>2, <3>3, <3>4 DEF Lessers
      <4> QED  BY <4>1
    <3>5. CASE c # q
      <4>1. c \in 1 .. p
        BY <1>i, <1>p, <3>2, <3>3, <3>5
      <4> QED  BY <2>2, <4>1 DEF Low, LowKids
    <3> QED  BY <3>4, <3>5
  <2> QED  BY <1>0, <2>0, <2>1, <2>2, HeldHas
<1>2. ASSUME NEW y \in Low(I, C, h - 1, q - 1, p) \cup W PROVE y \in Lessers(lt, Held(I, C, h), x)
  <2>1. ASSUME NEW i \in 1 .. q - 1, y = I[i] PROVE y \in Held(I, C, h) /\ Lesser(lt, y, x)
    <3>1. i \in 1 .. Len(I) /\ ~ (q <= i)
      BY <1>0, <1>p
    <3> QED  BY <1>0, <1>x, <2>1, <3>1, HeldHas
  <2>2. ASSUME NEW c \in 1 .. p, y \in Within(C[c], h - 1) PROVE y \in Held(I, C, h) /\ Lesser(lt, y, x)
    <3>1. c \in 1 .. Len(C) /\ h # 0 /\ c < q /\ c \in 1 .. Len(I)
      BY <1>i, <1>p, <1>0 DEF NbKids
    <3>2. Between(lt, I, c, y)
      BY <1>0, <2>2, <3>1 DEF Separated
    <3>3. Lesser(lt, y, I[c])
      BY <3>1, <3>2 DEF Between
    <3>4. Lesser(lt, I[c], x)
      BY <1>x, <1>p, <3>1
    <3>5. y \in Values /\ I[c] \in Values
      BY <1>0, <2>2, <3>1
    <3>6. Lesser(lt, y, x)
      BY <3>3, <3>4, <3>5, LesserOrder
    <3> QED  BY <1>0, <2>2, <3>1, <3>6, HeldHas
  <2>3. ASSUME y \in W PROVE y \in Held(I, C, h) /\ Lesser(lt, y, x)
    <3>1. h # 0 /\ y \in Within(C[q], h - 1) /\ Lesser(lt, y, x)
      BY <1>i, <2>3 DEF Lessers
    <3> QED  BY <1>0, <1>p, <3>1, HeldHas
  <2>4. y \in Held(I, C, h) /\ Lesser(lt, y, x)
    BY <2>1, <2>2, <2>3 DEF Low, LowItems, LowKids
  <2> QED  BY <2>4 DEF Lessers
<1> QED  BY <1>1, <1>2

(* The size and the number of elements before a position, as the code      *)
(* computes it.                                                            *)
LEMMA BeforeIs ==
  ASSUME NEW d, NEW lt, NEW n, NEW h \in Nat, Tree(d, lt, n, h), NEW p \in 0 .. Len(n.items)
  PROVE  Before(n, p) = p + Sum(n.children, IF h = 0 THEN 0 ELSE p)
<1>1. /\ Listed(n.children) /\ Len(n.children) = NbKids(n.items, h) /\ Len(n.items) \in Nat
  BY TreeFacts
<1>2. (IF p <= Len(n.children) THEN p ELSE Len(n.children)) = (IF h = 0 THEN 0 ELSE p)
  BY <1>1 DEF NbKids
<1>3. SizeOf(FirstOnes(p, n.children)) = Sum(n.children, IF p <= Len(n.children) THEN p ELSE Len(n.children))
  BY <1>1, FirstOnesSize
<1> QED  BY <1>2, <1>3 DEF Before

LEMMA BeforeEnd ==
  ASSUME NEW d, NEW lt, NEW n, NEW h \in Nat, Tree(d, lt, n, h), NEW p, p = Len(n.items) + 1
  PROVE  Before(n, p) = n.size + 1
<1>1. /\ Listed(n.children) /\ Len(n.children) = NbKids(n.items, h) /\ Len(n.items) \in Nat
      /\ n.size = Len(n.items) + SizeOf(n.children) /\ n.size \in Nat
  BY TreeFacts
<1>2. (IF p <= Len(n.children) THEN p ELSE Len(n.children)) = Len(n.children) /\ p \in Nat
  BY <1>1 DEF NbKids
<1>3. SizeOf(FirstOnes(p, n.children)) = Sum(n.children, IF p <= Len(n.children) THEN p ELSE Len(n.children))
  BY <1>1, <1>2, FirstOnesSize
<1>4. SizeOf(n.children) = Sum(n.children, Len(n.children))
  BY <1>1, SumFacts
<1>5. SizeOf(FirstOnes(p, n.children)) = SizeOf(n.children)
  BY <1>2, <1>3, <1>4
<1>6. Before(n, p) = p + SizeOf(n.children)
  BY <1>5 DEF Before
<1>7. SizeOf(n.children) \in Int
  <2>1. Row(d, lt, n.items, n.children, h)
    BY TreeUnfold
  <2> QED  BY <2>1, RowSized
<1> QED  BY <1>1, <1>6, <1>7

LEMMA RankItem ==
  ASSUME NEW d, NEW lt, NEW n, NEW h \in Nat, Tree(d, lt, n, h), NEW p \in 0 .. Len(n.items) - 1,
         NEW q, q = p + 1
  PROVE  Rank(lt, Within(n, h), n.items[q]) =
           IF h = 0 THEN p ELSE Before(n, p) + n.children[q].size
<1> DEFINE I == n.items
           C == n.children
<1>1. /\ Row(d, lt, I, C, h) /\ Within(n, h) = Held(I, C, h)
  BY TreeUnfold
<1>2. Arranged(lt, I, C, h) /\ AllCounted(C, h - 1) /\ Listed(C) /\ Len(C) = NbKids(I, h) /\ Len(I) \in Nat
  BY <1>1, RowCounted DEF Row, Arranged, Listed
<1>3. q \in 1 .. Len(I) /\ p = q - 1 /\ p \in 0 .. Len(I) /\ (h # 0 => p \in 0 .. Len(C) - 1 /\ q \in 0 .. Len(C))
  BY <1>2 DEF NbKids
<1>4. Before(n, p) = p + Sum(C, IF h = 0 THEN 0 ELSE p)
  BY <1>3, BeforeIs
<1> HIDE DEF I, C
<1>5. CASE h = 0
  <2>1. Lessers(lt, Held(I, C, h), I[q]) = Low(I, C, h - 1, p, 0)
    BY <1>2, <1>3, <1>5, BeforeItem
  <2>2. Sum(C, 0) = 0 /\ 0 \in 0 .. Len(C) /\ p = p + Sum(C, 0)
    BY <1>2, <1>3, SumFacts DEF Listed
  <2>3. Counted(Low(I, C, h - 1, p, 0), p)
    BY <1>2, <1>3, <2>2, LowCounted
  <2>4. Rank(lt, Held(I, C, h), I[q]) = p
    BY <2>1, <2>3, RankOf
  <2> QED  BY <1>1, <1>5, <2>4 DEF I
<1>6. CASE h # 0
  <2>1. Lessers(lt, Held(I, C, h), I[q]) = Low(I, C, h - 1, p, q)
    <3>1. q = IF h = 0 THEN 0 ELSE q
      BY <1>6
    <3>2. Lessers(lt, Held(I, C, h), I[q]) = Low(I, C, h - 1, q - 1, q)
      BY <1>2, <1>3, <3>1, BeforeItem
    <3> QED  BY <1>3, <3>2
  <2> DEFINE k == p + Sum(C, q)
  <2>2. Counted(Low(I, C, h - 1, p, q), k)
    BY <1>2, <1>3, <1>6, LowCounted
  <2>3. Rank(lt, Held(I, C, h), I[q]) = k
    BY <2>1, <2>2, RankOf
  <2>4. Sum(C, p + 1) = Sum(C, p) + C[p + 1].size
    BY <1>2, <1>3, <1>6, SumStep
  <2>5. Sum(C, p) \in Nat /\ C[p + 1].size \in Nat
    <3>1. Sized(C)
      BY <1>1, RowSized
    <3>2. p + 1 \in 1 .. Len(C) /\ p \in 0 .. Len(C)
      BY <1>2, <1>3, <1>6 DEF Listed
    <3> QED  BY <3>1, <3>2, SumNat DEF Sized
  <2>6. k = Before(n, p) + C[q].size
    BY <1>4, <1>6, <2>4, <2>5
  <2> HIDE DEF k
  <2> QED  BY <1>1, <1>6, <2>3, <2>6 DEF I, C
<1> QED  BY <1>5, <1>6

LEMMA RankGap ==
  ASSUME NEW d, NEW lt, NEW n, NEW h \in Nat, Tree(d, lt, n, h), NEW p \in 0 .. Len(n.items),
         NEW q, q = p + 1, NEW x \in Values, Between(lt, n.items, q, x), NEW g, g = h - 1
  PROVE  /\ Rank(lt, Within(n, h), x) \in Nat
         /\ Rank(lt, Within(n, h), x) =
              IF h = 0 THEN Before(n, p) ELSE Before(n, p) + Rank(lt, Within(n.children[q], g), x)
<1> DEFINE I == n.items
           C == n.children
           W == IF h = 0 THEN {} ELSE Lessers(lt, Within(C[q], h - 1), x)
           l == IF h = 0 THEN 0 ELSE p
           w == IF h = 0 THEN 0 ELSE Rank(lt, Within(C[q], h - 1), x)
           k == p + Sum(C, l)
<1>1. /\ Row(d, lt, I, C, h) /\ Within(n, h) = Held(I, C, h)
  BY TreeUnfold
<1>2. Arranged(lt, I, C, h) /\ AllCounted(C, h - 1) /\ Listed(C) /\ Len(C) = NbKids(I, h) /\ Len(I) \in Nat /\ Len(C) \in Nat
  BY <1>1, RowCounted DEF Row, Arranged, Listed
<1>3. q \in 1 .. Len(I) + 1 /\ p = q - 1 /\ p \in 0 .. Len(I) /\ (h # 0 => p \in 0 .. Len(C) - 1 /\ q \in 1 .. Len(C))
  BY <1>2 DEF NbKids
<1>4. Before(n, p) = k
  BY <1>3, BeforeIs
<1>5. l \in 0 .. Len(C) /\ l = IF h = 0 THEN 0 ELSE q - 1
  BY <1>2, <1>3
<1>6. Sum(C, l) \in Nat /\ k \in Nat
  <2>1. Sized(C)
    BY <1>1, RowSized
  <2> QED  BY <1>2, <1>3, <1>5, <2>1, SumNat
<1>7. Lessers(lt, Held(I, C, h), x) = Low(I, C, h - 1, p, l) \cup W
  <2>1. GapParts(lt, C, h, q, x, l, W) /\ Between(lt, I, q, x)
    BY <1>5 DEF GapParts
  <2>2. Arranged(lt, I, C, h) /\ q \in 1 .. Len(I) + 1
    BY <1>2, <1>3
  <2> HIDE DEF W, l, I, C
  <2>3. Lessers(lt, Held(I, C, h), x) = Low(I, C, h - 1, q - 1, l) \cup W
    BY <2>1, <2>2, BeforeGap
  <2> QED  BY <1>3, <2>3
<1>8. Counted(Low(I, C, h - 1, p, l), k)
  BY <1>2, <1>3, <1>5, LowCounted
<1>9. Counted(W, w) /\ w \in Nat
  <2>1. CASE h = 0
    BY <2>1, CountedNone
  <2>2. CASE h # 0
    <3>1. Counted(Within(C[q], h - 1), C[q].size)
      BY <1>2, <1>3, <2>2 DEF AllCounted
    <3>2. W \subseteq Within(C[q], h - 1)
      BY <2>2 DEF Lessers
    <3>3. IsFiniteSet(W)
      BY <3>1, <3>2, FS_Subset DEF Counted
    <3>4. Cardinality(W) = w
      BY <2>2 DEF Rank
    <3> QED  BY <3>3, <3>4, FS_CardinalityType DEF Counted
  <2> QED  BY <2>1, <2>2
<1>a. \A y \in Low(I, C, h - 1, p, l) : y \notin W
  <2> SUFFICES ASSUME NEW y \in Low(I, C, h - 1, p, l), y \in W PROVE FALSE
    OBVIOUS
  <2>1. h # 0 /\ y \in Within(C[q], h - 1) /\ q \in 1 .. Len(C) /\ l = p
    BY <1>3 DEF Lessers
  <2>2. ASSUME NEW i \in 1 .. p, y = I[i] PROVE FALSE
    <3>1. i \in 1 .. Len(I)
      BY <1>2
    <3> QED  BY <1>2, <2>1, <2>2, <3>1, RowDisjoint
  <2>3. ASSUME NEW c \in 1 .. l, y \in Within(C[c], h - 1) PROVE FALSE
    <3>1. c \in 1 .. Len(C) /\ c # q
      BY <1>2, <1>3, <1>5, <2>1
    <3> QED  BY <1>2, <2>1, <2>3, <3>1, RowDisjoint
  <2> QED  BY <2>2, <2>3 DEF Low, LowItems, LowKids
<1> DEFINE t == k + w
<1>b. Counted(Low(I, C, h - 1, p, l) \cup W, t)
  <2> HIDE DEF W, w, k, l
  <2> QED  BY <1>6, <1>8, <1>9, <1>a, CountedBoth
<1>c. Rank(lt, Within(n, h), x) = t
  <2> HIDE DEF t, W, l
  <2> QED  BY <1>1, <1>7, <1>b, RankOf
<1>d. t = IF h = 0 THEN Before(n, p) ELSE Before(n, p) + Rank(lt, Within(n.children[q], g), x)
  <2> HIDE DEF k
  <2> QED  BY <1>4, <1>6
<1>e. t \in Nat
  BY <1>6, <1>9
<1> QED  BY <1>c, <1>d, <1>e

-----------------------------------------------------------------------------
(* Roots and ways down.                                                    *)

Root(d, lt, n, h) == h \in Nat /\ Tree(d, lt, n, h) /\ (h # 0 => Len(n.items) >= 1)

LEMMA ChildTree ==
  ASSUME NEW d, NEW lt, NEW n, NEW h \in Nat, Tree(d, lt, n, h), NEW q \in 1 .. Len(n.children),
         NEW g, g = h - 1
  PROVE  /\ g \in Nat /\ h # 0 /\ Tree(d, lt, n.children[q], g)
         /\ Len(n.children[q].items) >= d
         /\ Within(n.children[q], g) \subseteq Within(n, h)
         /\ \A x \in Within(n.children[q], g) : Between(lt, n.items, q, x)
<1>1. /\ Row(d, lt, n.items, n.children, h) /\ Full(d, n.children)
      /\ Within(n, h) = Held(n.items, n.children, h)
  BY TreeUnfold
<1>2. Listed(n.items) /\ Len(n.children) = NbKids(n.items, h) /\ Separated(lt, n.items, n.children, h - 1)
  BY <1>1 DEF Row, Arranged
<1>3. h # 0 /\ g \in Nat
  BY <1>2 DEF NbKids
<1>4. Tree(d, lt, n.children[q], g) /\ Len(n.children[q].items) >= d
  BY <1>1 DEF Row, Full
<1>5. \A x \in Within(n.children[q], g) : x \in Within(n, h)
  BY <1>1, <1>2, HeldHas
<1>6. \A x \in Within(n.children[q], g) : Between(lt, n.items, q, x)
  BY <1>2 DEF Separated
<1> QED  BY <1>3, <1>4, <1>5, <1>6

LEMMA ChildSize ==
  ASSUME NEW d, NEW lt, NEW n, NEW h \in Nat, Tree(d, lt, n, h), NEW q \in 1 .. Len(n.children)
  PROVE  n.children[q].size \in Nat /\ n.children[q].size <= SizeOf(n.children)
<1> DEFINE C == n.children
<1>1. Sized(C) /\ Listed(C) /\ Len(C) \in Nat
  <2>1. Row(d, lt, C, C, h) \/ Row(d, lt, n.items, C, h)
    BY TreeUnfold
  <2> QED  BY <2>1, RowSized DEF Sized, Listed
<1>2. q - 1 \in 0 .. Len(C) /\ q \in 0 .. Len(C) /\ q \in 1 .. Len(C)
  BY <1>1
<1>3. Sum(C, q) = Sum(C, q - 1) + C[q].size /\ SizeOf(C) = Sum(C, Len(C))
  BY <1>1, <1>2, SumFacts
<1>4. Sum(C, q - 1) \in Nat /\ C[q].size \in Nat
  BY <1>1, <1>2, SumNat DEF Sized
<1>5. Sum(C, q) <= Sum(C, Len(C))
  <2>1. Len(C) \in 0 .. Len(C)
    BY <1>1
  <2> QED  BY <1>1, <1>2, <2>1, SumGrows
<1>6. Sum(C, Len(C)) \in Nat /\ Sum(C, q) \in Nat
  <2>1. Len(C) \in 0 .. Len(C)
    BY <1>1
  <2> QED  BY <1>1, <1>2, <2>1, SumNat
<1> HIDE DEF C
<1>7. C[q].size \in Nat /\ C[q].size <= SizeOf(C)
  BY <1>3, <1>4, <1>5, <1>6
<1> QED  BY <1>7 DEF C

LEMMA RootChild ==
  ASSUME NEW d, NEW lt, NEW n, NEW h, Root(d, lt, n, h), h # 0, d \in Nat, d >= 1, NEW g, g = h - 1
  PROVE  1 \in 1 .. Len(n.children) /\ Root(d, lt, n.children[1], g)
<1>1. /\ Tree(d, lt, n, h) /\ h \in Nat
  BY DEF Root
<1>2. Len(n.children) = NbKids(n.items, h) /\ Len(n.items) \in Nat /\ Listed(n.children)
  BY <1>1, TreeFacts
<1>3. 1 \in 1 .. Len(n.children)
  BY <1>2 DEF NbKids
<1>4. Tree(d, lt, n.children[1], g) /\ Len(n.children[1].items) >= d /\ g \in Nat
  BY <1>1, <1>3, ChildTree
<1>5. Len(n.children[1].items) \in Nat
  BY <1>4, TreeFacts
<1>6. Len(n.children[1].items) >= 1
  BY <1>4, <1>5
<1> QED  BY <1>3, <1>4, <1>6 DEF Root

LEMMA RootHeight ==
  ASSUME NEW d \in Nat, d >= 1, NEW lt, NEW n, NEW h, Root(d, lt, n, h)
  PROVE  h \in Nat /\ n.size \in Nat /\ h <= n.size
<1>0. h \in Nat /\ n.size \in Nat
  BY TreeFacts DEF Root
<1> DEFINE Bad == {k \in Nat : \E x : Root(d, lt, x, k) /\ ~ (k <= x.size)}
<1>1. ASSUME Bad # {} PROVE FALSE
  <2>1. PICK k \in Bad : \A l \in Bad : k <= l
    <3>1. Bad \in SUBSET Nat
      OBVIOUS
    <3> QED  BY <1>1, <3>1, LeastNumber
  <2>2. PICK x : Root(d, lt, x, k) /\ ~ (k <= x.size)
    BY <2>1
  <2>3. /\ k \in Nat /\ Tree(d, lt, x, k) /\ (k # 0 => Len(x.items) >= 1)
    BY <2>1, <2>2 DEF Root
  <2>4. x.size \in Nat /\ x.size = Len(x.items) + SizeOf(x.children) /\ Len(x.items) \in Nat
    BY <2>3, TreeFacts
  <2>5. k # 0 /\ k - 1 \in Nat /\ ~ (k <= k - 1)
    BY <2>2, <2>3, <2>4
  <2>6. 1 \in 1 .. Len(x.children) /\ Root(d, lt, x.children[1], k - 1)
    BY <2>2, <2>5, RootChild
  <2>7. k - 1 \notin Bad
    BY <2>1, <2>5
  <2>8. k - 1 <= x.children[1].size
    BY <2>5, <2>6, <2>7
  <2>9. x.children[1].size \in Nat /\ x.children[1].size <= SizeOf(x.children)
    BY <2>3, <2>6, ChildSize
  <2>a. SizeOf(x.children) \in Nat
    <3>1. Row(d, lt, x.items, x.children, k)
      BY <2>3, TreeUnfold
    <3> QED  BY <3>1, RowSized
  <2> HIDE DEF Bad
  <2> QED  BY <2>2, <2>3, <2>4, <2>5, <2>8, <2>9, <2>a
<1> QED  BY <1>0, <1>1

LEMMA RootLeaf ==
  ASSUME NEW d \in Nat, d >= 1, NEW lt, NEW n, NEW h, Root(d, lt, n, h)
  PROVE  (IsLeaf(n) <=> h = 0) /\ (HasChildren(n) <=> h # 0)
<1>0. h \in Nat /\ Tree(d, lt, n, h)
  BY DEF Root
<1>1. /\ n.size \in Nat /\ n.size = Len(n.items) + SizeOf(n.children) /\ Len(n.items) \in Nat
      /\ Listed(n.children) /\ Len(n.children) = NbKids(n.items, h)
  BY <1>0, TreeFacts
<1>2. HasChildren(n) <=> h # 0
  <2>1. n.children = <<>> <=> Len(n.children) = 0
    BY <1>1, ListedEmpty
  <2>2. Len(n.children) = 0 <=> h = 0
    BY <1>1 DEF NbKids
  <2> QED  BY <2>1, <2>2 DEF HasChildren
<1>3. CASE h = 0
  <2>1. SizeOf(n.children) = 0
    BY <1>1, <1>3, SizeNone DEF NbKids
  <2> QED  BY <1>1, <1>2, <1>3, <2>1 DEF IsLeaf, NbItems
<1>4. CASE h # 0
  <2>1. 1 \in 1 .. Len(n.children) /\ Root(d, lt, n.children[1], h - 1)
    BY <1>4, RootChild
  <2>2. n.children[1].size \in Nat /\ n.children[1].size <= SizeOf(n.children)
    BY <1>0, <2>1, ChildSize
  <2> DEFINE c == n.children[1]
  <2>3. h - 1 \in Nat /\ Tree(d, lt, c, h - 1) /\ Len(c.items) >= d
    BY <1>0, <2>1, ChildTree
  <2>4. c.size = Len(c.items) + SizeOf(c.children) /\ Len(c.items) \in Nat
    BY <2>3, TreeFacts
  <2>5. SizeOf(c.children) \in Nat
    <3>1. Row(d, lt, c.items, c.children, h - 1)
      BY <2>3, TreeUnfold
    <3> QED  BY <3>1, RowSized
  <2>6. SizeOf(n.children) \in Nat
    <3>1. Row(d, lt, n.items, n.children, h)
      BY <1>0, TreeUnfold
    <3> QED  BY <3>1, RowSized
  <2>7. c.size \in Nat /\ c.size <= SizeOf(n.children)
    BY <2>2
  <2> HIDE DEF c
  <2>8. SizeOf(n.children) >= 1
    BY <2>3, <2>4, <2>5, <2>6, <2>7
  <2>9. Len(n.items) # n.size
    BY <1>1, <2>6, <2>8
  <2> QED  BY <1>2, <1>4, <2>9 DEF IsLeaf, NbItems
<1> QED  BY <1>3, <1>4

(* s and x.                                                                *)
More(s, x, r) ==
  /\ Listed(r) /\ Len(r) = Len(s) + 1
  /\ \A i \in 1 .. Len(s) : r[i] = s[i]
  /\ r[Len(s) + 1] = x

LEMMA MoreIs ==
  ASSUME NEW s, Listed(s), NEW x
  PROVE  More(s, x, Append(s, x)) /\ Last(Append(s, x)) = x
<1> DEFINE S == ToSet(s) \cup {x}
           r == Append(s, x)
<1>1. Len(s) \in Nat /\ \A i \in 1 .. Len(s) : s[i] \in S
  BY ElementsOf DEF Listed
<1>2. s \in Seq(S) /\ x \in S
  BY <1>1, ListedOf
<1> HIDE DEF S
<1>3. r \in Seq(S) /\ Len(r) = Len(s) + 1 /\ (\A i \in 1 .. Len(s) : r[i] = s[i]) /\ r[Len(s) + 1] = x
  BY <1>2, AppendProperties
<1>4. Listed(r)
  BY <1>3, ListedIs
<1> HIDE DEF r
<1>5. More(s, x, r) /\ Last(r) = x
  BY <1>3, <1>4 DEF More, Last
<1> QED  BY <1>5 DEF r

(* Every level of the way leaves x between the items of its child.         *)
Passed(lt, w, x) == \A k \in 1 .. Len(w.path) : Between(lt, w.nodes[k].items, w.path[k] + 1, x)

Lower(h, w) == h - Len(w.path)

Ranked(lt, n, h, w, x) ==
  /\ x \in Within(n, h) <=> x \in Within(Here(w), Lower(h, w))
  /\ Rank(lt, Within(n, h), x) = w.before + Rank(lt, Within(Here(w), Lower(h, w)), x)

Steps(d, lt, n, h, w) ==
  /\ w = [nodes |-> w.nodes, path |-> w.path, before |-> w.before]
  /\ Listed(w.nodes) /\ Listed(w.path) /\ Len(w.nodes) = Len(w.path) + 1 /\ Len(w.path) <= h
  /\ w.nodes[1] = n
  /\ \A k \in 1 .. Len(w.nodes) :
       Tree(d, lt, w.nodes[k], (h + 1) - k) /\ (k # 1 => Len(w.nodes[k].items) >= d)
  /\ \A k \in 1 .. Len(w.path) :
       /\ w.path[k] \in 0 .. Len(w.nodes[k].items)
       /\ w.nodes[k + 1] = w.nodes[k].children[w.path[k] + 1]

Counts(lt, n, h, w) ==
  /\ w.before \in Nat
  /\ \A x \in Within(Here(w), Lower(h, w)) :
       /\ Passed(lt, w, x)
       /\ \A k \in 1 .. Len(w.nodes) : x \in Within(w.nodes[k], (h + 1) - k)
  /\ \A x \in Values : Passed(lt, w, x) => Ranked(lt, n, h, w, x)

(***************************************************************************)
(* A way down from the root n of a tree of h levels.                       *)
(***************************************************************************)
Way(d, lt, n, h, w) == Root(d, lt, n, h) /\ Steps(d, lt, n, h, w) /\ Counts(lt, n, h, w)

LEMMA WayStart ==
  ASSUME NEW d, NEW lt, NEW n, NEW h, Root(d, lt, n, h)
  PROVE  Way(d, lt, n, h, Start(n)) /\ \A x : Passed(lt, Start(n), x)
<1> DEFINE w == Start(n)
           none == <<>>
           one == <<n>>
<1>1. Listed(none) /\ Len(none) = 0
  BY ListedNone
<1>2. Listed(one) /\ Len(one) = 1 /\ one[1] = n
  BY ListedOne
<1>3. w = [nodes |-> one, path |-> none, before |-> 0]
  BY DEF Start
<1> HIDE DEF none, one, w
<1>4. w.nodes = one /\ w.path = none /\ w.before = 0 /\ Here(w) = n
  BY <1>2, <1>3 DEF Here, Last
<1>5. h \in Nat /\ Tree(d, lt, n, h)
  BY DEF Root
<1>6. \A x : Passed(lt, w, x)
  BY <1>1, <1>4 DEF Passed
<1>7. Steps(d, lt, n, h, w)
  <2>1. \A k \in 1 .. 1 : k = 1 /\ (h + 1) - k = h
    BY <1>5
  <2>2. w = [nodes |-> w.nodes, path |-> w.path, before |-> w.before]
    BY <1>3, <1>4
  <2>3. Listed(w.nodes) /\ Listed(w.path) /\ Len(w.nodes) = 1 /\ Len(w.path) = 0 /\ w.nodes[1] = n
    BY <1>1, <1>2, <1>4
  <2>4. \A k \in 1 .. Len(w.nodes) : Tree(d, lt, w.nodes[k], (h + 1) - k) /\ k = 1
    BY <1>5, <2>1, <2>3
  <2>5. Len(w.nodes) = Len(w.path) + 1 /\ Len(w.path) <= h /\ \A k \in 1 .. Len(w.path) : FALSE
    BY <1>5, <2>3
  <2> QED  BY <2>2, <2>3, <2>4, <2>5, Zenon DEF Steps
<1>8. Counts(lt, n, h, w)
  <2>1. Lower(h, w) = h
    BY <1>1, <1>4, <1>5 DEF Lower
  <2>2. \A x \in Within(n, h) : \A k \in 1 .. 1 : x \in Within(one[k], (h + 1) - k)
    <3>1. \A k \in 1 .. 1 : k = 1 /\ (h + 1) - k = h
      BY <1>5
    <3> QED  BY <1>2, <3>1
  <2>3. ASSUME NEW x \in Values PROVE Ranked(lt, n, h, w, x)
    <3>1. Rank(lt, Within(n, h), x) \in Nat
      <4>1. IsFiniteSet(Within(n, h))
        BY <1>5, TreeCounted DEF Counted
      <4>2. Lessers(lt, Within(n, h), x) \subseteq Within(n, h)
        BY DEF Lessers
      <4> QED  BY <4>1, <4>2, FS_Subset, FS_CardinalityType DEF Rank
    <3> QED  BY <1>4, <2>1, <3>1 DEF Ranked
  <2>4. w.before \in Nat /\ Len(w.nodes) = 1
    BY <1>2, <1>4
  <2>5. \A x \in Within(Here(w), Lower(h, w)) : \A k \in 1 .. Len(w.nodes) : x \in Within(w.nodes[k], (h + 1) - k)
    BY <1>4, <2>1, <2>2, <2>4
  <2> QED  BY <1>6, <2>3, <2>4, <2>5, Zenon DEF Counts
<1> QED  BY <1>6, <1>7, <1>8 DEF Way, w

(* The node at the end of a way.                                           *)
AtEnd(d, lt, h, w) ==
  /\ h \in Nat /\ Len(w.path) \in Nat /\ Lower(h, w) \in Nat
  /\ Len(w.nodes) \in 1 .. Len(w.nodes) /\ Len(w.nodes) = Len(w.path) + 1
  /\ Here(w) = w.nodes[Len(w.nodes)] /\ (h + 1) - Len(w.nodes) = Lower(h, w)
  /\ Tree(d, lt, Here(w), Lower(h, w)) /\ Root(d, lt, Here(w), Lower(h, w))
  /\ Len(w.nodes) # 1 => Len(Here(w).items) >= d

LEMMA WayHere ==
  ASSUME NEW d \in Nat, d >= 1, NEW lt, NEW n, NEW h, NEW w, Root(d, lt, n, h), Steps(d, lt, n, h, w)
  PROVE  AtEnd(d, lt, h, w)
<1>1. h \in Nat /\ (h # 0 => Len(n.items) >= 1)
  BY DEF Root
<1>2. /\ Len(w.nodes) = Len(w.path) + 1 /\ Len(w.path) <= h
      /\ Listed(w.nodes) /\ Listed(w.path) /\ w.nodes[1] = n
      /\ \A k \in 1 .. Len(w.nodes) :
           Tree(d, lt, w.nodes[k], (h + 1) - k) /\ (k # 1 => Len(w.nodes[k].items) >= d)
  BY DEF Steps
<1>3. Len(w.path) \in Nat /\ Len(w.nodes) \in 1 .. Len(w.nodes)
  BY <1>2 DEF Listed
<1>4. Lower(h, w) \in Nat /\ (h + 1) - Len(w.nodes) = Lower(h, w)
  BY <1>1, <1>2, <1>3 DEF Lower
<1>5. Here(w) = w.nodes[Len(w.nodes)]
  BY DEF Here, Last
<1>6. Tree(d, lt, Here(w), Lower(h, w)) /\ (Len(w.nodes) # 1 => Len(Here(w).items) >= d)
  BY <1>2, <1>3, <1>4, <1>5
<1>7. Lower(h, w) # 0 => Len(Here(w).items) >= 1
  <2>1. CASE Len(w.nodes) = 1
    <3>1. Here(w) = n /\ (Lower(h, w) # 0 => h # 0)
      BY <1>1, <1>2, <1>3, <1>5, <2>1 DEF Lower
    <3> QED  BY <1>1, <3>1
  <2>2. CASE Len(w.nodes) # 1
    <3>1. Len(Here(w).items) \in Nat
      BY <1>4, <1>6, TreeFacts
    <3> QED  BY <1>6, <2>2, <3>1
  <2> QED  BY <2>1, <2>2
<1> QED  BY <1>1, <1>2, <1>3, <1>4, <1>5, <1>6, <1>7 DEF Root, AtEnd

(* z is the way w and a step to its child p.                               *)
Stepped(w, p, z) ==
  /\ More(w.nodes, Here(w).children[p + 1], z.nodes) /\ More(w.path, p, z.path)
  /\ z.before = w.before + Before(Here(w), p) /\ Here(z) = Here(w).children[p + 1]
  /\ z = [nodes |-> z.nodes, path |-> z.path, before |-> z.before]

LEMMA DownIs ==
  ASSUME NEW w, Listed(w.nodes), Listed(w.path), NEW p, NEW z, z = Down(w, p)
  PROVE  Stepped(w, p, z)
<1> DEFINE c == Here(w).children[p + 1]
           nodes == Append(w.nodes, c)
           path == Append(w.path, p)
           before == w.before + Before(Here(w), p)
<1>1. z = [nodes |-> nodes, path |-> path, before |-> before]
  BY DEF Down, Child
<1>2. More(w.nodes, c, nodes) /\ Last(nodes) = c
  BY MoreIs
<1>3. More(w.path, p, path)
  BY MoreIs
<1> HIDE DEF nodes, path, before, c
<1>4. z.nodes = nodes /\ z.path = path /\ z.before = before
  BY <1>1
<1>5. Here(z) = c
  BY <1>2, <1>4 DEF Here
<1> QED  BY <1>1, <1>2, <1>3, <1>4, <1>5 DEF c, before, Stepped

LEMMA StepsDown ==
  ASSUME NEW d \in Nat, d >= 1, NEW lt, NEW n, NEW h, NEW w, Root(d, lt, n, h), Steps(d, lt, n, h, w),
         Lower(h, w) # 0, NEW p \in 0 .. Len(Here(w).items), NEW z, z = Down(w, p)
  PROVE  /\ Steps(d, lt, n, h, z) /\ Lower(h, z) = Lower(h, w) - 1
         /\ \A x : Passed(lt, z, x) <=> Passed(lt, w, x) /\ Between(lt, Here(w).items, p + 1, x)
<1> DEFINE c == Here(w).children[p + 1]
<1>1. /\ w = [nodes |-> w.nodes, path |-> w.path, before |-> w.before]
      /\ Listed(w.nodes) /\ Listed(w.path) /\ Len(w.nodes) = Len(w.path) + 1 /\ Len(w.path) <= h
      /\ w.nodes[1] = n
      /\ \A k \in 1 .. Len(w.nodes) :
           Tree(d, lt, w.nodes[k], (h + 1) - k) /\ (k # 1 => Len(w.nodes[k].items) >= d)
      /\ \A k \in 1 .. Len(w.path) :
           /\ w.path[k] \in 0 .. Len(w.nodes[k].items)
           /\ w.nodes[k + 1] = w.nodes[k].children[w.path[k] + 1]
  BY DEF Steps
<1>2. /\ h \in Nat /\ Len(w.path) \in Nat /\ Lower(h, w) \in Nat
      /\ Here(w) = w.nodes[Len(w.nodes)] /\ (h + 1) - Len(w.nodes) = Lower(h, w)
      /\ Tree(d, lt, Here(w), Lower(h, w))
  <2>1. AtEnd(d, lt, h, w)
    BY WayHere
  <2> QED  BY <2>1, Zenon DEF AtEnd
<1>3. /\ Listed(z.nodes) /\ Len(z.nodes) = Len(w.nodes) + 1
      /\ \A i \in 1 .. Len(w.nodes) : z.nodes[i] = w.nodes[i]
      /\ z.nodes[Len(w.nodes) + 1] = c
      /\ Listed(z.path) /\ Len(z.path) = Len(w.path) + 1
      /\ \A i \in 1 .. Len(w.path) : z.path[i] = w.path[i]
      /\ z.path[Len(w.path) + 1] = p
      /\ z = [nodes |-> z.nodes, path |-> z.path, before |-> z.before]
  <2>1. Stepped(w, p, z)
    BY <1>1, DownIs
  <2> QED  BY <2>1, Zenon DEF Stepped, More
<1>4. Len(Here(w).children) = NbKids(Here(w).items, Lower(h, w)) /\ Len(Here(w).items) \in Nat
  BY <1>2, TreeFacts
<1>5. p + 1 \in 1 .. Len(Here(w).children)
  BY <1>4 DEF NbKids
<1>6. Tree(d, lt, c, Lower(h, w) - 1) /\ Len(c.items) >= d
  <2> DEFINE m == Here(w)
             l == Lower(h, w)
             q == p + 1
             g == l - 1
  <2>1. /\ l \in Nat /\ Tree(d, lt, m, l) /\ q \in 1 .. Len(m.children) /\ g = l - 1
        /\ c = m.children[q]
    BY <1>2, <1>5
  <2> HIDE DEF m, l, q, g, c
  <2>2. Tree(d, lt, m.children[q], g) /\ Len(m.children[q].items) >= d
    BY <2>1, ChildTree, Zenon
  <2> QED  BY <2>1, <2>2, Zenon DEF l, g
<1>7. Lower(h, z) = Lower(h, w) - 1 /\ Len(z.path) <= h
  BY <1>2, <1>3 DEF Lower
<1> HIDE DEF c
<1> DEFINE N == Len(w.path)
<1>8. N \in Nat /\ Len(w.nodes) = N + 1 /\ Len(z.nodes) = N + 2 /\ Len(z.path) = N + 1
  BY <1>1, <1>2, <1>3
<1> HIDE DEF N
<1>9. ASSUME NEW k \in 1 .. Len(z.nodes)
      PROVE  Tree(d, lt, z.nodes[k], (h + 1) - k) /\ (k # 1 => Len(z.nodes[k].items) >= d)
  <2>1. CASE k \in 1 .. Len(w.nodes)
    BY <1>1, <1>3, <2>1
  <2>2. CASE k = Len(w.nodes) + 1
    <3>1. z.nodes[k] = c /\ (h + 1) - k = Lower(h, w) - 1
      BY <1>2, <1>3, <1>8, <2>2
    <3> QED  BY <1>6, <3>1
  <2> QED  BY <1>8, <2>1, <2>2
<1>a. ASSUME NEW k \in 1 .. Len(z.path)
      PROVE  /\ z.path[k] \in 0 .. Len(z.nodes[k].items)
             /\ z.nodes[k + 1] = z.nodes[k].children[z.path[k] + 1]
  <2>1. CASE k \in 1 .. Len(w.path)
    <3>1. k \in 1 .. Len(w.nodes) /\ k + 1 \in 1 .. Len(w.nodes)
      BY <1>1, <1>2, <2>1, SMTT(30)
    <3>2. z.path[k] = w.path[k] /\ z.nodes[k] = w.nodes[k] /\ z.nodes[k + 1] = w.nodes[k + 1]
      BY <1>3, <2>1, <3>1, Zenon
    <3> QED  BY <1>1, <2>1, <3>2
  <2>2. CASE k = Len(w.path) + 1
    <3>1. k = Len(w.nodes) /\ k \in 1 .. Len(w.nodes) /\ k + 1 = Len(w.nodes) + 1
      BY <1>1, <1>8, <2>2
    <3>2. z.path[k] = p /\ z.nodes[k] = Here(w) /\ z.nodes[k + 1] = c
      BY <1>2, <1>3, <2>2, <3>1
    <3> QED  BY <3>2 DEF c
  <2> QED  BY <1>3, <1>2, <2>1, <2>2, SMTT(30)
<1>b. Steps(d, lt, n, h, z)
  <2>1. z.nodes[1] = n
    BY <1>1, <1>3, <1>8
  <2>2. Len(z.nodes) = Len(z.path) + 1
    BY <1>8
  <2> QED  BY <1>3, <1>7, <1>9, <1>a, <2>1, <2>2, Zenon DEF Steps
<1>c. ASSUME NEW x
      PROVE  Passed(lt, z, x) <=> Passed(lt, w, x) /\ Between(lt, Here(w).items, p + 1, x)
  <2>1. ASSUME NEW k \in 1 .. Len(w.path)
        PROVE  k \in 1 .. Len(z.path) /\ z.path[k] = w.path[k] /\ z.nodes[k] = w.nodes[k]
    <3>1. k \in 1 .. Len(w.nodes) /\ k \in 1 .. Len(z.path)
      BY <1>8, <2>1, <1>1
    <3> QED  BY <1>3, <2>1, <3>1
  <2>2. /\ Len(z.path) \in 1 .. Len(z.path) /\ z.path[Len(z.path)] = p /\ z.nodes[Len(z.path)] = Here(w)
    <3>1. Len(z.path) = Len(w.nodes) /\ Len(w.nodes) \in 1 .. Len(w.nodes) /\ Len(z.path) \in 1 .. Len(z.path)
      BY <1>8
    <3>2. z.nodes[Len(z.path)] = Here(w)
      BY <1>2, <1>3, <3>1
    <3>3. z.path[Len(z.path)] = p
      BY <1>3
    <3> QED  BY <3>1, <3>2, <3>3
  <2>3. \A k \in 1 .. Len(z.path) : k \in 1 .. Len(w.path) \/ k = Len(z.path)
    <3>1. Len(z.path) = Len(w.path) + 1 /\ Len(w.path) \in Nat
      BY <1>2, <1>3
    <3> QED  BY <3>1
  <2> QED  BY <2>1, <2>2, <2>3, Zenon DEF Passed
<1> QED  BY <1>7, <1>b, <1>c

LEMMA WayDown ==
  ASSUME NEW d \in Nat, d >= 1, NEW lt, NEW n, NEW h, NEW w, Way(d, lt, n, h, w),
         Lower(h, w) # 0, NEW p \in 0 .. Len(Here(w).items), NEW z, z = Down(w, p)
  PROVE  Way(d, lt, n, h, z)
<1>0. Root(d, lt, n, h) /\ Steps(d, lt, n, h, w) /\ Counts(lt, n, h, w) /\ h \in Nat
  BY DEF Way, Root
<1> DEFINE c == Here(w).children[p + 1]
           l == Lower(h, w)
           g == l - 1
<1>1. /\ Steps(d, lt, n, h, z) /\ Lower(h, z) = g
      /\ \A x : Passed(lt, z, x) <=> Passed(lt, w, x) /\ Between(lt, Here(w).items, p + 1, x)
  BY <1>0, StepsDown
<1>2. /\ l \in Nat /\ Tree(d, lt, Here(w), l) /\ Here(w) = w.nodes[Len(w.nodes)]
      /\ Len(w.nodes) \in 1 .. Len(w.nodes) /\ (h + 1) - Len(w.nodes) = l /\ Len(w.nodes) \in Nat
  <2>1. AtEnd(d, lt, h, w)
    BY <1>0, WayHere
  <2>2. Len(w.nodes) \in Nat
    BY <1>0 DEF Steps, Listed
  <2> QED  BY <2>1, <2>2, Zenon DEF AtEnd
<1>3. Listed(w.nodes) /\ Listed(w.path)
  BY <1>0 DEF Steps
<1>4. /\ Here(z) = c /\ z.before = w.before + Before(Here(w), p)
      /\ More(w.nodes, c, z.nodes)
  <2>1. Stepped(w, p, z)
    BY <1>3, DownIs
  <2> QED  BY <2>1, Zenon DEF Stepped
<1>5. Len(Here(w).children) = NbKids(Here(w).items, l) /\ Len(Here(w).items) \in Nat
  BY <1>2, TreeFacts
<1>6. p + 1 \in 1 .. Len(Here(w).children)
  BY <1>5 DEF NbKids
<1>7. /\ g \in Nat /\ l # 0 /\ Tree(d, lt, c, g)
      /\ Within(c, g) \subseteq Within(Here(w), l)
      /\ \A x \in Within(c, g) : Between(lt, Here(w).items, p + 1, x)
  BY <1>2, <1>6, ChildTree
<1>8. /\ w.before \in Nat
      /\ \A x \in Within(Here(w), l) :
           Passed(lt, w, x) /\ \A k \in 1 .. Len(w.nodes) : x \in Within(w.nodes[k], (h + 1) - k)
      /\ \A x \in Values : Passed(lt, w, x) => Ranked(lt, n, h, w, x)
  BY <1>0 DEF Counts
<1>9. Before(Here(w), p) \in Nat
  <2>1. Before(Here(w), p) = p + Sum(Here(w).children, p)
    BY <1>2, <1>7, BeforeIs
  <2>2. Sized(Here(w).children)
    <3>1. Row(d, lt, Here(w).items, Here(w).children, l)
      BY <1>2, TreeUnfold
    <3> QED  BY <3>1, RowSized
  <2>3. p \in 0 .. Len(Here(w).children) /\ p \in Nat
    BY <1>5, <1>6
  <2>4. Sum(Here(w).children, p) \in Nat
    BY <2>2, <2>3, SumNat
  <2> QED  BY <2>1, <2>3, <2>4
<1> HIDE DEF c, g, l
<1>a. ASSUME NEW x \in Within(c, g)
      PROVE  Passed(lt, z, x) /\ \A k \in 1 .. Len(z.nodes) : x \in Within(z.nodes[k], (h + 1) - k)
  <2>1. x \in Within(Here(w), l) /\ Between(lt, Here(w).items, p + 1, x)
    BY <1>7
  <2>2. Passed(lt, z, x)
    BY <1>1, <1>8, <2>1, Zenon
  <2>3. ASSUME NEW k \in 1 .. Len(z.nodes) PROVE x \in Within(z.nodes[k], (h + 1) - k)
    <3>1. Len(z.nodes) = Len(w.nodes) + 1
      BY <1>4 DEF More
    <3>2. CASE k \in 1 .. Len(w.nodes)
      <4>1. z.nodes[k] = w.nodes[k]
        BY <1>4, <3>2 DEF More
      <4> QED  BY <1>8, <2>1, <3>2, <4>1
    <3>3. CASE k = Len(w.nodes) + 1
      <4>1. z.nodes[k] = c
        BY <1>4, <3>3 DEF More
      <4>2. (h + 1) - k = g
        BY <1>0, <1>2, <3>3 DEF g
      <4> QED  BY <4>1, <4>2
    <3> QED  BY <1>2, <3>1, <3>2, <3>3
  <2> QED  BY <2>2, <2>3
<1>b. ASSUME NEW x \in Values, Passed(lt, z, x) PROVE Ranked(lt, n, h, z, x)
  <2>1. Passed(lt, w, x) /\ Between(lt, Here(w).items, p + 1, x)
    BY <1>1, <1>b
  <2>2. Ranked(lt, n, h, w, x)
    BY <1>8, <2>1
  <2> DEFINE R == Rank(lt, Within(Here(w), l), x)
             r == Rank(lt, Within(c, g), x)
             b == Before(Here(w), p)
  <2>3. R = b + r
    <3>1. Tree(d, lt, Here(w), l) /\ g = l - 1 /\ l # 0
      BY <1>2, <1>7 DEF g
    <3>2. R = IF l = 0 THEN b ELSE b + Rank(lt, Within(Here(w).children[p + 1], g), x)
      BY <1>2, <2>1, <3>1, RankGap
    <3> QED  BY <3>1, <3>2 DEF c
  <2>4. r \in Nat
    <3>1. IsFiniteSet(Within(c, g))
      BY <1>7, TreeCounted DEF Counted
    <3>2. Lessers(lt, Within(c, g), x) \subseteq Within(c, g)
      BY DEF Lessers
    <3> QED  BY <3>1, <3>2, FS_Subset, FS_CardinalityType DEF Rank
  <2>5. x \in Within(Here(w), l) <=> x \in Within(c, g)
    <3>1. ASSUME x \in Within(Here(w), l) PROVE x \in Within(c, g)
      <4> DEFINE I == Here(w).items
                 C == Here(w).children
      <4>1. Within(Here(w), l) = Held(I, C, l) /\ Arranged(lt, I, C, l)
        BY <1>2, TreeUnfold DEF Row
      <4>2. Listed(I) /\ Separated(lt, I, C, g) /\ \A i \in 1 .. Len(I) : I[i] \in Values
        BY <4>1 DEF Arranged, g
      <4>3. ASSUME NEW i \in 1 .. Len(I), x = I[i] PROVE FALSE
        <5>1. Lesser(lt, x, I[i]) \/ Lesser(lt, I[i], x)
          BY <2>1 DEF Between
        <5> QED  BY <4>3, <5>1, LesserOrder
      <4>4. ASSUME NEW e \in 1 .. Len(C), x \in Within(C[e], g) PROVE e = p + 1
        <5>1. Between(lt, I, e, x)
          BY <4>2, <4>4 DEF Separated
        <5>2. ASSUME e < p + 1 PROVE FALSE
          <6>1. e \in 1 .. Len(I) /\ e <= e /\ ~ (p + 1 <= e)
            BY <1>5, <5>2
          <6>2. Lesser(lt, x, I[e]) /\ Lesser(lt, I[e], x)
            BY <2>1, <5>1, <6>1 DEF Between
          <6> QED  BY <4>2, <6>1, <6>2, LesserOrder
        <5>3. ASSUME e > p + 1 PROVE FALSE
          <6>1. Len(C) = Len(I) + 1
            BY <1>5, <1>7 DEF NbKids
          <6>2. p + 1 \in 1 .. Len(I) /\ ~ (e <= p + 1)
            BY <1>5, <5>3, <6>1
          <6>3. Lesser(lt, x, I[p + 1]) /\ Lesser(lt, I[p + 1], x)
            BY <2>1, <5>1, <6>2 DEF Between
          <6> QED  BY <4>2, <6>2, <6>3, LesserOrder
        <5> QED  BY <5>2, <5>3
      <4>5. \/ \E i \in 1 .. Len(I) : x = I[i]
            \/ \E e \in 1 .. Len(C) : x \in Within(C[e], l - 1)
        BY <3>1, <4>1, <4>2, HeldHas
      <4> QED  BY <4>3, <4>4, <4>5 DEF c, g
    <3> QED  BY <1>7, <3>1
  <2>6. /\ x \in Within(n, h) <=> x \in Within(Here(w), l)
        /\ Rank(lt, Within(n, h), x) = w.before + R
    BY <2>2 DEF Ranked, l
  <2>7. Rank(lt, Within(n, h), x) = (w.before + b) + r
    <3> HIDE DEF R, r, b
    <3>1. b \in Nat
      BY <1>9 DEF b
    <3> QED  BY <1>8, <2>3, <2>4, <2>6, <3>1
  <2> QED  BY <1>1, <1>4, <2>5, <2>6, <2>7 DEF Ranked
<1>c. z.before \in Nat
  BY <1>4, <1>8, <1>9
<1>d. Counts(lt, n, h, z)
  BY <1>1, <1>4, <1>a, <1>b, <1>c, Zenon DEF Counts
<1> QED  BY <1>0, <1>1, <1>d DEF Way

-----------------------------------------------------------------------------
(* Lookups.                                                                *)

(* The numbers of elements before two successive positions.                *)
Successive(n, h, p, q) ==
  /\ Before(n, p) \in Nat /\ Before(n, q) \in Nat
  /\ h = 0 => Before(n, p) = p /\ Before(n, q) = Before(n, p) + 1
  /\ h # 0 => /\ n.children[q].size \in Nat
              /\ Before(n, q) = Before(n, p) + n.children[q].size + 1

LEMMA BeforeNext ==
  ASSUME NEW d, NEW lt, NEW n, NEW h \in Nat, Tree(d, lt, n, h), NEW p \in 0 .. Len(n.items),
         NEW q, q = p + 1
  PROVE  Successive(n, h, p, q)
<1> DEFINE C == n.children
<1>1. /\ Listed(C) /\ Len(C) = NbKids(n.items, h) /\ Len(n.items) \in Nat /\ Len(C) \in Nat
      /\ n.size \in Nat /\ n.size = Len(n.items) + SizeOf(C)
  BY TreeFacts DEF Listed
<1>2. Sized(C)
  <2>1. Row(d, lt, n.items, C, h)
    BY TreeUnfold
  <2> QED  BY <2>1, RowSized
<1>3. Before(n, p) = p + Sum(C, IF h = 0 THEN 0 ELSE p) /\ p \in Nat
  BY <1>1, BeforeIs
<1>4. SizeOf(C) = Sum(C, Len(C)) /\ Sum(C, 0) = 0 /\ \A k \in 0 .. Len(C) : Sum(C, k) \in Nat
  BY <1>1, <1>2, SumFacts, SumNat
<1>5. Before(n, q) = q + Sum(C, IF h = 0 THEN 0 ELSE q)
  <2>1. CASE q \in 0 .. Len(n.items)
    BY <2>1, BeforeIs
  <2>2. CASE q = Len(n.items) + 1
    <3>1. Before(n, q) = n.size + 1
      BY <2>2, BeforeEnd
    <3>2. Len(C) = IF h = 0 THEN 0 ELSE q
      BY <1>1, <2>2 DEF NbKids
    <3>3. SizeOf(C) \in Nat
      <4>1. Len(C) \in 0 .. Len(C)
        BY <1>1
      <4> QED  BY <1>4, <4>1
    <3>4. Before(n, q) = q + SizeOf(C)
      BY <1>1, <2>2, <3>1, <3>3
    <3> QED  BY <1>4, <3>2, <3>4
  <2> QED  BY <1>1, <2>1, <2>2
<1>6. CASE h = 0
  <2>1. Before(n, p) = p /\ Before(n, q) = q
    BY <1>3, <1>4, <1>5, <1>6
  <2> QED  BY <1>3, <1>6, <2>1 DEF Successive
<1>7. CASE h # 0
  <2>1. p \in 0 .. Len(C) - 1 /\ p \in 0 .. Len(C) /\ q \in 0 .. Len(C) /\ q \in 1 .. Len(C)
    BY <1>1, <1>7 DEF NbKids
  <2>2. Sum(C, p + 1) = Sum(C, p) + C[p + 1].size /\ C[q].size \in Nat
    BY <1>1, <1>2, <2>1, SumStep DEF Sized
  <2>3. Before(n, p) = p + Sum(C, p) /\ Before(n, q) = q + Sum(C, q) /\ Sum(C, p) \in Nat /\ Sum(C, q) \in Nat
    BY <1>3, <1>4, <1>5, <1>7, <2>1
  <2>4. Sum(C, q) = Sum(C, p) + C[q].size
    BY <2>2
  <2>5. C[q].size \in Nat /\ Before(n, q) = Before(n, p) + C[q].size + 1 /\ Before(n, p) \in Nat /\ Before(n, q) \in Nat
    <3> DEFINE a == Sum(C, p)
               b == Sum(C, q)
               s == C[q].size
               e == Before(n, p)
               f == Before(n, q)
    <3>1. /\ p \in Nat /\ a \in Nat /\ b \in Nat /\ s \in Nat
          /\ e = p + a /\ f = q + b /\ b = a + s
      BY <1>3, <2>2, <2>3, <2>4
    <3> HIDE DEF a, b, s, e, f
    <3>2. s \in Nat /\ f = e + s + 1 /\ e \in Nat /\ f \in Nat
      BY <3>1
    <3> QED  BY <3>2 DEF s, e, f
  <2> QED  BY <1>7, <2>5 DEF Successive
<1> QED  BY <1>6, <1>7

(* Where the index j of a tree of h levels is.                             *)
Indexed(lt, n, h, j, p) ==
  /\ p.at \in 0 .. Len(n.items)
  /\ \/ /\ p.exists = TRUE /\ p.at < Len(n.items)
        /\ Rank(lt, Within(n, h), n.items[p.at + 1]) = j
     \/ /\ p.exists = FALSE /\ h # 0
        /\ Before(n, p.at) \in Nat /\ Before(n, p.at) <= j
        /\ j < Before(n, p.at) + n.children[p.at + 1].size

LEMMA IndexFinds ==
  ASSUME NEW d, NEW lt, NEW n, NEW h \in Nat, Tree(d, lt, n, h), HasChildren(n) <=> h # 0,
         NEW j \in Nat, j < n.size
  PROVE  Indexed(lt, n, h, j, IndexPosition(n, j))
<1> DEFINE L == Len(n.items)
           Is(i) == j < Before(n, i + 1) /\ \A q \in 0 .. i - 1 : Before(n, q + 1) <= j
           at == CHOOSE i \in 0 .. L : Is(i)
           p == IndexPosition(n, j)
<1>1. L \in Nat /\ n.size \in Nat
  BY TreeFacts
<1>2. ASSUME NEW i \in 0 .. L PROVE Successive(n, h, i, i + 1)
  BY BeforeNext
<1>3. Before(n, L + 1) = n.size + 1 /\ Before(n, 0) = 0
  <2>1. Before(n, L + 1) = n.size + 1
    BY BeforeEnd
  <2>2. 0 \in 0 .. L /\ Listed(n.children)
    BY <1>1, TreeFacts
  <2>3. Before(n, 0) = 0 + Sum(n.children, IF h = 0 THEN 0 ELSE 0)
    BY <2>2, BeforeIs
  <2>4. Sum(n.children, 0) = 0
    BY <2>2, SumFacts
  <2> QED  BY <2>1, <2>3, <2>4
<1>4. \E i \in 0 .. L : Is(i)
  <2> DEFINE Q == {i \in 0 .. L : j < Before(n, i + 1)}
  <2>1. L \in Q
    BY <1>1, <1>3
  <2>2. PICK i \in Q : \A k \in Q : i <= k
    <3>1. Q \in SUBSET Nat
      BY <1>1
    <3> HIDE DEF Q
    <3> QED  BY <2>1, <3>1, LeastNumber
  <2>3. ASSUME NEW q \in 0 .. i - 1 PROVE Before(n, q + 1) <= j
    <3>1. q \in 0 .. L /\ ~ (i <= q)
      BY <1>1, <2>2
    <3>2. ~ (j < Before(n, q + 1)) /\ Before(n, q + 1) \in Nat
      BY <1>2, <2>2, <3>1 DEF Successive
    <3> QED  BY <3>2
  <2> QED  BY <2>2, <2>3
<1>5. at \in 0 .. L /\ Is(at)
  <2> HIDE DEF Is
  <2> QED  BY <1>4, Zenon
<1>6. p = [at |-> at, exists |-> ~ HasChildren(n) \/ j >= Before(n, at) + n.children[at + 1].size]
  BY Zenon DEF IndexPosition, NbItems, Child
<1> HIDE DEF at, p, L
<1>7. p.at = at /\ (p.exists = (~ HasChildren(n) \/ j >= Before(n, at) + n.children[at + 1].size))
  BY <1>6, Zenon
<1>8. Successive(n, h, at, at + 1) /\ j < Before(n, at + 1)
  BY <1>2, <1>5
<1>9. Before(n, at) \in Nat /\ Before(n, at) <= j
  <2>1. CASE at = 0
    BY <1>3, <2>1
  <2>2. CASE at # 0
    <3>1. at - 1 \in 0 .. at - 1 /\ (at - 1) + 1 = at
      BY <1>1, <1>5, <2>2
    <3>2. Before(n, (at - 1) + 1) <= j
      BY <1>5, <3>1
    <3> QED  BY <1>8, <3>1, <3>2 DEF Successive
  <2> QED  BY <2>1, <2>2
<1>a. at = L => Before(n, at + 1) = n.size + 1
  BY <1>3
<1>b. ASSUME at < L PROVE Rank(lt, Within(n, h), n.items[at + 1]) =
                            IF h = 0 THEN at ELSE Before(n, at) + n.children[at + 1].size
  <2>1. at \in 0 .. L - 1
    BY <1>1, <1>5, <1>b
  <2> QED  BY <2>1, RankItem DEF L
<1> SUFFICES Indexed(lt, n, h, j, p)
  BY DEF p
<1>c. p.at \in 0 .. Len(n.items)
  BY <1>5, <1>7 DEF L
<1>d. CASE h = 0
  <2>1. p.exists = TRUE
    BY <1>7, <1>d, Zenon
  <2>2. Before(n, at) = at /\ Before(n, at + 1) = at + 1
    BY <1>8, <1>d DEF Successive
  <2>3. at < L /\ at = j
    BY <1>1, <1>5, <1>8, <1>9, <1>a, <2>2
  <2>4. Rank(lt, Within(n, h), n.items[p.at + 1]) = j /\ p.at < Len(n.items)
    BY <1>7, <1>b, <1>d, <2>3 DEF L
  <2> QED  BY <1>c, <2>1, <2>4, Zenon DEF Indexed
<1>e. CASE h # 0 /\ j >= Before(n, at) + n.children[at + 1].size
  <2>1. p.exists = TRUE
    BY <1>7, <1>e, Zenon
  <2>2. Before(n, at + 1) = Before(n, at) + n.children[at + 1].size + 1 /\ n.children[at + 1].size \in Nat
    BY <1>8, <1>e DEF Successive
  <2>3. at < L /\ j = Before(n, at) + n.children[at + 1].size
    BY <1>1, <1>5, <1>8, <1>9, <1>a, <1>e, <2>2
  <2>4. Rank(lt, Within(n, h), n.items[p.at + 1]) = j /\ p.at < Len(n.items)
    BY <1>7, <1>b, <1>e, <2>3 DEF L
  <2> QED  BY <1>c, <2>1, <2>4, Zenon DEF Indexed
<1>f. CASE h # 0 /\ ~ (j >= Before(n, at) + n.children[at + 1].size)
  <2>1. p.exists = FALSE
    BY <1>7, <1>f, Zenon
  <2>2. n.children[at + 1].size \in Nat
    BY <1>8, <1>f DEF Successive
  <2>3. j < Before(n, at) + n.children[at + 1].size
    BY <1>9, <1>f, <2>2
  <2>4. Before(n, p.at) \in Nat /\ Before(n, p.at) <= j /\ j < Before(n, p.at) + n.children[p.at + 1].size
    BY <1>7, <1>9, <2>3
  <2> QED  BY <1>c, <1>f, <2>1, <2>4, Zenon DEF Indexed
<1> QED  BY <1>d, <1>e, <1>f

(* z goes on from where w ends.                                            *)
Extends(w, z) ==
  /\ Len(w.path) <= Len(z.path)
  /\ \A k \in 1 .. Len(w.nodes) : z.nodes[k] = w.nodes[k]
  /\ \A k \in 1 .. Len(w.path) : z.path[k] = w.path[k]

(* What a way z that started as w keeps on the way to a goal.              *)
Reaches(lt, z, v) == v \in Values /\ Passed(lt, z, v)

Counting(z, j) == j \in Nat /\ z.before <= j /\ j < z.before + Here(z).size

Leftmost(w, z) == \A k \in Len(w.nodes) .. Len(z.path) : z.path[k] = 0

Rightmost(w, z) == \A k \in Len(w.nodes) .. Len(z.path) : z.path[k] = Len(z.nodes[k].items)

Aimed(lt, w, z, goal) ==
  \/ \E v : goal = ToValue(lt, v) /\ Reaches(lt, z, v)
  \/ \E j : goal = ToIndex(j) /\ Counting(z, j)
  \/ goal = ToFirst /\ Leftmost(w, z)
  \/ goal = ToLast /\ Rightmost(w, z)

LEMMA GoalFacts ==
  /\ \A lt, v, u : ToValue(lt, v) = ToValue(lt, u) => v = u
  /\ \A j, i : ToIndex(j) = ToIndex(i) => j = i
  /\ \A lt, v, j : ToValue(lt, v) # ToIndex(j) /\ ToValue(lt, v) # ToFirst /\ ToValue(lt, v) # ToLast
  /\ \A j : ToIndex(j) # ToFirst /\ ToIndex(j) # ToLast
  /\ ToFirst # ToLast
<1>1. \A lt, v : ToValue(lt, v).to = "value" /\ ToValue(lt, v).v = v
  BY DEF ToValue
<1>2. \A j : ToIndex(j).to = "index" /\ ToIndex(j).index = j
  BY DEF ToIndex
<1>3. ToFirst.to = "first" /\ ToLast.to = "last"
  BY DEF ToFirst, ToLast
<1>4. "value" # "index" /\ "value" # "first" /\ "value" # "last" /\ "index" # "first" /\ "index" # "last" /\ "first" # "last"
  OBVIOUS
<1>5. ASSUME NEW lt, NEW v, NEW u, ToValue(lt, v) = ToValue(lt, u) PROVE v = u
  <2>1. ToValue(lt, v).v = v /\ ToValue(lt, u).v = u
    BY <1>1, Zenon
  <2> QED  BY <1>5, <2>1, Zenon
<1>6. ASSUME NEW j, NEW i, ToIndex(j) = ToIndex(i) PROVE j = i
  <2>1. ToIndex(j).index = j /\ ToIndex(i).index = i
    BY <1>2, Zenon
  <2> QED  BY <1>6, <2>1, Zenon
<1>7. ASSUME NEW lt, NEW v, NEW j
      PROVE  ToValue(lt, v) # ToIndex(j) /\ ToValue(lt, v) # ToFirst /\ ToValue(lt, v) # ToLast
  <2>1. ToValue(lt, v).to = "value" /\ ToIndex(j).to = "index"
    BY <1>1, <1>2, Zenon
  <2> QED  BY <1>3, <1>4, <2>1, Zenon
<1>8. ASSUME NEW j PROVE ToIndex(j) # ToFirst /\ ToIndex(j) # ToLast
  <2>1. ToIndex(j).to = "index"
    BY <1>2, Zenon
  <2> QED  BY <1>3, <1>4, <2>1, Zenon
<1>9. ToFirst # ToLast
  BY <1>3, <1>4, Zenon
<1> QED  BY <1>5, <1>6, <1>7, <1>8, <1>9, Zenon

LEMMA GoalPosition ==
  ASSUME NEW lt, NEW v, NEW j, NEW n, NEW b
  PROVE  /\ PositionFor(ToValue(lt, v), n, b) = GetPosition(lt, n, v)
         /\ PositionFor(ToIndex(j), n, b) = IndexPosition(n, j - b)
         /\ PositionFor(ToFirst, n, b) = [at |-> 0, exists |-> FALSE]
         /\ PositionFor(ToLast, n, b) = [at |-> Len(n.items), exists |-> FALSE]
<1>1. ToValue(lt, v).to = "value" /\ ToValue(lt, v).v = v /\ ToValue(lt, v).lt = lt
  BY DEF ToValue
<1>2. ToIndex(j).to = "index" /\ ToIndex(j).index = j
  BY DEF ToIndex
<1>3. ToFirst.to = "first" /\ ToLast.to = "last"
  BY DEF ToFirst, ToLast
<1>4. PositionFor(ToValue(lt, v), n, b) = GetPosition(lt, n, v)
  BY <1>1 DEF PositionFor
<1>5. PositionFor(ToIndex(j), n, b) = IndexPosition(n, j - b)
  BY <1>2 DEF PositionFor
<1>6. PositionFor(ToFirst, n, b) = [at |-> 0, exists |-> FALSE]
  BY <1>3 DEF PositionFor
<1>7. PositionFor(ToLast, n, b) = [at |-> Len(n.items), exists |-> FALSE]
  BY <1>3 DEF PositionFor, NbItems
<1> QED  BY <1>4, <1>5, <1>6, <1>7

(* Where a lookup ends.                                                    *)
Stopped(z, goal) == PositionFor(goal, Here(z), z.before).exists \/ ~ HasChildren(Here(z))

LEMMA AimStep ==
  ASSUME NEW d \in Nat, d >= 1, NEW lt, NEW n, NEW h, NEW w, NEW z, Way(d, lt, n, h, z), NEW goal,
         Len(w.nodes) \in Nat, Len(w.nodes) = Len(w.path) + 1,
         Extends(w, z), Aimed(lt, w, z, goal), ~ Stopped(z, goal), NEW p, p = PositionFor(goal, Here(z), z.before)
  PROVE  p.at \in 0 .. Len(Here(z).items) /\ Aimed(lt, w, Down(z, p.at), goal)
<1> DEFINE e == Here(z)
           l == Lower(h, z)
           t == Down(z, p.at)
<1>0. Root(d, lt, n, h) /\ Steps(d, lt, n, h, z)
  BY DEF Way
<1>1. AtEnd(d, lt, h, z)
  BY <1>0, WayHere
<1>2. /\ l \in Nat /\ Tree(d, lt, e, l) /\ Root(d, lt, e, l) /\ Len(z.path) \in Nat /\ Len(z.nodes) = Len(z.path) + 1
      /\ e = z.nodes[Len(z.nodes)]
  BY <1>1, Zenon DEF AtEnd
<1>3. HasChildren(e) /\ ~ p.exists
  BY Zenon DEF Stopped
<1>4. l # 0
  BY <1>2, <1>3, RootLeaf
<1>5. /\ Listed(e.items) /\ Len(e.items) \in Nat /\ Len(e.children) = NbKids(e.items, l)
      /\ \A i \in 1 .. Len(e.items) : e.items[i] \in Values
  <2>1. l \in Nat /\ Tree(d, lt, e, l)
    BY <1>2
  <2> HIDE DEF e, l, t
  <2> QED  BY <2>1, TreeFacts
<1>6. Sorted(lt, e.items)
  <2>1. Arranged(lt, e.items, e.children, l)
    BY <1>2, TreeUnfold DEF Row
  <2> QED  BY <2>1 DEF Arranged, Sorted
<1>7. Listed(z.nodes) /\ Listed(z.path) /\ z.before \in Nat
  BY DEF Way, Steps, Counts
<1>8. Stepped(z, p.at, t)
  BY <1>7, DownIs
<1> HIDE DEF t
<1>9. /\ t.before = z.before + Before(e, p.at) /\ Here(t) = e.children[p.at + 1]
      /\ Listed(t.path) /\ Len(t.path) = Len(z.path) + 1
      /\ \A k \in 1 .. Len(z.path) : t.path[k] = z.path[k]
      /\ t.path[Len(z.path) + 1] = p.at
      /\ \A k \in 1 .. Len(z.nodes) : t.nodes[k] = z.nodes[k]
  BY <1>8, Zenon DEF Stepped, More
<1> HIDE DEF e, l
<1>a. \A k \in Len(w.nodes) .. Len(t.path) : k \in Len(w.nodes) .. Len(z.path) \/ k = Len(z.path) + 1
  BY <1>2, <1>9
<1>b. \A k \in Len(w.nodes) .. Len(z.path) : k \in 1 .. Len(z.path) /\ k \in 1 .. Len(z.nodes)
  <2>1. Len(w.nodes) >= 1
    <3>1. Len(w.path) \in Int /\ Len(w.nodes) = Len(w.path) + 1 /\ Len(w.path) >= 0
      <4>1. Len(w.path) >= 0 /\ Len(w.path) \in Int
        BY LenProperties
      <4> QED  BY <4>1
    <3> QED  BY <3>1
  <2> QED  BY <1>2, <2>1
<1>c. ASSUME NEW v, goal = ToValue(lt, v), Reaches(lt, z, v)
      PROVE  p.at \in 0 .. Len(e.items) /\ Aimed(lt, w, t, goal)
  <2>1. p = GetPosition(lt, e, v) /\ v \in Values /\ Passed(lt, z, v)
    <3>1. v \in Values /\ Passed(lt, z, v)
      BY <1>c, Zenon DEF Reaches
    <3>2. PositionFor(ToValue(lt, v), Here(z), z.before) = GetPosition(lt, Here(z), v)
      BY GoalPosition
    <3> QED  BY <1>c, <3>1, <3>2, Zenon DEF e
  <2>2. Positioned(lt, e.items, v, p)
    BY <1>6, <2>1, PositionIs
  <2>3. p.at \in 0 .. Len(e.items) /\ Between(lt, e.items, p.at + 1, v)
    BY <1>3, <2>2, Zenon DEF Positioned
  <2>4. Passed(lt, t, v)
    BY <1>0, <1>4, <2>1, <2>3, StepsDown DEF e, l, t
  <2> QED  BY <1>c, <2>1, <2>3, <2>4 DEF Aimed, Reaches
<1>d. ASSUME NEW j, goal = ToIndex(j), Counting(z, j)
      PROVE  p.at \in 0 .. Len(e.items) /\ Aimed(lt, w, t, goal)
  <2>1. p = IndexPosition(e, j - z.before) /\ j \in Nat /\ z.before <= j /\ j < z.before + e.size
    BY <1>d, GoalPosition DEF e, Counting
  <2>2. e.size \in Nat
    BY <1>2, TreeFacts
  <2>3. j - z.before \in Nat /\ j - z.before < e.size
    BY <1>7, <2>1, <2>2
  <2>4. Indexed(lt, e, l, j - z.before, p)
    <3>1. HasChildren(e) <=> l # 0
      BY <1>3, <1>4
    <3> QED  BY <1>2, <2>1, <2>3, <3>1, IndexFinds
  <2>5. p.exists # TRUE
    BY <1>3, Zenon
  <2>6. /\ p.at \in 0 .. Len(e.items)
        /\ Before(e, p.at) \in Nat /\ Before(e, p.at) <= j - z.before
        /\ j - z.before < Before(e, p.at) + e.children[p.at + 1].size
    BY <2>4, <2>5, Zenon DEF Indexed
  <2>7. e.children[p.at + 1].size \in Nat
    <3>1. p.at + 1 \in 1 .. Len(e.children)
      BY <1>4, <1>5, <2>6 DEF NbKids
    <3> QED  BY <1>2, <3>1, ChildSize
  <2>8. t.before <= j /\ j < t.before + Here(t).size
    <3> DEFINE a == z.before
               b == Before(e, p.at)
               f == e.children[p.at + 1].size
    <3>1. /\ a \in Nat /\ b \in Nat /\ f \in Nat /\ j \in Nat
          /\ a <= j /\ b <= j - a /\ j - a < b + f
      BY <1>7, <2>1, <2>6, <2>7
    <3>2. t.before = a + b /\ Here(t).size = f
      BY <1>9
    <3> HIDE DEF a, b, f
    <3>3. a + b <= j /\ j < (a + b) + f
      BY <3>1
    <3> QED  BY <3>2, <3>3
  <2> QED  BY <1>d, <2>1, <2>6, <2>8, Zenon DEF Aimed, Counting
<1>e. ASSUME goal = ToFirst, Leftmost(w, z)
      PROVE  p.at \in 0 .. Len(e.items) /\ Aimed(lt, w, t, goal)
  <2>1. p.at = 0
    BY <1>e, GoalPosition
  <2>2. p.at \in 0 .. Len(e.items)
    BY <1>5, <2>1
  <2>3. Leftmost(w, t)
    BY <1>9, <1>a, <1>b, <1>e, <2>1 DEF Leftmost
  <2> QED  BY <1>e, <2>2, <2>3, Zenon DEF Aimed
<1>f. ASSUME goal = ToLast, Rightmost(w, z)
      PROVE  p.at \in 0 .. Len(e.items) /\ Aimed(lt, w, t, goal)
  <2>1. p.at = Len(e.items)
    <3>1. PositionFor(ToLast, e, z.before) = [at |-> Len(e.items), exists |-> FALSE]
      BY GoalPosition
    <3>2. p = [at |-> Len(e.items), exists |-> FALSE]
      BY <1>f, <3>1 DEF e
    <3> QED  BY <3>2
  <2>2. p.at \in 0 .. Len(e.items)
    BY <1>5, <2>1
  <2>3. t.nodes[Len(z.path) + 1] = e
    <3>1. Len(z.path) + 1 \in 1 .. Len(z.nodes)
      BY <1>2
    <3> QED  BY <1>2, <1>9, <3>1
  <2>4. Rightmost(w, t)
    BY <1>9, <1>a, <1>b, <1>f, <2>1, <2>3 DEF Rightmost
  <2> QED  BY <1>f, <2>2, <2>4, Zenon DEF Aimed
<1>g. p.at \in 0 .. Len(e.items) /\ Aimed(lt, w, t, goal)
  BY <1>c, <1>d, <1>e, <1>f, Zenon DEF Aimed
<1> QED  BY <1>g DEF e, t

(* The way after k turns of a lookup.                                      *)
Walked(d, lt, n, h, w, goal, z, k) ==
  /\ Way(d, lt, n, h, z) /\ Extends(w, z) /\ Aimed(lt, w, z, goal)
  /\ Stopped(z, goal) \/ Len(z.path) = Len(w.path) + k

LEMMA WalkStep ==
  ASSUME NEW d \in Nat, d >= 1, NEW lt, NEW n, NEW h, NEW w, Len(w.nodes) = Len(w.path) + 1, Len(w.path) \in Nat,
         NEW goal, NEW k \in Nat, NEW z, Walked(d, lt, n, h, w, goal, z, k), NEW j, j = k + 1
  PROVE  Walked(d, lt, n, h, w, goal, DescentTurn(z, goal), j)
<1>1. /\ Way(d, lt, n, h, z) /\ Extends(w, z) /\ Aimed(lt, w, z, goal)
      /\ Stopped(z, goal) \/ Len(z.path) = Len(w.path) + k
  BY Zenon DEF Walked
<1>2. CASE Stopped(z, goal)
  <2>1. DescentTurn(z, goal) = z
    BY <1>2, Zenon DEF DescentTurn, Stopped
  <2> QED  BY <1>1, <1>2, <2>1, Zenon DEF Walked
<1>3. CASE ~ Stopped(z, goal)
  <2> DEFINE p == PositionFor(goal, Here(z), z.before)
             t == Down(z, p.at)
  <2>1. DescentTurn(z, goal) = t
    BY <1>3, Zenon DEF DescentTurn, Stopped
  <2>2. p.at \in 0 .. Len(Here(z).items) /\ Aimed(lt, w, t, goal)
    BY <1>1, <1>3, AimStep
  <2>3. Root(d, lt, n, h) /\ Steps(d, lt, n, h, z) /\ Listed(z.nodes) /\ Listed(z.path)
    BY <1>1 DEF Way, Steps
  <2>4. AtEnd(d, lt, h, z)
    BY <2>3, WayHere
  <2>5. Lower(h, z) # 0
    <3>1. Root(d, lt, Here(z), Lower(h, z)) /\ HasChildren(Here(z))
      BY <1>3, <2>4, Zenon DEF AtEnd, Stopped
    <3> QED  BY <3>1, RootLeaf
  <2> HIDE DEF p
  <2>6. Way(d, lt, n, h, t)
    BY <1>1, <2>2, <2>5, WayDown
  <2>7. Stepped(z, p.at, t)
    BY <2>3, DownIs
  <2> HIDE DEF t
  <2>8. /\ Len(t.path) = Len(z.path) + 1
        /\ \A i \in 1 .. Len(z.path) : t.path[i] = z.path[i]
        /\ \A i \in 1 .. Len(z.nodes) : t.nodes[i] = z.nodes[i]
    BY <2>7, Zenon DEF Stepped, More
  <2>9. Len(z.nodes) = Len(z.path) + 1 /\ Len(z.path) \in Nat
    BY <2>4, Zenon DEF AtEnd
  <2>a. Extends(w, t)
    <3>1. \A i \in 1 .. Len(w.path) : i \in 1 .. Len(z.path)
      BY <1>1, <2>9 DEF Extends
    <3>2. \A i \in 1 .. Len(w.nodes) : i \in 1 .. Len(z.nodes)
      BY <1>1, <2>9 DEF Extends
    <3> QED  BY <1>1, <2>8, <2>9, <3>1, <3>2 DEF Extends
  <2>b. Len(t.path) = Len(w.path) + j
    <3>1. Len(z.path) = Len(w.path) + k
      BY <1>1, <1>3, Zenon
    <3>2. Len(t.path) = Len(z.path) + 1
      BY <2>8
    <3>3. Len(w.path) \in Nat /\ k \in Nat /\ j = k + 1
      OBVIOUS
    <3> DEFINE a == Len(w.path)
               b == Len(z.path)
    <3> HIDE DEF a, b
    <3>4. b = a + k /\ a \in Nat
      BY <3>1, <3>3 DEF a, b
    <3>5. b + 1 = a + j
      BY <3>3, <3>4
    <3> QED  BY <3>2, <3>5 DEF a, b
  <2> QED  BY <2>1, <2>2, <2>6, <2>a, <2>b, Zenon DEF Walked, t
<1> QED  BY <1>2, <1>3

LEMMA DescentEnds ==
  ASSUME NEW d \in Nat, d >= 1, NEW lt, NEW n, NEW h, NEW w, Way(d, lt, n, h, w), NEW goal,
         Aimed(lt, w, w, goal), NEW z, z = Descent(w, goal)
  PROVE  /\ Way(d, lt, n, h, z) /\ Extends(w, z) /\ Aimed(lt, w, z, goal)
         /\ Stopped(z, goal)
<1>0. Root(d, lt, n, h) /\ Steps(d, lt, n, h, w)
  BY DEF Way
<1>1. AtEnd(d, lt, h, w)
  BY <1>0, WayHere
<1> DEFINE s == Here(w).size
<1>2. Root(d, lt, Here(w), Lower(h, w)) /\ Len(w.nodes) = Len(w.path) + 1 /\ Len(w.path) \in Nat /\ h \in Nat
  BY <1>1, Zenon DEF AtEnd
<1>3. s \in Nat /\ Lower(h, w) <= s
  BY <1>2, RootHeight
<1>4. PICK turn : GoDown(w, goal, s, turn) /\ Descent(w, goal) = turn[s]
  BY <1>3, DescentTurns
<1> HIDE DEF s
<1>5. turn[0] = w /\ \A k \in 1 .. s : turn[k] = DescentTurn(turn[k - 1], goal)
  BY <1>4 DEF GoDown
<1> DEFINE Bad == {k \in 0 .. s : ~ Walked(d, lt, n, h, w, goal, turn[k], k)}
<1>6. ASSUME Bad # {} PROVE FALSE
  <2>1. Bad \in SUBSET Nat
    BY <1>3
  <2>2. PICK k \in Bad : \A l \in Bad : k <= l
    BY <1>6, <2>1, LeastNumber
  <2>3. k # 0
    <3>1. Extends(w, w) /\ Len(w.path) = Len(w.path) + 0
      BY <1>2 DEF Extends
    <3>2. Walked(d, lt, n, h, w, goal, w, 0)
      BY <3>1, Zenon DEF Walked
    <3> QED  BY <1>5, <2>2, <3>2
  <2>4. k \in 1 .. s /\ k - 1 \in Nat /\ k - 1 \in 0 .. s /\ k = (k - 1) + 1 /\ ~ (k <= k - 1)
    BY <1>3, <2>2, <2>3
  <2>5. Walked(d, lt, n, h, w, goal, turn[k - 1], k - 1)
    BY <2>2, <2>4
  <2>6. turn[k] = DescentTurn(turn[k - 1], goal)
    BY <1>5, <2>4
  <2>7. Walked(d, lt, n, h, w, goal, turn[k], k)
    BY <1>2, <2>4, <2>5, <2>6, WalkStep, Zenon
  <2> QED  BY <2>2, <2>7
<1>7. s \in 0 .. s
  BY <1>3
<1>8. Walked(d, lt, n, h, w, goal, z, s)
  BY <1>4, <1>6, <1>7
<1>9. /\ Way(d, lt, n, h, z) /\ Extends(w, z) /\ Aimed(lt, w, z, goal)
      /\ Stopped(z, goal) \/ Len(z.path) = Len(w.path) + s
  BY <1>8, Zenon DEF Walked
<1>a. ASSUME Len(z.path) = Len(w.path) + s PROVE Stopped(z, goal)
  <2>1. Root(d, lt, n, h) /\ Steps(d, lt, n, h, z)
    BY <1>9 DEF Way
  <2>2. AtEnd(d, lt, h, z)
    BY <2>1, WayHere
  <2>3. Root(d, lt, Here(z), Lower(h, z)) /\ Lower(h, z) \in Nat
    BY <2>2, Zenon DEF AtEnd
  <2>4. Lower(h, z) = 0
    BY <1>2, <1>3, <1>a, <2>3 DEF Lower
  <2>5. ~ HasChildren(Here(z))
    BY <2>3, <2>4, RootLeaf
  <2> QED  BY <2>5, Zenon DEF Stopped
<1> QED  BY <1>9, <1>a, Zenon

(* What a way to a value, or to where it would be, is.                     *)
Looked(d, lt, n, h, v, w, p) ==
  /\ Way(d, lt, n, h, w) /\ Passed(lt, w, v) /\ p.at \in 0 .. Len(Here(w).items)
  /\ \/ /\ p.exists = TRUE /\ v \in Within(n, h)
        /\ p.at < Len(Here(w).items) /\ Here(w).items[p.at + 1] = v
     \/ /\ p.exists = FALSE /\ v \notin Within(n, h) /\ Lower(h, w) = 0
        /\ Between(lt, Here(w).items, p.at + 1, v)

LEMMA ValueLooked ==
  ASSUME NEW d \in Nat, d >= 1, NEW lt, NEW n, NEW h, Root(d, lt, n, h), NEW v \in Values,
         NEW w, w = Descent(Start(n), ToValue(lt, v)), NEW p, p = GetPosition(lt, Here(w), v)
  PROVE  Looked(d, lt, n, h, v, w, p)
<1>1. Way(d, lt, n, h, Start(n)) /\ Passed(lt, Start(n), v)
  BY WayStart
<1>2. Aimed(lt, Start(n), Start(n), ToValue(lt, v))
  BY <1>1 DEF Aimed, Reaches
<1>3. /\ Way(d, lt, n, h, w) /\ Aimed(lt, Start(n), w, ToValue(lt, v))
      /\ Stopped(w, ToValue(lt, v))
  BY <1>1, <1>2, DescentEnds
<1>4. Passed(lt, w, v)
  <2>1. PICK u : ToValue(lt, v) = ToValue(lt, u) /\ Reaches(lt, w, u)
    BY <1>3, GoalFacts, Zenon DEF Aimed
  <2>2. u = v
    BY <2>1, GoalFacts, Zenon
  <2> QED  BY <2>1, <2>2, Zenon DEF Reaches
<1>5. Root(d, lt, n, h) /\ Steps(d, lt, n, h, w)
  BY <1>3 DEF Way
<1>6. AtEnd(d, lt, h, w)
  BY <1>5, WayHere
<1> DEFINE e == Here(w)
           l == Lower(h, w)
<1>7. Root(d, lt, e, l) /\ Tree(d, lt, e, l) /\ l \in Nat
  BY <1>6, Zenon DEF AtEnd
<1>8. Arranged(lt, e.items, e.children, l)
  BY <1>7, TreeUnfold DEF Row
<1>9. Positioned(lt, e.items, v, p)
  <2>1. Sorted(lt, e.items)
    BY <1>8 DEF Arranged, Sorted
  <2> QED  BY <2>1, PositionIs
<1>a. v \in Within(n, h) <=> v \in Within(e, l)
  BY <1>3, <1>4 DEF Way, Counts, Ranked
<1>b. Within(e, l) = Held(e.items, e.children, l) /\ Listed(e.items) /\ \A i \in 1 .. Len(e.items) : e.items[i] \in Values
  BY <1>7, TreeUnfold, TreeFacts
<1>c. p.at \in 0 .. Len(e.items) /\ Len(e.items) \in Nat
  BY <1>9, <1>b DEF Positioned, Listed
<1>d. CASE p.exists
  <2>1. p.exists = TRUE /\ p.at < Len(e.items) /\ e.items[p.at + 1] = v
    BY <1>9, <1>d, Zenon DEF Positioned
  <2>2. v \in Within(e, l)
    <3>1. p.at + 1 \in 1 .. Len(e.items) /\ v = e.items[p.at + 1]
      BY <1>c, <2>1
    <3>2. v \in Held(e.items, e.children, l)
      BY <1>b, <3>1, HeldHas
    <3> QED  BY <1>b, <3>2
  <2> QED  BY <1>3, <1>4, <1>a, <1>c, <2>1, <2>2, Zenon DEF Looked
<1>e. CASE ~ p.exists
  <2>1. p.exists = FALSE /\ Between(lt, e.items, p.at + 1, v)
    BY <1>9, <1>e, Zenon DEF Positioned
  <2>2. ~ HasChildren(e)
    <3>1. PositionFor(ToValue(lt, v), e, w.before) = p
      BY GoalPosition
    <3> QED  BY <1>3, <1>e, <3>1, Zenon DEF Stopped
  <2>3. l = 0
    BY <1>7, <2>2, RootLeaf
  <2>4. v \notin Within(e, l)
    <3> SUFFICES ASSUME v \in Within(e, l) PROVE FALSE
      OBVIOUS
    <3>1. PICK i \in 1 .. Len(e.items) : v = e.items[i]
      <4>1. Len(e.children) = 0
        BY <1>8, <2>3 DEF Arranged, NbKids
      <4> QED  BY <1>b, <4>1, HeldHas
    <3>2. Lesser(lt, v, e.items[i]) \/ Lesser(lt, e.items[i], v)
      BY <2>1 DEF Between
    <3> QED  BY <3>1, <3>2, LesserOrder
  <2> QED  BY <1>3, <1>4, <1>a, <1>c, <2>1, <2>3, <2>4, Zenon DEF Looked
<1> QED  BY <1>d, <1>e

(* What getNode gives.                                                     *)
Place(d, lt, n, h, place, x) ==
  /\ Way(d, lt, n, h, place.way)
  /\ place.at \in 0 .. Len(Here(place.way).items) - 1
  /\ x = Here(place.way).items[place.at + 1]

NoPlace(d, lt, n, h, w, v) ==
  /\ Way(d, lt, n, h, w) /\ Passed(lt, w, v) /\ Lower(h, w) = 0
  /\ \E p \in 0 .. Len(Here(w).items) : Between(lt, Here(w).items, p + 1, v)

LEMMA GetNodeIs ==
  ASSUME NEW d \in Nat, d >= 1, NEW lt, NEW n, NEW h, Root(d, lt, n, h), NEW v \in Values,
         NEW place, place = GetNode(lt, n, v)
  PROVE  \/ v \in Within(n, h) /\ place.at # -1 /\ Place(d, lt, n, h, place, v)
         \/ v \notin Within(n, h) /\ place.at = -1 /\ NoPlace(d, lt, n, h, place.way, v)
<1> DEFINE w == Descent(Start(n), ToValue(lt, v))
           p == GetPosition(lt, Here(w), v)
<1>1. Looked(d, lt, n, h, v, w, p)
  BY ValueLooked
<1> DEFINE a == IF p.exists THEN p.at ELSE -1
<1>2. place = [way |-> w, at |-> a]
  BY Zenon DEF GetNode
<1> HIDE DEF w, p, a
<1>3. place.way = w /\ place.at = a
  BY <1>2
<1>4. Way(d, lt, n, h, w) /\ Passed(lt, w, v) /\ p.at \in 0 .. Len(Here(w).items)
  BY <1>1, Zenon DEF Looked
<1>5. CASE p.exists = TRUE
  <2>1. v \in Within(n, h) /\ p.at < Len(Here(w).items) /\ Here(w).items[p.at + 1] = v
    BY <1>1, <1>5, Zenon DEF Looked
  <2>2. place.at = p.at
    <3>1. a = p.at
      BY <1>5, Zenon DEF a
    <3> QED  BY <1>3, <3>1
  <2>3. place.at \in 0 .. Len(Here(w).items) - 1 /\ place.at # -1
    BY <1>4, <2>1, <2>2
  <2>4. v = Here(w).items[place.at + 1]
    BY <2>1, <2>2
  <2> QED  BY <1>3, <1>4, <2>1, <2>3, <2>4, Zenon DEF Place
<1>6. CASE p.exists = FALSE
  <2>1. v \notin Within(n, h) /\ Lower(h, w) = 0 /\ Between(lt, Here(w).items, p.at + 1, v)
    BY <1>1, <1>6, Zenon DEF Looked
  <2>2. place.at = -1
    <3>1. a = -1
      BY <1>6, Zenon DEF a
    <3> QED  BY <1>3, <3>1
  <2> QED  BY <1>3, <1>4, <2>1, <2>2, Zenon DEF NoPlace
<1> QED  BY <1>1, <1>5, <1>6, Zenon DEF Looked

LEMMA GetFromIndexIs ==
  ASSUME NEW d \in Nat, d >= 1, NEW lt, NEW n, NEW h, Root(d, lt, n, h), NEW j \in Nat, j < n.size,
         NEW place, place = GetFromIndex(n, j)
  PROVE  \E x \in Within(n, h) : /\ Place(d, lt, n, h, place, x)
                                 /\ Rank(lt, Within(n, h), x) = j /\ Get(n, j) = x
<1> DEFINE w == Descent(Start(n), ToIndex(j))
           e == Here(w)
           l == Lower(h, w)
           i == j - w.before
           p == IndexPosition(e, i)
<1>0. h \in Nat /\ Tree(d, lt, n, h)
  BY DEF Root
<1>1. Way(d, lt, n, h, Start(n))
  BY WayStart
<1>2. Aimed(lt, Start(n), Start(n), ToIndex(j))
  <2>1. Start(n).before = 0 /\ Here(Start(n)) = n /\ n.size \in Nat
    <3>1. Start(n).nodes = <<n>> /\ Start(n).before = 0
      BY DEF Start
    <3>2. Last(<<n>>) = n
      BY DEF Last
    <3>3. n.size \in Nat
      BY <1>0, TreeFacts
    <3> QED  BY <3>1, <3>2, <3>3 DEF Here
  <2>2. Counting(Start(n), j)
    BY <2>1 DEF Counting
  <2> QED  BY <2>2, Zenon DEF Aimed
<1>3. /\ Way(d, lt, n, h, w) /\ Aimed(lt, Start(n), w, ToIndex(j))
      /\ Stopped(w, ToIndex(j))
  BY <1>1, <1>2, DescentEnds
<1>4. Counting(w, j)
  <2>1. PICK k : ToIndex(j) = ToIndex(k) /\ Counting(w, k)
    BY <1>3, GoalFacts, Zenon DEF Aimed
  <2>2. k = j
    BY <2>1, GoalFacts, Zenon
  <2> QED  BY <2>1, <2>2, Zenon
<1>5. Root(d, lt, n, h) /\ Steps(d, lt, n, h, w)
  BY <1>3 DEF Way
<1>6. AtEnd(d, lt, h, w)
  BY <1>5, WayHere
<1>7. Root(d, lt, e, l) /\ Tree(d, lt, e, l) /\ l \in Nat
  BY <1>6, Zenon DEF AtEnd
<1>8. e.size \in Nat /\ Within(e, l) \subseteq Values /\ Listed(e.items) /\ Len(e.items) \in Nat
  BY <1>7, TreeFacts
<1>9. w.before \in Nat /\ i \in Nat /\ i < e.size
  <2>1. w.before \in Nat
    BY <1>3 DEF Way, Counts
  <2> QED  BY <1>4, <1>8, <2>1 DEF Counting
<1>a. HasChildren(e) <=> l # 0
  BY <1>7, RootLeaf
<1>b. Indexed(lt, e, l, i, p)
  <2> HIDE DEF e, l, i
  <2> QED  BY <1>7, <1>9, <1>a, IndexFinds
<1>c. p.exists \/ ~ HasChildren(e)
  <2>1. PositionFor(ToIndex(j), e, w.before) = p
    BY GoalPosition
  <2> QED  BY <1>3, <2>1, Zenon DEF Stopped
<1>d. /\ p.at \in 0 .. Len(e.items) /\ p.at < Len(e.items)
      /\ Rank(lt, Within(e, l), e.items[p.at + 1]) = i
  <2> HIDE DEF e, l, i, p
  <2> QED  BY <1>a, <1>b, <1>c, Zenon DEF Indexed
<1>e. place = [way |-> w, at |-> p.at]
  BY DEF GetFromIndex
<1> DEFINE x == e.items[p.at + 1]
<1>f. x \in Within(e, l)
  <2> HIDE DEF e, l, p
  <2>1. p.at + 1 \in 1 .. Len(e.items)
    BY <1>8, <1>d
  <2>2. Within(e, l) = Held(e.items, e.children, l)
    BY <1>7, TreeUnfold
  <2> QED  BY <1>8, <2>1, <2>2, HeldHas
<1>g. Ranked(lt, n, h, w, x)
  <2>1. x \in Values /\ Passed(lt, w, x)
    BY <1>3, <1>8, <1>f DEF Way, Counts
  <2> QED  BY <1>3, <2>1 DEF Way, Counts
<1>h. x \in Within(n, h) /\ Rank(lt, Within(n, h), x) = w.before + Rank(lt, Within(e, l), x)
  BY <1>f, <1>g DEF Ranked
<1>i. Rank(lt, Within(n, h), x) = j
  <2>1. Rank(lt, Within(n, h), x) = w.before + i
    BY <1>d, <1>h
  <2> HIDE DEF x, p, e, w
  <2> QED  BY <1>9, <2>1
<1> HIDE DEF w, p
<1>j. place.way = w /\ place.at = p.at
  BY <1>e
<1>k. place.at \in 0 .. Len(e.items) - 1
  BY <1>8, <1>d, <1>j
<1>l. Place(d, lt, n, h, place, x)
  BY <1>3, <1>j, <1>k DEF Place
<1>m. Get(n, j) = x
  BY <1>j DEF Get, Item
<1> QED  BY <1>h, <1>i, <1>l, <1>m

-----------------------------------------------------------------------------
(* The last and the first value of a tree.                                 *)

Greatest(lt, S, u) == u \in S /\ \A y \in S : y = u \/ Lesser(lt, y, u)

Least(lt, S, u) == u \in S /\ \A y \in S : y = u \/ Lesser(lt, u, y)

LEMMA GreatestUp ==
  ASSUME NEW d, NEW lt, NEW n, NEW h \in Nat, Tree(d, lt, n, h), NEW q \in 1 .. Len(n.children),
         q = Len(n.items) + 1, NEW g, g = h - 1, NEW u, Greatest(lt, Within(n.children[q], g), u)
  PROVE  Greatest(lt, Within(n, h), u)
<1> DEFINE I == n.items
           C == n.children
<1>1. Within(n, h) = Held(I, C, h) /\ Arranged(lt, I, C, h)
  BY TreeUnfold DEF Row
<1>2. Listed(I) /\ Len(I) \in Nat /\ Len(C) = NbKids(I, h) /\ Separated(lt, I, C, g) /\ h # 0 /\ Len(C) = Len(I) + 1
  BY <1>1 DEF Arranged, Listed, NbKids
<1>3. u \in Within(C[q], g) /\ \A y \in Within(C[q], g) : y = u \/ Lesser(lt, y, u)
  BY DEF Greatest
<1> HIDE DEF I, C
<1>4. ASSUME NEW i \in 1 .. Len(I) PROVE Lesser(lt, I[i], u)
  <2>1. Between(lt, I, q, u) /\ ~ (q <= i)
    BY <1>2, <1>3 DEF Separated, I, C
  <2> QED  BY <2>1 DEF Between
<1>5. ASSUME NEW c \in 1 .. Len(C), NEW y \in Within(C[c], g) PROVE y = u \/ Lesser(lt, y, u)
  <2>1. CASE c = q
    BY <1>3, <2>1
  <2>2. CASE c # q
    <3>1. c < q /\ q \in 1 .. Len(C)
      BY <1>2, <2>2 DEF I, C
    <3> QED  BY <1>1, <1>3, <3>1, RowDisjoint
  <2> QED  BY <2>1, <2>2
<1>6. u \in Held(I, C, h)
  <2>1. q \in 1 .. Len(C) /\ u \in Within(C[q], h - 1)
    BY <1>3 DEF C
  <2> QED  BY <1>2, <2>1, HeldHas
<1>7. ASSUME NEW y \in Held(I, C, h) PROVE y = u \/ Lesser(lt, y, u)
  <2>1. \/ \E i \in 1 .. Len(I) : y = I[i]
        \/ \E c \in 1 .. Len(C) : y \in Within(C[c], g)
    BY <1>2, HeldHas
  <2> QED  BY <1>4, <1>5, <2>1
<1> QED  BY <1>1, <1>6, <1>7 DEF Greatest

LEMMA LeastUp ==
  ASSUME NEW d, NEW lt, NEW n, NEW h \in Nat, Tree(d, lt, n, h), NEW q \in 1 .. Len(n.children),
         q = 1, NEW g, g = h - 1, NEW u, Least(lt, Within(n.children[q], g), u)
  PROVE  Least(lt, Within(n, h), u)
<1> DEFINE I == n.items
           C == n.children
<1>1. Within(n, h) = Held(I, C, h) /\ Arranged(lt, I, C, h)
  BY TreeUnfold DEF Row
<1>2. Listed(I) /\ Len(I) \in Nat /\ Len(C) = NbKids(I, h) /\ Separated(lt, I, C, g) /\ h # 0 /\ Len(C) = Len(I) + 1
  BY <1>1 DEF Arranged, Listed, NbKids
<1>3. u \in Within(C[q], g) /\ \A y \in Within(C[q], g) : y = u \/ Lesser(lt, u, y)
  BY DEF Least
<1> HIDE DEF I, C
<1>4. ASSUME NEW i \in 1 .. Len(I) PROVE Lesser(lt, u, I[i])
  <2>1. Between(lt, I, q, u) /\ q <= i
    BY <1>2, <1>3 DEF Separated, I, C
  <2> QED  BY <2>1 DEF Between
<1>5. ASSUME NEW c \in 1 .. Len(C), NEW y \in Within(C[c], g) PROVE y = u \/ Lesser(lt, u, y)
  <2>1. CASE c = q
    BY <1>3, <2>1
  <2>2. CASE c # q
    <3>1. q < c /\ q \in 1 .. Len(C)
      BY <1>2, <2>2 DEF I, C
    <3> QED  BY <1>1, <1>3, <3>1, RowDisjoint
  <2> QED  BY <2>1, <2>2
<1>6. u \in Held(I, C, h)
  <2>1. q \in 1 .. Len(C) /\ u \in Within(C[q], h - 1)
    BY <1>3 DEF C
  <2> QED  BY <1>2, <2>1, HeldHas
<1>7. ASSUME NEW y \in Held(I, C, h) PROVE y = u \/ Lesser(lt, u, y)
  <2>1. \/ \E i \in 1 .. Len(I) : y = I[i]
        \/ \E c \in 1 .. Len(C) : y \in Within(C[c], g)
    BY <1>2, HeldHas
  <2> QED  BY <1>4, <1>5, <2>1
<1> QED  BY <1>1, <1>6, <1>7 DEF Least

(* The way to the last leaf from the child p of the end of the way w.      *)
LastWay(d, lt, n, h, w, p, z, u) ==
  /\ Way(d, lt, n, h, z) /\ Extends(Down(w, p), z) /\ Lower(h, z) = 0
  /\ Len(Here(z).items) >= 1 /\ u = Here(z).items[Len(Here(z).items)]
  /\ Greatest(lt, Within(Here(w).children[p + 1], Lower(h, w) - 1), u)

LEMMA LastWayIs ==
  ASSUME NEW d \in Nat, d >= 1, NEW lt, NEW n, NEW h, NEW w, Way(d, lt, n, h, w), Lower(h, w) # 0,
         NEW p \in 0 .. Len(Here(w).items), NEW z, z = Descent(Down(w, p), ToLast)
  PROVE  \E u \in Values : LastWay(d, lt, n, h, w, p, z, u)
<1> DEFINE v == Down(w, p)
           u == Here(z).items[Len(Here(z).items)]
           m == Len(v.nodes)
<1>0. Root(d, lt, n, h) /\ Steps(d, lt, n, h, w) /\ Listed(w.nodes) /\ Listed(w.path)
  BY DEF Way, Steps
<1>1. Way(d, lt, n, h, v)
  BY WayDown
<1>2. Stepped(w, p, v) /\ Lower(h, v) = Lower(h, w) - 1 /\ Steps(d, lt, n, h, v)
  <2>1. Stepped(w, p, v)
    BY <1>0, DownIs
  <2> HIDE DEF v
  <2>2. Lower(h, v) = Lower(h, w) - 1 /\ Steps(d, lt, n, h, v)
    BY <1>0, StepsDown DEF v
  <2> QED  BY <2>1, <2>2
<1>3. Here(v) = Here(w).children[p + 1]
  BY <1>2 DEF Stepped
<1> HIDE DEF v
<1>4. AtEnd(d, lt, h, v)
  BY <1>0, <1>2, WayHere
<1>5. /\ m = Len(v.path) + 1 /\ Len(v.path) \in Nat /\ h \in Nat /\ m \in 1 .. Len(v.nodes)
      /\ (h + 1) - m = Lower(h, v) /\ Here(v) = v.nodes[m] /\ Lower(h, v) \in Nat
  BY <1>4, Zenon DEF AtEnd
<1>6. Aimed(lt, v, v, ToLast)
  <2>1. \A k \in Len(v.nodes) .. Len(v.path) : FALSE
    BY <1>5
  <2> QED  BY <2>1, Zenon DEF Aimed, Rightmost
<1>7. Way(d, lt, n, h, z) /\ Extends(v, z) /\ Aimed(lt, v, z, ToLast) /\ Stopped(z, ToLast)
  BY <1>1, <1>6, DescentEnds DEF v
<1>8. Rightmost(v, z)
  BY <1>7, GoalFacts, Zenon DEF Aimed
<1>9. Root(d, lt, n, h) /\ Steps(d, lt, n, h, z)
  BY <1>7 DEF Way
<1>a. AtEnd(d, lt, h, z)
  BY <1>9, WayHere
<1>b. /\ Len(z.nodes) = Len(z.path) + 1 /\ Len(z.path) \in Nat /\ Lower(h, z) \in Nat
      /\ Here(z) = z.nodes[Len(z.nodes)] /\ (h + 1) - Len(z.nodes) = Lower(h, z)
      /\ Root(d, lt, Here(z), Lower(h, z)) /\ Tree(d, lt, Here(z), Lower(h, z))
      /\ (Len(z.nodes) # 1 => Len(Here(z).items) >= d)
  BY <1>a, Zenon DEF AtEnd
<1>c. Lower(h, z) = 0
  <2>1. PositionFor(ToLast, Here(z), z.before).exists = FALSE
    <3>1. PositionFor(ToLast, Here(z), z.before) = [at |-> Len(Here(z).items), exists |-> FALSE]
      BY GoalPosition
    <3> QED  BY <3>1
  <2>2. ~ HasChildren(Here(z))
    BY <1>7, <2>1, Zenon DEF Stopped
  <2> QED  BY <1>b, <2>2, RootLeaf
<1>d. Len(z.nodes) = h + 1 /\ Len(z.path) = h /\ m <= h + 1 /\ m >= 2
  <2>1. Len(v.path) <= Len(z.path)
    BY <1>7 DEF Extends
  <2>2. Len(v.path) >= 1
    <3>1. Len(v.path) = Len(w.path) + 1 /\ Len(w.path) \in Nat
      BY <1>0, <1>2 DEF Stepped, More, Listed
    <3> QED  BY <3>1
  <2> DEFINE a == Len(v.path)
             b == Len(z.path)
             e == Len(z.nodes)
  <2>3. /\ a \in Nat /\ b \in Nat /\ h \in Nat /\ e = b + 1 /\ (h + 1) - e = 0
        /\ m = a + 1 /\ a <= b /\ a >= 1
    BY <1>5, <1>b, <1>c, <2>1, <2>2
  <2> HIDE DEF a, b, e
  <2>4. e = h + 1 /\ b = h /\ m <= h + 1 /\ m >= 2
    BY <2>3
  <2> QED  BY <2>4 DEF b, e
<1>e. Len(Here(z).items) \in Nat /\ Len(Here(z).items) >= 1
  <2>1. Len(Here(z).items) \in Nat
    BY <1>b, TreeFacts
  <2>2. Len(Here(z).items) >= d
    BY <1>5, <1>b, <1>d
  <2> QED  BY <2>1, <2>2
<1>f. Greatest(lt, Within(z.nodes[(h + 1) - 0], 0), u)
  <2> DEFINE I == Here(z).items
  <2>1. Here(z) = z.nodes[(h + 1) - 0]
    BY <1>5, <1>b, <1>d
  <2>2. Within(Here(z), 0) = ToSet(I)
    BY WithinLeaf
  <2>3. Arranged(lt, I, Here(z).children, 0)
    BY <1>b, <1>c, TreeUnfold DEF Row
  <2>4. Listed(I) /\ InOrder(lt, I)
    BY <2>3 DEF Arranged
  <2>5. Len(I) \in 1 .. Len(I) /\ u = I[Len(I)]
    BY <1>e
  <2>6. ASSUME NEW y \in ToSet(I) PROVE y = u \/ Lesser(lt, y, u)
    <3>1. PICK i \in 1 .. Len(I) : y = I[i]
      BY <2>4, ElementsOf
    <3>2. CASE i = Len(I)
      BY <2>5, <3>1, <3>2
    <3>3. CASE i # Len(I)
      <4>1. i < Len(I)
        BY <1>e, <2>5, <3>3
      <4> QED  BY <2>4, <2>5, <3>1, <4>1 DEF InOrder
    <3> QED  BY <3>2, <3>3
  <2>7. u \in ToSet(I)
    BY <2>4, <2>5, ElementsOf
  <2>8. Within(z.nodes[(h + 1) - 0], 0) = ToSet(I)
    BY <2>1, <2>2
  <2> HIDE DEF u, I
  <2>9. Greatest(lt, ToSet(I), u)
    BY <2>6, <2>7, Zenon DEF Greatest
  <2> QED  BY <2>8, <2>9
<1> HIDE DEF u
<1> HIDE DEF m
<1> DEFINE g == (h + 1) - m
<1>r. h \in Nat /\ m \in Nat /\ g \in Nat /\ g <= h - 1 /\ (h + 1) - g = m /\ Len(z.path) = h /\ Len(z.nodes) = h + 1
  <2>1. h \in Nat /\ m \in Nat /\ m <= h + 1 /\ m >= 2
    BY <1>5, <1>d
  <2>2. g \in Nat /\ g <= h - 1 /\ (h + 1) - g = m
    BY <2>1
  <2> QED  BY <1>d, <2>1, <2>2, Zenon
<1> HIDE DEF g
<1> DEFINE Bad == {j \in 0 .. g : ~ Greatest(lt, Within(z.nodes[(h + 1) - j], j), u)}
<1>g. ASSUME Bad # {} PROVE FALSE
  <2>1. Bad \in SUBSET Nat
    BY <1>r
  <2>2. PICK j \in Bad : \A i \in Bad : j <= i
    BY <1>g, <2>1, LeastNumber
  <2>3. j # 0
    BY <1>f, <2>2
  <2>4. j - 1 \in Nat /\ j - 1 \in 0 .. g /\ ~ (j <= j - 1) /\ j \in Nat
    BY <1>r, <2>2, <2>3
  <2>5. j - 1 \notin Bad
    BY <2>2, <2>4
  <2> DEFINE k == (h + 1) - j
             c == z.nodes[k]
  <2>6. k \in m .. Len(z.path) /\ k \in 1 .. Len(z.path) /\ k \in 1 .. Len(z.nodes) /\ k + 1 = (h + 1) - (j - 1) /\ (h + 1) - k = j
    <3>1. h \in Nat /\ m \in Nat /\ g \in Nat /\ g <= h - 1 /\ (h + 1) - g = m /\ j \in 1 .. g
      BY <1>r, <2>2, <2>3
    <3>2. k \in m .. h /\ k \in 1 .. h /\ k \in 1 .. h + 1 /\ k + 1 = (h + 1) - (j - 1) /\ (h + 1) - k = j
      <4>1. m >= 1
        BY <3>1
      <4> QED  BY <3>1, <4>1
    <3> HIDE DEF k
    <3>3. Len(z.path) = h /\ Len(z.nodes) = h + 1
      BY <1>r
    <3> QED  BY <3>2, <3>3, Zenon
  <2>7. Greatest(lt, Within(z.nodes[k + 1], j - 1), u)
    BY <2>4, <2>5, <2>6
  <2> HIDE DEF k
  <2>8. z.path[k] = Len(z.nodes[k].items)
    BY <1>8, <2>6 DEF Rightmost, m
  <2>9. z.nodes[k + 1] = c.children[z.path[k] + 1] /\ Tree(d, lt, c, j)
    BY <1>9, <2>6 DEF Steps
  <2>a. Len(c.items) \in Nat /\ Len(c.children) = NbKids(c.items, j)
    BY <2>4, <2>9, TreeFacts
  <2> DEFINE q == z.path[k] + 1
  <2>b. q = Len(c.items) + 1 /\ q \in 1 .. Len(c.children)
    BY <2>3, <2>8, <2>a DEF NbKids
  <2>c. Greatest(lt, Within(c.children[q], j - 1), u)
    BY <2>7, <2>9
  <2> HIDE DEF q, c
  <2>d. Greatest(lt, Within(c, j), u)
    BY <2>4, <2>9, <2>b, <2>c, GreatestUp
  <2>e. Greatest(lt, Within(z.nodes[(h + 1) - j], j), u)
    BY <2>d DEF c, k
  <2> QED  BY <2>2, <2>e
<1>h. g \in 0 .. g /\ (h + 1) - g = m
  BY <1>r
<1>i. Greatest(lt, Within(z.nodes[m], g), u)
  BY <1>g, <1>h
<1>j. z.nodes[m] = Here(w).children[p + 1]
  BY <1>3, <1>5, <1>7 DEF Extends, m
<1>k. Greatest(lt, Within(Here(w).children[p + 1], Lower(h, w) - 1), u)
  BY <1>2, <1>5, <1>i, <1>j DEF g, m
<1>l. u \in Values
  <2>1. \A i \in 1 .. Len(Here(z).items) : Here(z).items[i] \in Values
    BY <1>b, TreeFacts
  <2> QED  BY <1>e, <2>1 DEF u
<1> QED  BY <1>7, <1>c, <1>e, <1>k, <1>l DEF LastWay, u, v

(* The way to the first leaf from the child p of the end of the way w.     *)
FirstWay(d, lt, n, h, w, p, z, u) ==
  /\ Way(d, lt, n, h, z) /\ Extends(Down(w, p), z) /\ Lower(h, z) = 0
  /\ Len(Here(z).items) >= 1 /\ u = Here(z).items[1]
  /\ Least(lt, Within(Here(w).children[p + 1], Lower(h, w) - 1), u)

LEMMA FirstWayIs ==
  ASSUME NEW d \in Nat, d >= 1, NEW lt, NEW n, NEW h, NEW w, Way(d, lt, n, h, w), Lower(h, w) # 0,
         NEW p \in 0 .. Len(Here(w).items), NEW z, z = Descent(Down(w, p), ToFirst)
  PROVE  \E u \in Values : FirstWay(d, lt, n, h, w, p, z, u)
<1> DEFINE v == Down(w, p)
           u == Here(z).items[1]
           m == Len(v.nodes)
<1>0. Root(d, lt, n, h) /\ Steps(d, lt, n, h, w) /\ Listed(w.nodes) /\ Listed(w.path)
  BY DEF Way, Steps
<1>1. Way(d, lt, n, h, v)
  BY WayDown
<1>2. Stepped(w, p, v) /\ Lower(h, v) = Lower(h, w) - 1 /\ Steps(d, lt, n, h, v)
  <2>1. Stepped(w, p, v)
    BY <1>0, DownIs
  <2> HIDE DEF v
  <2>2. Lower(h, v) = Lower(h, w) - 1 /\ Steps(d, lt, n, h, v)
    BY <1>0, StepsDown DEF v
  <2> QED  BY <2>1, <2>2
<1>3. Here(v) = Here(w).children[p + 1]
  BY <1>2 DEF Stepped
<1> HIDE DEF v
<1>4. AtEnd(d, lt, h, v)
  BY <1>0, <1>2, WayHere
<1>5. /\ m = Len(v.path) + 1 /\ Len(v.path) \in Nat /\ h \in Nat /\ m \in 1 .. Len(v.nodes)
      /\ (h + 1) - m = Lower(h, v) /\ Here(v) = v.nodes[m] /\ Lower(h, v) \in Nat
  BY <1>4, Zenon DEF AtEnd
<1>6. Aimed(lt, v, v, ToFirst)
  <2>1. \A k \in Len(v.nodes) .. Len(v.path) : FALSE
    BY <1>5
  <2> QED  BY <2>1, Zenon DEF Aimed, Leftmost
<1>7. Way(d, lt, n, h, z) /\ Extends(v, z) /\ Aimed(lt, v, z, ToFirst) /\ Stopped(z, ToFirst)
  BY <1>1, <1>6, DescentEnds DEF v
<1>8. Leftmost(v, z)
  BY <1>7, GoalFacts, Zenon DEF Aimed
<1>9. Root(d, lt, n, h) /\ Steps(d, lt, n, h, z)
  BY <1>7 DEF Way
<1>a. AtEnd(d, lt, h, z)
  BY <1>9, WayHere
<1>b. /\ Len(z.nodes) = Len(z.path) + 1 /\ Len(z.path) \in Nat /\ Lower(h, z) \in Nat
      /\ Here(z) = z.nodes[Len(z.nodes)] /\ (h + 1) - Len(z.nodes) = Lower(h, z)
      /\ Root(d, lt, Here(z), Lower(h, z)) /\ Tree(d, lt, Here(z), Lower(h, z))
      /\ (Len(z.nodes) # 1 => Len(Here(z).items) >= d)
  BY <1>a, Zenon DEF AtEnd
<1>c. Lower(h, z) = 0
  <2>1. PositionFor(ToFirst, Here(z), z.before).exists = FALSE
    <3>1. PositionFor(ToFirst, Here(z), z.before) = [at |-> 0, exists |-> FALSE]
      BY GoalPosition
    <3> QED  BY <3>1
  <2>2. ~ HasChildren(Here(z))
    BY <1>7, <2>1, Zenon DEF Stopped
  <2> QED  BY <1>b, <2>2, RootLeaf
<1>d. Len(z.nodes) = h + 1 /\ Len(z.path) = h /\ m <= h + 1 /\ m >= 2
  <2>1. Len(v.path) <= Len(z.path)
    BY <1>7 DEF Extends
  <2>2. Len(v.path) >= 1
    <3>1. Len(v.path) = Len(w.path) + 1 /\ Len(w.path) \in Nat
      BY <1>0, <1>2 DEF Stepped, More, Listed
    <3> QED  BY <3>1
  <2> DEFINE a == Len(v.path)
             b == Len(z.path)
             e == Len(z.nodes)
  <2>3. /\ a \in Nat /\ b \in Nat /\ h \in Nat /\ e = b + 1 /\ (h + 1) - e = 0
        /\ m = a + 1 /\ a <= b /\ a >= 1
    BY <1>5, <1>b, <1>c, <2>1, <2>2
  <2> HIDE DEF a, b, e
  <2>4. e = h + 1 /\ b = h /\ m <= h + 1 /\ m >= 2
    BY <2>3
  <2> QED  BY <2>4 DEF b, e
<1>e. Len(Here(z).items) \in Nat /\ Len(Here(z).items) >= 1
  <2>1. Len(Here(z).items) \in Nat
    BY <1>b, TreeFacts
  <2>2. Len(Here(z).items) >= d
    BY <1>5, <1>b, <1>d
  <2> QED  BY <2>1, <2>2
<1>f. Least(lt, Within(z.nodes[(h + 1) - 0], 0), u)
  <2> DEFINE I == Here(z).items
  <2>1. Here(z) = z.nodes[(h + 1) - 0]
    BY <1>5, <1>b, <1>d
  <2>2. Within(Here(z), 0) = ToSet(I)
    BY WithinLeaf
  <2>3. Arranged(lt, I, Here(z).children, 0)
    BY <1>b, <1>c, TreeUnfold DEF Row
  <2>4. Listed(I) /\ InOrder(lt, I)
    BY <2>3 DEF Arranged
  <2>5. 1 \in 1 .. Len(I) /\ u = I[1]
    BY <1>e
  <2>6. ASSUME NEW y \in ToSet(I) PROVE y = u \/ Lesser(lt, u, y)
    <3>1. PICK i \in 1 .. Len(I) : y = I[i]
      BY <2>4, ElementsOf
    <3>2. CASE i = 1
      BY <2>5, <3>1, <3>2
    <3>3. CASE i # 1
      <4>1. 1 < i
        BY <1>e, <2>5, <3>3
      <4> QED  BY <2>4, <2>5, <3>1, <4>1 DEF InOrder
    <3> QED  BY <3>2, <3>3
  <2>7. u \in ToSet(I)
    BY <2>4, <2>5, ElementsOf
  <2>8. Within(z.nodes[(h + 1) - 0], 0) = ToSet(I)
    BY <2>1, <2>2
  <2> HIDE DEF u, I
  <2>9. Least(lt, ToSet(I), u)
    BY <2>6, <2>7, Zenon DEF Least
  <2> QED  BY <2>8, <2>9
<1> HIDE DEF u
<1> HIDE DEF m
<1> DEFINE g == (h + 1) - m
<1>r. h \in Nat /\ m \in Nat /\ g \in Nat /\ g <= h - 1 /\ (h + 1) - g = m /\ Len(z.path) = h /\ Len(z.nodes) = h + 1
  <2>1. h \in Nat /\ m \in Nat /\ m <= h + 1 /\ m >= 2
    BY <1>5, <1>d
  <2>2. g \in Nat /\ g <= h - 1 /\ (h + 1) - g = m
    BY <2>1
  <2> QED  BY <1>d, <2>1, <2>2, Zenon
<1> HIDE DEF g
<1> DEFINE Bad == {j \in 0 .. g : ~ Least(lt, Within(z.nodes[(h + 1) - j], j), u)}
<1>g. ASSUME Bad # {} PROVE FALSE
  <2>1. Bad \in SUBSET Nat
    BY <1>r
  <2>2. PICK j \in Bad : \A i \in Bad : j <= i
    BY <1>g, <2>1, LeastNumber
  <2>3. j # 0
    BY <1>f, <2>2
  <2>4. j - 1 \in Nat /\ j - 1 \in 0 .. g /\ ~ (j <= j - 1) /\ j \in Nat
    BY <1>r, <2>2, <2>3
  <2>5. j - 1 \notin Bad
    BY <2>2, <2>4
  <2> DEFINE k == (h + 1) - j
             c == z.nodes[k]
  <2>6. k \in m .. Len(z.path) /\ k \in 1 .. Len(z.path) /\ k \in 1 .. Len(z.nodes) /\ k + 1 = (h + 1) - (j - 1) /\ (h + 1) - k = j
    <3>1. h \in Nat /\ m \in Nat /\ g \in Nat /\ g <= h - 1 /\ (h + 1) - g = m /\ j \in 1 .. g
      BY <1>r, <2>2, <2>3
    <3>2. k \in m .. h /\ k \in 1 .. h /\ k \in 1 .. h + 1 /\ k + 1 = (h + 1) - (j - 1) /\ (h + 1) - k = j
      <4>1. m >= 1
        BY <3>1
      <4> QED  BY <3>1, <4>1
    <3> HIDE DEF k
    <3>3. Len(z.path) = h /\ Len(z.nodes) = h + 1
      BY <1>r
    <3> QED  BY <3>2, <3>3, Zenon
  <2>7. Least(lt, Within(z.nodes[k + 1], j - 1), u)
    BY <2>4, <2>5, <2>6
  <2> HIDE DEF k
  <2>8. z.path[k] = 0
    BY <1>8, <2>6 DEF Leftmost, m
  <2>9. z.nodes[k + 1] = c.children[z.path[k] + 1] /\ Tree(d, lt, c, j)
    BY <1>9, <2>6 DEF Steps
  <2>a. Len(c.items) \in Nat /\ Len(c.children) = NbKids(c.items, j)
    BY <2>4, <2>9, TreeFacts
  <2> DEFINE q == z.path[k] + 1
  <2>b. q = 1 /\ q \in 1 .. Len(c.children)
    BY <2>3, <2>8, <2>a DEF NbKids
  <2>c. Least(lt, Within(c.children[q], j - 1), u)
    BY <2>7, <2>9
  <2> HIDE DEF q, c
  <2>d. Least(lt, Within(c, j), u)
    BY <2>4, <2>9, <2>b, <2>c, LeastUp
  <2>e. Least(lt, Within(z.nodes[(h + 1) - j], j), u)
    BY <2>d DEF c, k
  <2> QED  BY <2>2, <2>e
<1>h. g \in 0 .. g /\ (h + 1) - g = m
  BY <1>r
<1>i. Least(lt, Within(z.nodes[m], g), u)
  BY <1>g, <1>h
<1>j. z.nodes[m] = Here(w).children[p + 1]
  BY <1>3, <1>5, <1>7 DEF Extends, m
<1>k. Least(lt, Within(Here(w).children[p + 1], Lower(h, w) - 1), u)
  BY <1>2, <1>5, <1>i, <1>j DEF g, m
<1>l. u \in Values
  <2>1. \A i \in 1 .. Len(Here(z).items) : Here(z).items[i] \in Values
    BY <1>b, TreeFacts
  <2> QED  BY <1>e, <2>1 DEF u
<1> QED  BY <1>7, <1>c, <1>e, <1>k, <1>l DEF FirstWay, u, v

-----------------------------------------------------------------------------
(* Rows cut and joined.                                                    *)

Ordered(lt, S, x, T) == (\A y \in S : Lesser(lt, y, x)) /\ (\A y \in T : Lesser(lt, x, y))

(* What two rows and the item between them are to the row of both.         *)
Parted(d, lt, I1, C1, x, I2, C2, I, C, h) ==
  /\ Row(d, lt, I1, C1, h) /\ Row(d, lt, I2, C2, h) /\ Row(d, lt, I, C, h)
  /\ Full(d, C1) /\ Full(d, C2) /\ Full(d, C)
  /\ x \in Values /\ Ordered(lt, Held(I1, C1, h), x, Held(I2, C2, h))
  /\ Held(I, C, h) = Held(I1, C1, h) \cup {x} \cup Held(I2, C2, h)
  /\ SizeOf(C1) \in Nat /\ SizeOf(C2) \in Nat /\ SizeOf(C) = SizeOf(C1) + SizeOf(C2)

LEMMA CutRow ==
  ASSUME NEW d, NEW lt, NEW I1, NEW C1, NEW x, NEW I2, NEW C2, NEW I, NEW C, NEW h,
         Row(d, lt, I, C, h), Full(d, C), Divided(I1, C1, x, I2, C2, I, C),
         Listed(I1), Listed(C1), Listed(I2), Listed(C2), Len(C1) = NbKids(I1, h)
  PROVE  Parted(d, lt, I1, C1, x, I2, C2, I, C, h)
<1>1. Arranged(lt, I, C, h) /\ \A c \in 1 .. Len(C) : Tree(d, lt, C[c], h - 1) /\ Len(C[c].items) >= d
  BY DEF Row, Full
<1>2. /\ Arranged(lt, I1, C1, h) /\ Arranged(lt, I2, C2, h) /\ x \in Values
      /\ Ordered(lt, Held(I1, C1, h), x, Held(I2, C2, h))
  BY <1>1, CutArranged DEF Ordered
<1>3. Held(I, C, h) = Held(I1, C1, h) \cup {x} \cup Held(I2, C2, h)
  BY DividedHeld
<1>4. Cat(C1, C2, C) /\ Len(C1) \in Nat /\ Len(C2) \in Nat
  BY DEF Divided, Listed
<1>5. ASSUME NEW c \in 1 .. Len(C1) PROVE Tree(d, lt, C1[c], h - 1) /\ Len(C1[c].items) >= d
  <2>1. c \in 1 .. Len(C) /\ C[c] = C1[c]
    BY <1>4 DEF Cat
  <2> QED  BY <1>1, <2>1
<1>6. ASSUME NEW c \in 1 .. Len(C2) PROVE Tree(d, lt, C2[c], h - 1) /\ Len(C2[c].items) >= d
  <2>1. Len(C1) + c \in 1 .. Len(C) /\ C[Len(C1) + c] = C2[c]
    BY <1>4 DEF Cat
  <2> QED  BY <1>1, <2>1
<1>7. Row(d, lt, I1, C1, h) /\ Row(d, lt, I2, C2, h) /\ Full(d, C1) /\ Full(d, C2)
  BY <1>2, <1>5, <1>6 DEF Row, Full
<1>8. Sized(C1) /\ Sized(C2) /\ SizeOf(C1) \in Nat /\ SizeOf(C2) \in Nat
  BY <1>7, RowSized
<1>9. SizeOf(C) = SizeOf(C1) + SizeOf(C2)
  BY <1>4, <1>8, SizeCat
<1> QED  BY <1>2, <1>3, <1>7, <1>8, <1>9 DEF Parted

LEMMA JoinRow ==
  ASSUME NEW d, NEW lt, NEW I1, NEW C1, NEW x \in Values, NEW I2, NEW C2, NEW I, NEW C, NEW h,
         Row(d, lt, I1, C1, h), Row(d, lt, I2, C2, h), Full(d, C1), Full(d, C2),
         Divided(I1, C1, x, I2, C2, I, C),
         Ordered(lt, Held(I1, C1, h), x, Held(I2, C2, h))
  PROVE  Parted(d, lt, I1, C1, x, I2, C2, I, C, h)
<1>1. Arranged(lt, I1, C1, h) /\ Arranged(lt, I2, C2, h)
  BY DEF Row
<1>2. Listed(I1) /\ Listed(C1) /\ Listed(I2) /\ Listed(C2)
  BY <1>1 DEF Arranged
<1>3. Arranged(lt, I, C, h)
  BY <1>1, JoinArranged DEF Ordered
<1>4. Held(I, C, h) = Held(I1, C1, h) \cup {x} \cup Held(I2, C2, h)
  BY <1>2, DividedHeld
<1>5. Cat(C1, C2, C)
  BY DEF Divided
<1>6. ASSUME NEW c \in 1 .. Len(C) PROVE Tree(d, lt, C[c], h - 1) /\ Len(C[c].items) >= d
  <2>1. \/ c \in 1 .. Len(C1) /\ C[c] = C1[c]
        \/ c - Len(C1) \in 1 .. Len(C2) /\ C[c] = C2[c - Len(C1)]
    BY <1>2, <1>5, CatAt
  <2> QED  BY <2>1 DEF Row, Full
<1>7. Row(d, lt, I, C, h) /\ Full(d, C)
  BY <1>3, <1>6 DEF Row, Full
<1>8. Sized(C1) /\ Sized(C2) /\ SizeOf(C1) \in Nat /\ SizeOf(C2) \in Nat
  BY RowSized
<1>9. SizeOf(C) = SizeOf(C1) + SizeOf(C2)
  BY <1>5, <1>8, SizeCat
<1> QED  BY <1>4, <1>7, <1>8, <1>9 DEF Parted

-----------------------------------------------------------------------------
(* Insertion.                                                              *)

LEMMA PutIs ==
  ASSUME NEW s, Listed(s), NEW k \in 0 .. Len(s), NEW x
  PROVE  Put(s, k, x, InsertAt(s, k + 1, x))
<1> DEFINE a == SubSeq(s, 1, k)
           b == SubSeq(s, k + 1, Len(s))
           r == InsertAt(s, k + 1, x)
<1>1. Len(s) \in Nat /\ (k + 1) - 1 = k
  BY DEF Listed
<1>2. Part(s, 1, k, a)
  <2>1. 1 \in 1 .. Len(s) + 1 /\ k \in 1 - 1 .. Len(s)
    BY <1>1
  <2> QED  BY <2>1, PartIs
<1>3. Part(s, k + 1, Len(s), b)
  <2>1. k + 1 \in 1 .. Len(s) + 1 /\ Len(s) \in (k + 1) - 1 .. Len(s)
    BY <1>1
  <2> QED  BY <2>1, PartIs
<1>4. r = (a \o <<x>>) \o b
  BY <1>1 DEF InsertAt
<1> HIDE DEF a, b, r
<1>5. /\ Listed(a) /\ Len(a) = k /\ \A i \in 1 .. k : a[i] = s[i]
  BY <1>1, <1>2 DEF Part
<1>6. /\ Listed(b) /\ Len(b) = Len(s) - k /\ \A i \in 1 .. Len(s) - k : b[i] = s[k + i]
  BY <1>1, <1>3 DEF Part
<1>7. Around(a, x, b, r)
  BY <1>4, <1>5, <1>6, AroundIs
<1>8. Listed(r) /\ Len(r) = Len(s) + 1 /\ (\A i \in 1 .. k : r[i] = s[i]) /\ r[k + 1] = x
  BY <1>1, <1>5, <1>6, <1>7 DEF Around
<1>9. ASSUME NEW i \in k + 1 .. Len(s) PROVE r[i + 1] = s[i]
  <2>1. i - k \in 1 .. Len(s) - k /\ k + (i - k) = i /\ k + 1 + (i - k) = i + 1
    BY <1>1
  <2>2. r[Len(a) + 1 + (i - k)] = b[i - k]
    BY <1>5, <1>6, <1>7, <2>1 DEF Around
  <2>3. b[i - k] = s[k + (i - k)]
    BY <1>6, <2>1
  <2> QED  BY <1>5, <2>1, <2>2, <2>3
<1> QED  BY <1>8, <1>9 DEF Put, r

(* An item and the child at its right put at the position p of a node.     *)
PutIn(n, p, x, child, all) ==
  /\ Put(n.items, p, x, all.items)
  /\ child = <<>> => all.children = n.children
  /\ child # <<>> => Put(n.children, p + 1, Head(child), all.children)

LEMMA WithItemIs ==
  ASSUME NEW lt, NEW n, Sorted(lt, n.items), NEW x \in Values, NEW p \in 0 .. Len(n.items),
         Between(lt, n.items, p + 1, x), NEW child,
         child # <<>> => Listed(n.children) /\ Len(n.children) = Len(n.items) + 1
  PROVE  PutIn(n, p, x, child, WithItem(lt, n, x, child))
<1> DEFINE I == n.items
           C == n.children
           all == WithItem(lt, n, x, child)
           Is(i) == /\ i # 0 => Lesser(lt, I[i], x)
                    /\ \A j \in i + 1 .. Len(I) : ~Lesser(lt, I[j], x)
           k == CHOOSE i \in 0 .. Len(I) : Is(i)
           D == IF child = <<>> THEN C ELSE InsertAt(C, k + 2, Head(child))
<1>1. Listed(I) /\ Len(I) \in Nat /\ \A i \in 1 .. Len(I) : I[i] \in Values
  BY DEF Sorted, Listed
<1>2. \A i \in 1 .. Len(I) : IF p + 1 <= i THEN Lesser(lt, x, I[i]) ELSE Lesser(lt, I[i], x)
  BY DEF Between
<1>3. all = [items |-> InsertAt(I, k + 1, x), children |-> D]
  BY DEF WithItem, NbItems
<1>4. Is(p)
  <2>1. ASSUME p # 0 PROVE Lesser(lt, I[p], x)
    <3>1. p \in 1 .. Len(I) /\ ~ (p + 1 <= p)
      BY <1>1, <2>1
    <3> QED  BY <1>2, <3>1
  <2>2. ASSUME NEW j \in p + 1 .. Len(I) PROVE ~Lesser(lt, I[j], x)
    <3>1. j \in 1 .. Len(I) /\ p + 1 <= j
      BY <1>1
    <3>2. Lesser(lt, x, I[j])
      BY <1>2, <3>1
    <3> QED  BY <1>1, <3>1, <3>2, LesserOrder
  <2> QED  BY <2>1, <2>2
<1>5. k \in 0 .. Len(I) /\ Is(k)
  <2> HIDE DEF Is
  <2> QED  BY <1>4, Zenon
<1> HIDE DEF k, D, all
<1>6. k = p
  <2>1. ASSUME k < p PROVE FALSE
    <3>1. p \in k + 1 .. Len(I) /\ p # 0
      BY <1>1, <1>5, <2>1
    <3> QED  BY <1>4, <1>5, <3>1
  <2>2. ASSUME p < k PROVE FALSE
    <3>1. k \in p + 1 .. Len(I) /\ k # 0
      BY <1>1, <1>5, <2>2
    <3> QED  BY <1>4, <1>5, <3>1
  <2> QED  BY <1>1, <1>5, <2>1, <2>2
<1>7. all.items = InsertAt(I, p + 1, x) /\ all.children = D
  BY <1>3, <1>6
<1>8. Put(I, p, x, all.items)
  BY <1>1, <1>7, PutIs
<1>9. child # <<>> => Put(C, p + 1, Head(child), all.children)
  <2> SUFFICES ASSUME child # <<>> PROVE Put(C, p + 1, Head(child), all.children)
    OBVIOUS
  <2>1. all.children = InsertAt(C, (p + 1) + 1, Head(child))
    <3>1. k + 2 = (p + 1) + 1
      BY <1>1, <1>6
    <3> QED  BY <1>7, <3>1 DEF D
  <2>2. p + 1 \in 0 .. Len(C)
    BY <1>1
  <2> QED  BY <2>1, <2>2, PutIs
<1>a. child = <<>> => all.children = C
  BY <1>7 DEF D
<1>b. PutIn(n, p, x, child, all)
  BY <1>8, <1>9, <1>a, Zenon DEF PutIn
<1> QED  BY <1>b DEF all

(***************************************************************************)
(* What an addition makes of a node of s elements and b items, or of it    *)
(* and a new node at its right: they hold S.                               *)
(***************************************************************************)
Whole(d, lt, S, s, b, h, a) ==
  /\ a.right = <<>> /\ Tree(d, lt, a.left, h) /\ Within(a.left, h) = S
  /\ a.left.size = s + 1 /\ Len(a.left.items) >= b

Halves(d, lt, S, s, h, a, r) ==
  /\ a.right = <<r>> /\ Tree(d, lt, a.left, h) /\ Tree(d, lt, r, h)
  /\ Len(a.left.items) >= d /\ Len(r.items) >= d
  /\ a.median \in Values /\ Ordered(lt, Within(a.left, h), a.median, Within(r, h))
  /\ S = AtPivot(a.median, a.left, r, h)
  /\ a.left.size + r.size = s

Grown(d, lt, S, s, b, h, a) ==
  Whole(d, lt, S, s, b, h, a) \/ \E r : Halves(d, lt, S, s, h, a, r)

(* The two halves of a row that is too long by one item.                   *)
LEMMA SplitItems ==
  ASSUME NEW d \in Nat, d >= 1, NEW I, Listed(I), Len(I) = 2 * d + 1,
         NEW I1, NEW I2, Part(I, 1, d, I1), Part(I, d + 2, 2 * d + 1, I2)
  PROVE  Around(I1, I[d + 1], I2, I) /\ Listed(I1) /\ Listed(I2) /\ Len(I1) = d /\ Len(I2) = d
<1>1. Listed(I1) /\ Len(I1) = (d - 1) + 1 /\ \A i \in 1 .. (d - 1) + 1 : I1[i] = I[(1 + i) - 1]
  BY DEF Part
<1>2. Listed(I2) /\ Len(I2) = d /\ \A i \in 1 .. d : I2[i] = I[(d + 2 + i) - 1]
  BY DEF Part
<1>3. Len(I1) = d
  BY <1>1
<1>4. ASSUME NEW i \in 1 .. d PROVE I[i] = I1[i]
  <2>1. i \in 1 .. (d - 1) + 1 /\ (1 + i) - 1 = i
    OBVIOUS
  <2> QED  BY <1>1, <2>1
<1>5. ASSUME NEW i \in 1 .. d PROVE I[d + 1 + i] = I2[i]
  <2>1. (d + 2 + i) - 1 = d + 1 + i
    OBVIOUS
  <2> QED  BY <1>2, <2>1
<1>6. Len(I) = Len(I1) + 1 + Len(I2)
  BY <1>2, <1>3
<1> QED  BY <1>1, <1>2, <1>3, <1>4, <1>5, <1>6 DEF Around

LEMMA SplitKids ==
  ASSUME NEW d \in Nat, d >= 1, NEW C, Listed(C), Len(C) = 0 \/ Len(C) = 2 * d + 2,
         NEW C1, C1 = FirstOnes(d + 1, C), NEW C2, C2 = SubSeq(C, d + 2, Len(C))
  PROVE  Cat(C1, C2, C) /\ Listed(C1) /\ Listed(C2) /\ Len(C1) = (IF Len(C) = 0 THEN 0 ELSE d + 1)
<1>0. Part(C, 1, IF d + 1 <= Len(C) THEN d + 1 ELSE Len(C), C1) /\ Len(C) \in Nat
  <2>1. d + 1 \in Nat
    OBVIOUS
  <2> QED  BY <2>1, FirstOnesIs DEF Listed
<1>1. CASE Len(C) = 0
  <2>1. Listed(C1) /\ Len(C1) = 0
    BY <1>0, <1>1 DEF Part
  <2>2. Listed(C2) /\ Len(C2) = 0
    <3> DEFINE none == <<>>
    <3>1. Listed(none) /\ Len(none) = 0
      BY ListedNone
    <3>2. C = none
      BY <1>1, ListedEmpty
    <3>3. C2 = none
      BY <1>1, <3>2
    <3> HIDE DEF none
    <3> QED  BY <3>1, <3>3
  <2>3. Cat(C1, C2, C)
    BY <1>1, <2>1, <2>2 DEF Cat
  <2> QED  BY <1>1, <2>1, <2>2, <2>3
<1>2. CASE Len(C) = 2 * d + 2
  <2>1. Part(C, 1, d + 1, C1)
    <3>1. (IF d + 1 <= Len(C) THEN d + 1 ELSE Len(C)) = d + 1
      BY <1>2
    <3> QED  BY <1>0, <3>1
  <2>2. Part(C, d + 2, 2 * d + 2, C2)
    <3>1. d + 2 \in 1 .. Len(C) + 1 /\ 2 * d + 2 \in (d + 2) - 1 .. Len(C)
      BY <1>2
    <3>2. Part(C, d + 2, 2 * d + 2, SubSeq(C, d + 2, 2 * d + 2))
      BY <3>1, PartIs
    <3> QED  BY <1>2, <3>2
  <2>3. Listed(C1) /\ Len(C1) = d + 1
    BY <2>1 DEF Part
  <2>4. Listed(C2) /\ Len(C2) = d + 1
    BY <2>2 DEF Part
  <2>5. ASSUME NEW i \in 1 .. d + 1 PROVE C[i] = C1[i] /\ C[d + 1 + i] = C2[i]
    <3>1. i \in 1 .. ((d + 1) - 1) + 1 /\ (1 + i) - 1 = i /\ i \in 1 .. ((2 * d + 2) - (d + 2)) + 1 /\ (d + 2 + i) - 1 = d + 1 + i
      OBVIOUS
    <3>2. C1[i] = C[(1 + i) - 1] /\ C2[i] = C[(d + 2 + i) - 1]
      BY <2>1, <2>2, <3>1, Zenon DEF Part
    <3> QED  BY <3>1, <3>2
  <2>6. Len(C) = Len(C1) + Len(C2)
    BY <1>2, <2>3, <2>4
  <2>7. Cat(C1, C2, C)
    BY <2>3, <2>4, <2>5, <2>6 DEF Cat
  <2> QED  BY <1>2, <2>3, <2>4, <2>7
<1> QED  BY <1>1, <1>2

SplitInto(d, lt, I1, C1, x, I2, C2, I, C, h) ==
  Parted(d, lt, I1, C1, x, I2, C2, I, C, h) /\ Len(I1) = d /\ Len(I2) = d

LEMMA SplitParts ==
  ASSUME NEW d \in Nat, d >= 1, NEW lt, NEW I, NEW C, NEW h, Row(d, lt, I, C, h), Full(d, C),
         Len(I) = 2 * d + 1
  PROVE  SplitInto(d, lt, SubSeq(I, 1, d), FirstOnes(d + 1, C), I[d + 1],
                   SubSeq(I, d + 2, 2 * d + 1), SubSeq(C, d + 2, Len(C)), I, C, h)
<1> DEFINE I1 == SubSeq(I, 1, d)
           I2 == SubSeq(I, d + 2, 2 * d + 1)
           C1 == FirstOnes(d + 1, C)
           C2 == SubSeq(C, d + 2, Len(C))
<1>1. /\ h \in Nat /\ Listed(I) /\ Listed(C) /\ Len(C) = NbKids(I, h)
  BY DEF Row, Arranged
<1>2. Part(I, 1, d, I1) /\ Part(I, d + 2, 2 * d + 1, I2)
  <2>1. /\ 1 \in 1 .. Len(I) + 1 /\ d \in 1 - 1 .. Len(I)
        /\ d + 2 \in 1 .. Len(I) + 1 /\ 2 * d + 1 \in (d + 2) - 1 .. Len(I)
    OBVIOUS
  <2> QED  BY <1>1, <2>1, PartIs
<1>3. Len(C) = IF h = 0 THEN 0 ELSE 2 * d + 2
  BY <1>1 DEF NbKids
<1>4. Cat(C1, C2, C) /\ Listed(C1) /\ Listed(C2) /\ Len(C1) = (IF Len(C) = 0 THEN 0 ELSE d + 1)
  <2>1. Len(C) = 0 \/ Len(C) = 2 * d + 2
    BY <1>3
  <2> QED  BY <1>1, <2>1, SplitKids
<1> HIDE DEF I1, I2, C1, C2
<1>5. Around(I1, I[d + 1], I2, I) /\ Listed(I1) /\ Listed(I2) /\ Len(I1) = d /\ Len(I2) = d
  BY <1>1, <1>2, SplitItems
<1>6. Len(C1) = NbKids(I1, h)
  BY <1>3, <1>4, <1>5 DEF NbKids
<1>7. Divided(I1, C1, I[d + 1], I2, C2, I, C)
  BY <1>4, <1>5 DEF Divided
<1>8. Parted(d, lt, I1, C1, I[d + 1], I2, C2, I, C, h)
  BY <1>4, <1>5, <1>6, <1>7, CutRow
<1> QED  BY <1>5, <1>8 DEF SplitInto, I1, I2, C1, C2

LEMMA AddToNodeGrows ==
  ASSUME NEW d, Half(M, d), NEW lt, NEW n, NEW v, NEW child, NEW h,
         NEW all, all = WithItem(lt, n, v, child),
         Row(d, lt, all.items, all.children, h), Full(d, all.children),
         Len(n.items) \in Nat, Len(all.items) = Len(n.items) + 1, Len(n.items) <= 2 * d,
         n.size \in Nat, n.size + 1 = Len(all.items) + SizeOf(all.children)
  PROVE  Grown(d, lt, Held(all.items, all.children, h), n.size, Len(n.items), h,
               AddToNode(lt, n, v, child))
<1> DEFINE I == all.items
           C == all.children
           s == n.size
           a == AddToNode(lt, n, v, child)
<1>0. d \in Nat /\ d >= 1 /\ M = 2 * d + 1 /\ (M - 1) \div 2 = d /\ M - 1 = 2 * d
  BY HalfFacts
<1>1. h \in Nat /\ SizeOf(C) \in Nat /\ s \in Nat
  BY RowSized DEF Row, Arranged
<1>2. a = IF Len(n.items) < M - 1
          THEN [left |-> Node(I, C, s + 1), median |-> v, right |-> <<>>]
          ELSE Split(lt, n, v, child)
  BY DEF AddToNode, NbItems
<1> SUFFICES Grown(d, lt, Held(I, C, h), s, Len(n.items), h, a)
  OBVIOUS
<1> HIDE DEF a
<1>3. CASE Len(n.items) < M - 1
  <2> DEFINE left == Node(I, C, s + 1)
  <2>1. a.left = left /\ a.right = <<>>
    BY <1>2, <1>3
  <2>2. Tree(d, lt, left, h) /\ Within(left, h) = Held(I, C, h)
    <3>1. Len(I) <= 2 * d /\ s + 1 = Len(I) + SizeOf(C)
      BY <1>0, <1>3
    <3> QED  BY <3>1, TreeMake
  <2>3. left.size = s + 1 /\ left.items = I
    BY NodeFields
  <2> HIDE DEF left
  <2>4. Len(left.items) >= Len(n.items)
    BY <2>3
  <2>5. Whole(d, lt, Held(I, C, h), s, Len(n.items), h, a)
    BY <2>1, <2>2, <2>3, <2>4 DEF Whole
  <2> QED  BY <2>5 DEF Grown
<1>4. CASE ~ (Len(n.items) < M - 1)
  <2> DEFINE I1 == SubSeq(I, 1, d)
             I2 == SubSeq(I, d + 2, 2 * d + 1)
             C1 == FirstOnes(d + 1, C)
             C2 == SubSeq(C, d + 2, Len(C))
             x  == I[d + 1]
             b  == d + SizeOf(C2)
             right == Node(I2, C2, b)
             e  == s - right.size
             left == Node(I1, C1, e)
  <2>1. a = [left |-> left, median |-> x, right |-> <<right>>]
    BY <1>0, <1>2, <1>4 DEF Split
  <2>2. a.left = left /\ a.median = x /\ a.right = <<right>>
    BY <2>1
  <2>3. Len(I) = 2 * d + 1
    BY <1>0, <1>4
  <2>4. Parted(d, lt, I1, C1, x, I2, C2, I, C, h) /\ Len(I1) = d /\ Len(I2) = d
    <3>1. SplitInto(d, lt, I1, C1, x, I2, C2, I, C, h)
      BY <1>0, <2>3, SplitParts
    <3> QED  BY <3>1 DEF SplitInto
  <2>5. right.size = b /\ right.items = I2 /\ left.items = I1 /\ left.size = e
    <3> HIDE DEF I1, I2, C1, C2, b, e
    <3> QED  BY NodeFields
  <2>6. /\ Row(d, lt, I1, C1, h) /\ Row(d, lt, I2, C2, h) /\ Full(d, C1) /\ Full(d, C2)
        /\ x \in Values /\ Ordered(lt, Held(I1, C1, h), x, Held(I2, C2, h))
        /\ Held(I, C, h) = Held(I1, C1, h) \cup {x} \cup Held(I2, C2, h)
        /\ SizeOf(C1) \in Nat /\ SizeOf(C2) \in Nat /\ SizeOf(C) = SizeOf(C1) + SizeOf(C2)
    BY <2>4 DEF Parted
  <2> HIDE DEF I1, I2, C1, C2, x
  <2>7. b = Len(I2) + SizeOf(C2)
    BY <2>4
  <2>8. e = Len(I1) + SizeOf(C1) /\ e + b = s
    <3>1. s + 1 = (2 * d + 1) + (SizeOf(C1) + SizeOf(C2))
      BY <2>3, <2>6
    <3>2. e = s - b
      BY <2>5
    <3>3. b = d + SizeOf(C2)
      OBVIOUS
    <3> HIDE DEF e, b
    <3> DEFINE k1 == SizeOf(C1)
               k2 == SizeOf(C2)
    <3>4. k1 \in Nat /\ k2 \in Nat /\ b = d + k2 /\ s + 1 = (2 * d + 1) + (k1 + k2)
      BY <2>6, <3>1, <3>3
    <3> HIDE DEF k1, k2, s
    <3>5. e = d + k1 /\ e + b = s
      BY <1>0, <1>1, <3>2, <3>4
    <3> QED  BY <2>4, <3>5 DEF k1
  <2> HIDE DEF e, b
  <2>9. Tree(d, lt, left, h) /\ Within(left, h) = Held(I1, C1, h)
    <3>1. Len(I1) <= 2 * d
      BY <1>0, <2>4
    <3> QED  BY <2>6, <2>8, <3>1, TreeMake
  <2>a. Tree(d, lt, right, h) /\ Within(right, h) = Held(I2, C2, h)
    <3>1. Len(I2) <= 2 * d
      BY <1>0, <2>4
    <3> QED  BY <2>6, <2>7, <3>1, TreeMake
  <2> HIDE DEF left, right
  <2>b. Len(left.items) >= d /\ Len(right.items) >= d /\ left.size + right.size = s
    BY <1>0, <2>4, <2>5, <2>8
  <2>c. Held(I, C, h) = AtPivot(x, left, right, h)
    BY <2>6, <2>9, <2>a DEF AtPivot
  <2>d. Halves(d, lt, Held(I, C, h), s, h, a, right)
    BY <2>2, <2>6, <2>9, <2>a, <2>b, <2>c DEF Halves
  <2> QED  BY <2>d DEF Grown
<1> QED  BY <1>3, <1>4

LEMMA GrowLeaf ==
  ASSUME NEW d, Half(M, d), NEW lt, NEW n, Tree(d, lt, n, 0), NEW v \in Values,
         NEW p \in 0 .. Len(n.items), Between(lt, n.items, p + 1, v)
  PROVE  Grown(d, lt, Within(n, 0) \cup {v}, n.size, Len(n.items), 0, AddToNode(lt, n, v, <<>>))
<1> DEFINE all == WithItem(lt, n, v, <<>>)
           I == n.items
           C == n.children
<1>1. /\ Row(d, lt, I, C, 0) /\ Full(d, C) /\ Within(n, 0) = Held(I, C, 0)
  BY TreeUnfold
<1>2. /\ Len(I) \in Nat /\ Len(I) <= 2 * d /\ n.size \in Nat /\ n.size = Len(I) + SizeOf(C)
  BY TreeFacts
<1>3. Arranged(lt, I, C, 0) /\ Len(C) = 0 /\ Sorted(lt, I)
  BY <1>1 DEF Row, Arranged, NbKids, Sorted
<1>4. PutIn(n, p, v, <<>>, all)
  BY <1>3, WithItemIs
<1>5. Put(I, p, v, all.items) /\ all.children = C
  BY <1>4 DEF PutIn
<1> HIDE DEF all, I, C
<1>6. Arranged(lt, all.items, C, 0) /\ Held(all.items, C, 0) = Held(I, C, 0) \cup {v}
  <2>1. p \in 0 .. Len(I) /\ Between(lt, I, p + 1, v)
    BY DEF I
  <2> QED  BY <1>3, <1>5, <2>1, PutArranged
<1>7. Row(d, lt, all.items, all.children, 0) /\ Full(d, all.children)
  BY <1>1, <1>3, <1>5, <1>6 DEF Row
<1>8. Len(all.items) = Len(I) + 1
  BY <1>5 DEF Put
<1>9. n.size + 1 = Len(all.items) + SizeOf(all.children)
  <2>1. SizeOf(C) \in Nat
    BY <1>1, RowSized
  <2> QED  BY <1>2, <1>5, <1>8, <2>1
<1>a. Grown(d, lt, Held(all.items, all.children, 0), n.size, Len(n.items), 0, AddToNode(lt, n, v, <<>>))
  BY <1>2, <1>7, <1>8, <1>9, AddToNodeGrows DEF all, I
<1> QED  BY <1>1, <1>5, <1>6, <1>a

(* A child of a row replaced by a node of as many elements more.           *)
LEMMA ReplacedSize ==
  ASSUME NEW C, NEW D, Sized(C), NEW q \in 1 .. Len(C), NEW b, b.size \in Nat, With(C, q, b, D)
  PROVE  /\ Sized(D) /\ SizeOf(C) \in Nat /\ SizeOf(D) \in Nat
         /\ SizeOf(D) + C[q].size = SizeOf(C) + b.size
<1>0. Listed(C) /\ Len(C) \in Nat /\ \A i \in 1 .. Len(C) : C[i].size \in Nat
  BY DEF Sized, Listed
<1>1. Listed(D) /\ Len(D) = Len(C) /\ \A i \in 1 .. Len(C) : D[i] = IF i = q THEN b ELSE C[i]
  BY DEF With
<1>2. Sized(D)
  BY <1>0, <1>1 DEF Sized
<1>3. q - 1 \in Nat /\ q \in 0 .. Len(C) /\ q - 1 \in 0 .. Len(C) /\ (q - 1) + 1 = q
  BY <1>0
<1>4. Spliced(C, D, q - 1, 1, 1)
  <2>1. \A i \in 1 .. q - 1 : D[i] = C[i]
    BY <1>0, <1>1
  <2>2. ASSUME NEW i \in 1 .. Len(C) - ((q - 1) + 1) PROVE D[((q - 1) + 1) + i] = C[((q - 1) + 1) + i]
    <3>1. ((q - 1) + 1) + i = q + i /\ q + i \in 1 .. Len(C) /\ q + i # q
      BY <1>0
    <3> QED  BY <1>1, <3>1
  <2> QED  BY <1>0, <1>1, <2>1, <2>2 DEF Spliced
<1>5. Sum(D, q - 1) = Sum(C, q - 1) /\ SizeOf(D) + Sum(C, (q - 1) + 1) = SizeOf(C) + Sum(D, (q - 1) + 1)
  BY <1>2, <1>3, <1>4, SizeSpliced
<1>6. Sum(C, q) = Sum(C, q - 1) + C[q].size /\ Sum(D, q) = Sum(D, q - 1) + D[q].size
  BY <1>0, <1>1, SumFacts
<1>7. Sum(C, q - 1) \in Nat /\ C[q].size \in Nat /\ D[q] = b
  BY <1>0, <1>1, <1>3, SumNat
<1>8. SizeOf(C) \in Nat /\ SizeOf(D) \in Nat
  BY <1>2, SizeNat
<1> DEFINE t == Sum(C, q - 1)
           e == C[q].size
           y == b.size
           all == SizeOf(C)
           new == SizeOf(D)
<1>9. t \in Nat /\ e \in Nat /\ y \in Nat /\ all \in Nat /\ new \in Nat
  BY <1>7, <1>8
<1>a. new + (t + e) = all + (t + y)
  <2>1. new + Sum(C, q) = all + Sum(D, q)
    BY <1>3, <1>5
  <2>2. Sum(C, q) = t + e /\ Sum(D, q) = t + y
    BY <1>5, <1>6, <1>7
  <2> QED  BY <2>1, <2>2
<1> HIDE DEF t, e, y, all, new
<1>b. new + e = all + y
  BY <1>9, <1>a
<1> QED  BY <1>2, <1>8, <1>b DEF e, y, all, new

(* A child of a row opened in two.                                         *)
LEMMA OpenedSize ==
  ASSUME NEW C, NEW D, Sized(C), Sized(D), NEW k \in 0 .. Len(C) - 1, NEW l, NEW r, Opened(C, k, l, r, D),
         NEW q, q = k + 1
  PROVE  /\ SizeOf(C) \in Nat /\ SizeOf(D) \in Nat /\ l.size \in Nat /\ r.size \in Nat /\ C[q].size \in Nat
         /\ SizeOf(D) + C[q].size = SizeOf(C) + l.size + r.size
<1>0. Listed(C) /\ Len(C) \in Nat /\ Listed(D) /\ Len(D) = Len(C) + 1
  BY DEF Sized, Listed, Opened
<1>1. k \in Nat /\ q \in 1 .. Len(C) /\ k + 1 \in 1 .. Len(D) /\ k + 2 \in 1 .. Len(D) /\ k \in 0 .. Len(C)
  BY <1>0
<1>2. Spliced(C, D, k, 1, 2)
  <2>1. ASSUME NEW i \in 1 .. Len(C) - (k + 1) PROVE D[(k + 2) + i] = C[(k + 1) + i]
    <3>1. (k + 1) + i \in k + 2 .. Len(C) /\ ((k + 1) + i) + 1 = (k + 2) + i
      BY <1>0, <1>1
    <3> QED  BY <3>1 DEF Opened
  <2>2. \A i \in 1 .. k : D[i] = C[i]
    BY DEF Opened
  <2> QED  BY <1>0, <1>1, <2>1, <2>2 DEF Spliced
<1>3. Sum(D, k) = Sum(C, k) /\ SizeOf(D) + Sum(C, k + 1) = SizeOf(C) + Sum(D, k + 2)
  BY <1>1, <1>2, SizeSpliced
<1>4. Sum(C, k + 1) = Sum(C, k) + C[k + 1].size
  BY <1>0, <1>1, SumStep
<1>5. Sum(D, k + 1) = Sum(D, k) + D[k + 1].size /\ Sum(D, k + 2) = Sum(D, k + 1) + D[k + 2].size
  <2>1. k \in 0 .. Len(D) - 1 /\ k + 1 \in 0 .. Len(D) - 1 /\ (k + 1) + 1 = k + 2
    BY <1>0, <1>1
  <2>2. Sum(D, (k + 1) + 1) = Sum(D, k + 1) + D[(k + 1) + 1].size
    BY <1>0, <2>1, SumStep
  <2> QED  BY <1>0, <2>1, <2>2, SumStep
<1>6. D[k + 1] = l /\ D[k + 2] = r
  BY DEF Opened
<1>7. l.size \in Nat /\ r.size \in Nat /\ C[q].size \in Nat
  BY <1>1, <1>6 DEF Sized
<1>8. SizeOf(C) \in Nat /\ SizeOf(D) \in Nat /\ Sum(C, k) \in Nat
  BY <1>0, <1>1, SizeNat, SumNat
<1> DEFINE t == Sum(C, k)
           e == C[q].size
           y == l.size
           z == r.size
           all == SizeOf(C)
           new == SizeOf(D)
<1>9. t \in Nat /\ e \in Nat /\ y \in Nat /\ z \in Nat /\ all \in Nat /\ new \in Nat
  BY <1>7, <1>8
<1>a. new + (t + e) = all + ((t + y) + z)
  <2>1. Sum(C, k + 1) = t + e
    BY <1>4
  <2>2. Sum(D, k + 1) = t + y
    BY <1>3, <1>5, <1>6
  <2>3. Sum(D, k + 2) = (t + y) + z
    BY <1>5, <1>6, <2>2
  <2> QED  BY <1>3, <2>1, <2>3
<1> HIDE DEF t, e, y, z, all, new
<1>b. new + e = all + y + z
  BY <1>9, <1>a
<1> QED  BY <1>7, <1>8, <1>b DEF e, y, z, all, new

(***************************************************************************)
(* A node of which the child p has become one or two.                      *)
(***************************************************************************)
LEMMA GrowWhole ==
  ASSUME NEW d, Half(M, d), NEW lt, NEW n, NEW h \in Nat, Tree(d, lt, n, h), h # 0,
         NEW p \in 0 .. Len(n.items), NEW v \in Values, Between(lt, n.items, p + 1, v),
         NEW q, q = p + 1, NEW g, g = h - 1, NEW c, c = n.children[q], NEW a,
         Whole(d, lt, Within(c, g) \cup {v}, c.size, Len(c.items), g, a),
         NEW D, With(n.children, q, a.left, D), NEW s, s = n.size + 1
  PROVE  /\ Tree(d, lt, Node(n.items, D, s), h)
         /\ Both(Within(n, h), {v}, Within(Node(n.items, D, s), h))
<1> DEFINE I == n.items
           C == n.children
           b == a.left
<1>0. d \in Nat /\ d >= 1 /\ M = 2 * d + 1
  BY HalfFacts
<1>1. Row(d, lt, I, C, h) /\ Full(d, C) /\ Within(n, h) = Held(I, C, h)
  BY TreeUnfold
<1>2. Listed(I) /\ Len(I) \in Nat /\ Len(I) <= 2 * d /\ n.size = Len(I) + SizeOf(C) /\ Len(C) = NbKids(I, h)
  BY TreeFacts
<1>3. q \in 1 .. Len(C)
  BY <1>2 DEF NbKids
<1>4. /\ g \in Nat /\ Tree(d, lt, c, g) /\ Len(c.items) >= d
      /\ \A x \in Within(c, g) : Between(lt, I, q, x)
  BY <1>3, ChildTree
<1>5. /\ Tree(d, lt, b, g) /\ Within(b, g) = Within(c, g) \cup {v} /\ b.size = c.size + 1
      /\ Len(b.items) >= Len(c.items)
  BY DEF Whole
<1>6. Len(b.items) \in Nat /\ b.size \in Nat /\ Within(b, g) \subseteq Values /\ Len(c.items) \in Nat /\ c.size \in Nat
  BY <1>4, <1>5, TreeFacts
<1>7. Arranged(lt, I, C, h)
  BY <1>1 DEF Row
<1> HIDE DEF I, C, b
<1>8. Arranged(lt, I, D, h)
  <2>1. With(C, q, b, D) /\ Within(b, h - 1) \subseteq Values
    BY <1>6 DEF C, b
  <2>2. \A y \in Within(b, h - 1) : Between(lt, I, q, y)
    BY <1>4, <1>5 DEF I
  <2> QED  BY <1>3, <1>7, <2>1, <2>2, ReplaceArranged
<1>9. Held(I, D, h) = Held(I, C, h) \cup {v}
  <2>1. With(C, q, b, D) /\ Both(Within(C[q], h - 1), {v}, Within(b, h - 1))
    BY <1>5 DEF C, b, Both
  <2>2. Both(Held(I, C, h), {v}, Held(I, D, h))
    BY <1>3, <2>1, ReplaceAdd
  <2> QED  BY <2>2, Zenon DEF Both
<1>a. ASSUME NEW i \in 1 .. Len(D) PROVE Tree(d, lt, D[i], h - 1) /\ Len(D[i].items) >= d
  <2>1. i \in 1 .. Len(C) /\ D[i] = IF i = q THEN b ELSE C[i]
    BY DEF With, C, b
  <2>2. CASE i = q
    <3>1. Len(b.items) >= d
      BY <1>0, <1>4, <1>5, <1>6, SMTT(30)
    <3> QED  BY <1>5, <2>1, <2>2, <3>1
  <2>3. CASE i # q
    BY <1>1, <2>1, <2>3 DEF Row, Full
  <2> QED  BY <2>2, <2>3
<1>b. Row(d, lt, I, D, h) /\ Full(d, D)
  BY <1>8, <1>a DEF Row, Full
<1>c. s = Len(I) + SizeOf(D)
  <2>1. Sized(C)
    BY <1>1, RowSized
  <2>2. SizeOf(C) \in Nat /\ SizeOf(D) \in Nat /\ SizeOf(D) + C[q].size = SizeOf(C) + b.size
    <3>1. With(C, q, b, D) /\ b.size \in Nat
      BY <1>6 DEF C, b
    <3> QED  BY <1>3, <2>1, <3>1, ReplacedSize, ZenonT(40)
  <2>3. C[q].size = c.size
    BY DEF C
  <2> DEFINE i == Len(I)
             was == SizeOf(C)
             new == SizeOf(D)
             e == c.size
  <2>4. i \in Nat /\ was \in Nat /\ new \in Nat /\ e \in Nat
    BY <1>2, <1>6, <2>2
  <2>5. new + e = was + (e + 1)
    BY <1>5, <2>2, <2>3
  <2>6. s = (i + was) + 1
    BY <1>2
  <2> HIDE DEF i, was, new, e
  <2>7. s = i + new
    BY <2>4, <2>5, <2>6
  <2> QED  BY <2>7 DEF i, new
<1>d. Tree(d, lt, Node(I, D, s), h) /\ Within(Node(I, D, s), h) = Held(I, D, h)
  BY <1>2, <1>b, <1>c, TreeMake
<1> QED  BY <1>1, <1>9, <1>d DEF I, Both

LEMMA GrowHalves ==
  ASSUME NEW d, Half(M, d), NEW lt, NEW n, NEW h \in Nat, Tree(d, lt, n, h), h # 0,
         NEW p \in 0 .. Len(n.items), NEW v \in Values, Between(lt, n.items, p + 1, v),
         NEW q, q = p + 1, NEW g, g = h - 1, NEW c, c = n.children[q], NEW a, NEW r,
         Halves(d, lt, Within(c, g) \cup {v}, c.size, g, a, r),
         NEW D, With(n.children, q, a.left, D)
  PROVE  Grown(d, lt, Within(n, h) \cup {v}, n.size, Len(n.items), h,
               AddToNode(lt, Node(n.items, D, n.size), a.median, <<r>>))
<1> DEFINE I == n.items
           C == n.children
           l == a.left
           x == a.median
           here == Node(I, D, n.size)
           all == WithItem(lt, here, x, <<r>>)
           J == all.items
           E == all.children
<1>0. d \in Nat /\ d >= 1 /\ M = 2 * d + 1
  BY HalfFacts
<1>1. Row(d, lt, I, C, h) /\ Full(d, C) /\ Within(n, h) = Held(I, C, h)
  BY TreeUnfold
<1>2. /\ Listed(I) /\ Len(I) \in Nat /\ Len(I) <= 2 * d /\ n.size = Len(I) + SizeOf(C) /\ n.size \in Nat
      /\ Listed(C) /\ Len(C) = Len(I) + 1
  BY TreeFacts DEF NbKids
<1>3. q \in 1 .. Len(C) /\ q \in Nat /\ p \in Nat
  BY <1>2
<1>4. /\ g \in Nat /\ Tree(d, lt, c, g)
      /\ \A y \in Within(c, g) : Between(lt, I, q, y)
  BY <1>3, ChildTree
<1>5. /\ Tree(d, lt, l, g) /\ Tree(d, lt, r, g) /\ Len(l.items) >= d /\ Len(r.items) >= d
      /\ x \in Values /\ Ordered(lt, Within(l, g), x, Within(r, g))
      /\ Within(c, g) \cup {v} = AtPivot(x, l, r, g) /\ l.size + r.size = c.size
  BY DEF Halves
<1>6. /\ Within(l, g) \subseteq Values /\ Within(r, g) \subseteq Values
      /\ l.size \in Nat /\ r.size \in Nat /\ c.size \in Nat
  BY <1>4, <1>5, TreeFacts
<1>7. Arranged(lt, I, C, h) /\ Sorted(lt, I)
  BY <1>1 DEF Row, Arranged, Sorted
<1>8. /\ Listed(D) /\ Len(D) = Len(C) /\ D[q] = l /\ \A i \in 1 .. Len(C) : i # q => D[i] = C[i]
  BY <1>3 DEF With
<1>9. \A y \in AtPivot(x, l, r, g) : Between(lt, I, q, y)
  BY <1>4, <1>5
<1>a. x \in AtPivot(x, l, r, g)
  BY DEF AtPivot
<1>h. here.items = I /\ here.children = D /\ here.size = n.size
  BY NodeFields
<1>b. PutIn(here, p, x, <<r>>, all)
  <2>1. <<r>> # <<>> /\ Listed(here.children) /\ Len(here.children) = Len(here.items) + 1
    BY <1>2, <1>8, <1>h
  <2>2. Sorted(lt, here.items) /\ p \in 0 .. Len(here.items) /\ Between(lt, here.items, p + 1, x)
    BY <1>7, <1>9, <1>a, <1>h
  <2> HIDE DEF here
  <2> QED  BY <1>5, <2>1, <2>2, WithItemIs
<1>c. Put(I, p, x, J) /\ Put(D, q, r, E)
  <2>1. <<r>> # <<>> /\ Head(<<r>>) = r
    OBVIOUS
  <2> QED  BY <1>b, <1>h, <2>1 DEF PutIn
<1> HIDE DEF I, C, l, x, all, J, E, here
<1>d. Opened(C, p, l, r, E)
  <2>1. Listed(E) /\ Len(E) = Len(C) + 1 /\ (\A i \in 1 .. q : E[i] = D[i]) /\ E[q + 1] = r
        /\ \A i \in q + 1 .. Len(D) : E[i + 1] = D[i]
    BY <1>8, <1>c DEF Put
  <2>2. \A i \in 1 .. p : E[i] = C[i]
    BY <1>2, <1>3, <1>8, <2>1
  <2>3. E[p + 1] = l /\ E[p + 2] = r
    BY <1>3, <1>8, <2>1
  <2>4. \A i \in p + 2 .. Len(C) : E[i + 1] = C[i]
    BY <1>2, <1>3, <1>8, <2>1
  <2> QED  BY <2>1, <2>2, <2>3, <2>4 DEF Opened
<1>e. Arranged(lt, J, E, h)
  <2>1. Within(l, h - 1) \subseteq Values /\ Within(r, h - 1) \subseteq Values
    BY <1>6
  <2>2. \A y \in AtPivot(x, l, r, h - 1) : Between(lt, I, p + 1, y)
    BY <1>9 DEF I
  <2>3. (\A y \in Within(l, h - 1) : Lesser(lt, y, x)) /\ (\A y \in Within(r, h - 1) : Lesser(lt, x, y))
    BY <1>5 DEF Ordered
  <2>4. p \in 0 .. Len(I)
    BY DEF I
  <2> QED  BY <1>5, <1>7, <1>c, <1>d, <2>1, <2>2, <2>3, <2>4, OpenArranged
<1>f. Held(J, E, h) = Held(I, C, h) \cup {v}
  <2>1. AtPivot(x, l, r, h - 1) = Within(C[p + 1], h - 1) \cup {v} /\ p + 1 <= Len(C) /\ p \in 0 .. Len(I)
    BY <1>2, <1>3, <1>5 DEF C, I
  <2>2. Listed(I) /\ Listed(C) /\ p \in 0 .. Len(I) /\ p + 1 <= Len(C)
    BY <1>2, <2>1 DEF I, C
  <2>3. Put(I, p, x, J) /\ Opened(C, p, l, r, E)
    BY <1>c, <1>d
  <2>4. Both(Within(C[p + 1], h - 1), {v}, AtPivot(x, l, r, h - 1))
    BY <2>1 DEF Both
  <2>5. Both(Held(I, C, h), {v}, Held(J, E, h))
    BY <2>2, <2>3, <2>4, OpenedHeld
  <2> QED  BY <2>5, Zenon DEF Both
<1>g. ASSUME NEW i \in 1 .. Len(E) PROVE Tree(d, lt, E[i], h - 1) /\ Len(E[i].items) >= d
  <2>1. OpenedCase(C, p, l, r, E, i)
    <3>1. p \in 0 .. Len(C) - 1 /\ Listed(C)
      BY <1>2, <1>3
    <3> QED  BY <1>d, <3>1, OpenedAt
  <2>2. CASE i \in 1 .. p /\ E[i] = C[i]
    <3>1. i \in 1 .. Len(C)
      BY <1>2, <1>3, <2>2
    <3> QED  BY <1>1, <2>2, <3>1 DEF Row, Full
  <2>3. CASE i > p + 2 /\ i - 1 \in p + 2 .. Len(C) /\ E[i] = C[i - 1]
    <3>1. i - 1 \in 1 .. Len(C)
      BY <1>2, <1>3, <2>3
    <3> QED  BY <1>1, <2>3, <3>1 DEF Row, Full
  <2> QED  BY <1>5, <2>1, <2>2, <2>3 DEF OpenedCase
<1>i. Row(d, lt, J, E, h) /\ Full(d, E)
  BY <1>e, <1>g DEF Row, Full
<1>j. Len(J) = Len(I) + 1
  BY <1>c DEF Put
<1>k. n.size + 1 = Len(J) + SizeOf(E)
  <2>1. Sized(C) /\ Sized(E)
    BY <1>1, <1>i, RowSized
  <2>2. p \in 0 .. Len(C) - 1
    BY <1>2, <1>3
  <2>3. /\ SizeOf(C) \in Nat /\ SizeOf(E) \in Nat
        /\ SizeOf(E) + C[q].size = SizeOf(C) + l.size + r.size
    BY <1>d, <2>1, <2>2, OpenedSize
  <2>4. C[q].size = c.size
    BY DEF C
  <2> DEFINE i == Len(I)
             was == SizeOf(C)
             new == SizeOf(E)
             y == l.size
             z == r.size
             s == n.size
  <2>5. i \in Nat /\ was \in Nat /\ new \in Nat /\ y \in Nat /\ z \in Nat /\ s \in Nat
    BY <1>2, <1>6, <2>3
  <2>6. new + (y + z) = was + y + z
    BY <1>5, <2>3, <2>4
  <2>7. s = i + was
    BY <1>2
  <2>8. Len(J) = i + 1
    BY <1>j
  <2> HIDE DEF i, was, new, y, z, s
  <2>9. s + 1 = Len(J) + new
    BY <2>5, <2>6, <2>7, <2>8
  <2> QED  BY <2>9 DEF s, new
<1>l. Grown(d, lt, Held(J, E, h), here.size, Len(here.items), h, AddToNode(lt, here, x, <<r>>))
  <2>1. /\ Row(d, lt, all.items, all.children, h) /\ Full(d, all.children)
        /\ Len(all.items) = Len(here.items) + 1 /\ Len(here.items) <= 2 * d /\ Len(here.items) \in Nat
        /\ here.size \in Nat /\ here.size + 1 = Len(all.items) + SizeOf(all.children)
    BY <1>2, <1>h, <1>i, <1>j, <1>k DEF J, E
  <2>2. all = WithItem(lt, here, x, <<r>>)
    BY DEF all
  <2> QED  BY <2>1, <2>2, AddToNodeGrows DEF J, E
<1>m. Grown(d, lt, Within(n, h) \cup {v}, n.size, Len(I), h, AddToNode(lt, here, x, <<r>>))
  BY <1>1, <1>f, <1>h, <1>l
<1> QED  BY <1>m DEF I, here, x

(* The children of a node of a way, and what becomes of it.               *)
LEMMA TurnFacts ==
  ASSUME NEW d, NEW lt, NEW n, NEW h \in Nat, Tree(d, lt, n, h), h # 0,
         NEW p \in 0 .. Len(n.items), NEW q, q = p + 1
  PROVE  /\ n = Node(n.items, n.children, n.size) /\ Listed(n.children) /\ q \in 1 .. Len(n.children)
         /\ n.size \in Nat /\ Len(n.items) \in Nat
<1>1. /\ n = Node(n.items, n.children, n.size) /\ Listed(n.children)
      /\ n.size \in Nat /\ Len(n.items) \in Nat /\ Len(n.children) = NbKids(n.items, h)
  BY TreeFacts
<1>2. Len(n.children) = Len(n.items) + 1
  BY <1>1 DEF NbKids
<1>3. q \in 1 .. Len(n.items) + 1
  BY <1>1
<1> QED  BY <1>1, <1>2, <1>3

Given(C, q, l) == [C EXCEPT ![q] = l]

AddedTurn(lt, I, D, s, v, a) ==
  IF a.right = <<>> THEN [left |-> Node(I, D, s + 1), median |-> v, right |-> <<>>]
  ELSE AddToNode(lt, Node(I, D, s), a.median, a.right)

GivenChild(n, q, l) == [n EXCEPT !.children[q] = l]

OneMore(n) == [n EXCEPT !.size = @ + 1]

LEMMA GivenIs ==
  ASSUME NEW I, NEW C, NEW s, NEW q, NEW l
  PROVE  /\ GivenChild(Node(I, C, s), q, l) = Node(I, Given(C, q, l), s)
         /\ OneMore(Node(I, C, s)) = Node(I, C, s + 1)
BY DEF Node, GivenChild, Given, OneMore

LEMMA AddTurnIs ==
  ASSUME NEW lt, NEW w, NEW v, NEW k, NEW q, q = w.path[k] + 1, NEW a, NEW l, l = a.left,
         NEW I, NEW C, NEW s, w.nodes[k] = Node(I, C, s), NEW D, D = Given(C, q, l)
  PROVE  AddTurn(lt, w, v, k, a) = AddedTurn(lt, I, D, s, v, a)
<1>1. GivenChild(w.nodes[k], q, l) = Node(I, D, s)
  BY GivenIs
<1>2. OneMore(Node(I, D, s)) = Node(I, D, s + 1)
  BY GivenIs
<1> DEFINE here == GivenChild(w.nodes[k], q, l)
<1>3. AddTurn(lt, w, v, k, a) =
        IF a.right = <<>> THEN [left |-> OneMore(here), median |-> v, right |-> <<>>]
        ELSE AddToNode(lt, here, a.median, a.right)
  BY Zenon DEF AddTurn, GivenChild, OneMore
<1> QED  BY <1>1, <1>2, <1>3, Zenon DEF AddedTurn

(***************************************************************************)
(* A node of a way to which what its child has become is given.            *)
(***************************************************************************)
LEMMA GrowTurn ==
  ASSUME NEW d, Half(M, d), NEW lt, NEW n, NEW h \in Nat, Tree(d, lt, n, h), h # 0,
         NEW v \in Values, NEW w, NEW k, n = w.nodes[k],
         NEW p \in 0 .. Len(n.items), p = w.path[k], NEW q, q = p + 1, Between(lt, n.items, q, v),
         NEW g, g = h - 1, NEW c, c = n.children[q], NEW a,
         Grown(d, lt, Within(c, g) \cup {v}, c.size, Len(c.items), g, a)
  PROVE  Grown(d, lt, Within(n, h) \cup {v}, n.size, Len(n.items), h, AddTurn(lt, w, v, k, a))
<1> DEFINE D == Given(n.children, q, a.left)
           here == Node(n.items, D, n.size)
<1>1. /\ n = Node(n.items, n.children, n.size) /\ Listed(n.children) /\ q \in 1 .. Len(n.children)
      /\ n.size \in Nat /\ Len(n.items) \in Nat
  BY TurnFacts, Zenon
<1>2. With(n.children, q, a.left, D)
  <2>1. With(n.children, q, a.left, [n.children EXCEPT ![q] = a.left])
    BY <1>1, WithIs
  <2> QED  BY <2>1, Zenon DEF Given
<1>5. AddTurn(lt, w, v, k, a) =
        IF a.right = <<>> THEN [left |-> Node(n.items, D, n.size + 1), median |-> v, right |-> <<>>]
        ELSE AddToNode(lt, here, a.median, a.right)
  <2> DEFINE I == n.items
             C == n.children
             s == n.size
             l == a.left
             E == D
  <2>1. w.nodes[k] = Node(I, C, s) /\ E = Given(C, q, l) /\ q = w.path[k] + 1 /\ l = a.left
    BY <1>1, Zenon
  <2> HIDE DEF I, C, s, l, E
  <2>2. AddTurn(lt, w, v, k, a) = AddedTurn(lt, I, E, s, v, a)
    BY <2>1, AddTurnIs
  <2> QED  BY <2>2, Zenon DEF AddedTurn, I, s, E
<1>6. Between(lt, n.items, p + 1, v)
  OBVIOUS
<1> HIDE DEF D, here
<1>7. CASE Whole(d, lt, Within(c, g) \cup {v}, c.size, Len(c.items), g, a)
  <2> DEFINE s == n.size + 1
             e == Node(n.items, D, s)
             z == [left |-> e, median |-> v, right |-> <<>>]
  <2>0. s = n.size + 1
    OBVIOUS
  <2> HIDE DEF s
  <2>1. Tree(d, lt, e, h) /\ Both(Within(n, h), {v}, Within(e, h))
    BY <1>2, <1>6, <1>7, <2>0, GrowWhole
  <2>2. AddTurn(lt, w, v, k, a) = z
    BY <1>5, <1>7, <2>0 DEF Whole
  <2>3. e.items = n.items /\ e.size = s
    BY Zenon DEF Node
  <2> HIDE DEF e
  <2>4. z.left = e /\ z.right = <<>>
    OBVIOUS
  <2> HIDE DEF z
  <2>5. Len(z.left.items) >= Len(n.items)
    <3> DEFINE b == Len(n.items)
    <3>1. z.left.items = n.items /\ b \in Nat
      BY <1>1, <2>3, <2>4, Zenon
    <3> HIDE DEF b
    <3>2. b >= b
      BY <3>1
    <3> QED  BY <3>1, <3>2, Zenon DEF b
  <2>6. Whole(d, lt, Within(n, h) \cup {v}, n.size, Len(n.items), h, z)
    BY <2>0, <2>1, <2>3, <2>4, <2>5 DEF Whole, Both
  <2> QED  BY <2>2, <2>6 DEF Grown
<1>8. ASSUME NEW r, Halves(d, lt, Within(c, g) \cup {v}, c.size, g, a, r)
      PROVE  Grown(d, lt, Within(n, h) \cup {v}, n.size, Len(n.items), h, AddTurn(lt, w, v, k, a))
  <2>1. Grown(d, lt, Within(n, h) \cup {v}, n.size, Len(n.items), h, AddToNode(lt, here, a.median, <<r>>))
    BY <1>2, <1>6, <1>8, GrowHalves DEF here
  <2>2. a.right = <<r>>
    BY <1>8, Zenon DEF Halves
  <2>3. <<r>> # <<>>
    OBVIOUS
  <2>4. AddTurn(lt, w, v, k, a) = AddToNode(lt, here, a.median, <<r>>)
    BY <1>5, <2>2, <2>3, Zenon
  <2> QED  BY <2>1, <2>4, Zenon
<1> QED  BY <1>7, <1>8 DEF Grown

(* What a node of a way has become after k turns.                          *)
GrownAt(d, lt, v, n, k, a) ==
  Grown(d, lt, Within(n, k) \cup {v}, n.size, Len(n.items), k, a)

(* The end of a way to where a value that is absent would be.              *)
Gap(d, lt, n, h, w, v, p) ==
  /\ Way(d, lt, n, h, w) /\ Passed(lt, w, v) /\ Lower(h, w) = 0
  /\ p \in 0 .. Len(Here(w).items) /\ Between(lt, Here(w).items, p + 1, v)

LEMMA GrowStart ==
  ASSUME NEW d, Half(M, d), NEW lt, NEW n, NEW h, NEW w, NEW v \in Values,
         NEW p, Gap(d, lt, n, h, w, v, p)
  PROVE  /\ h = Len(w.path) /\ h \in Nat
         /\ GrownAt(d, lt, v, w.nodes[(h + 1) - 0], 0, AddToNode(lt, Here(w), v, <<>>))
<1>0. d \in Nat /\ d >= 1
  BY HalfFacts
<1>1. Root(d, lt, n, h) /\ Steps(d, lt, n, h, w) /\ Lower(h, w) = 0
  BY DEF Gap, Way
<1>2. AtEnd(d, lt, h, w)
  BY <1>0, <1>1, WayHere
<1>3. h = Len(w.path) /\ h \in Nat
  BY <1>1, <1>2 DEF AtEnd, Lower
<1>4. Here(w) = w.nodes[(h + 1) - 0] /\ Tree(d, lt, Here(w), 0)
  BY <1>1, <1>2, <1>3 DEF AtEnd
<1>5. p \in 0 .. Len(Here(w).items) /\ Between(lt, Here(w).items, p + 1, v)
  BY DEF Gap
<1>6. Grown(d, lt, Within(Here(w), 0) \cup {v}, Here(w).size, Len(Here(w).items), 0,
            AddToNode(lt, Here(w), v, <<>>))
  BY <1>4, <1>5, GrowLeaf
<1> QED  BY <1>3, <1>4, <1>6 DEF GrownAt

LEMMA GrowStep ==
  ASSUME NEW d, Half(M, d), NEW lt, NEW n, NEW h, NEW w, NEW v \in Values,
         NEW p, Gap(d, lt, n, h, w, v, p), h = Len(w.path), h \in Nat, NEW k \in 1 .. h, NEW a,
         GrownAt(d, lt, v, w.nodes[(h + 1) - (k - 1)], k - 1, a)
  PROVE  GrownAt(d, lt, v, w.nodes[(h + 1) - k], k, AddTurn(lt, w, v, (h + 1) - k, a))
<1> DEFINE i == (h + 1) - k
           x == w.nodes[i]
           z == w.path[i]
           c == x.children[z + 1]
           g == k - 1
<1>1. i \in 1 .. h /\ i + 1 = (h + 1) - (k - 1) /\ (h + 1) - i = k /\ k \in Nat /\ k # 0
  OBVIOUS
<1>2. Steps(d, lt, n, h, w) /\ Passed(lt, w, v)
  BY DEF Gap, Way
<1>3. i \in 1 .. Len(w.path) /\ i \in 1 .. Len(w.nodes)
  BY <1>1, <1>2 DEF Steps
<1>4. Tree(d, lt, x, (h + 1) - i) /\ z \in 0 .. Len(x.items) /\ w.nodes[i + 1] = c
  BY <1>2, <1>3 DEF Steps
<1>5. Between(lt, x.items, z + 1, v)
  BY <1>2, <1>3 DEF Passed
<1>6. Tree(d, lt, x, k)
  BY <1>1, <1>4
<1>7. GrownAt(d, lt, v, c, g, a)
  BY <1>1, <1>4
<1>8. Grown(d, lt, Within(c, g) \cup {v}, c.size, Len(c.items), g, a)
  BY <1>7, Zenon DEF GrownAt
<1> HIDE DEF i
<1>9. Grown(d, lt, Within(x, k) \cup {v}, x.size, Len(x.items), k, AddTurn(lt, w, v, i, a))
  <2> DEFINE q == z + 1
  <2>1. g = k - 1 /\ q = z + 1 /\ c = x.children[q] /\ Between(lt, x.items, q, v)
    BY <1>5
  <2>2. x = w.nodes[i] /\ z = w.path[i]
    OBVIOUS
  <2>3. z \in 0 .. Len(x.items)
    BY <1>4
  <2> HIDE DEF x, z, c, g, q
  <2> QED  BY <1>1, <1>6, <1>8, <2>1, <2>2, <2>3, GrowTurn
<1> QED  BY <1>9 DEF GrownAt, i

LEMMA AddAlongGrows ==
  ASSUME NEW d, Half(M, d), NEW lt, NEW n, NEW h, NEW w, NEW v \in Values,
         NEW p, Gap(d, lt, n, h, w, v, p)
  PROVE  GrownAt(d, lt, v, n, h, AddAlong(lt, w, v))
<1>1. /\ h = Len(w.path) /\ h \in Nat
      /\ GrownAt(d, lt, v, w.nodes[(h + 1) - 0], 0, AddToNode(lt, Here(w), v, <<>>))
  BY GrowStart
<1>2. PICK turn : Grow(lt, w, v, h, turn) /\ AddAlong(lt, w, v) = turn[h]
  BY <1>1, AddAlongTurns
<1> DEFINE Bad == {k \in 0 .. h : ~ GrownAt(d, lt, v, w.nodes[(h + 1) - k], k, turn[k])}
<1>3. turn[0] = AddToNode(lt, Here(w), v, <<>>)
  BY <1>2 DEF Grow
<1>4. ASSUME NEW k \in 1 .. h PROVE turn[k] = AddTurn(lt, w, v, (h + 1) - k, turn[k - 1])
  <2>1. turn[k] = AddTurn(lt, w, v, Len(w.path) + 1 - k, turn[k - 1])
    BY <1>2 DEF Grow
  <2> QED  BY <1>1, <2>1
<1>5. ASSUME Bad # {} PROVE FALSE
  <2>1. Bad \in SUBSET Nat
    BY <1>1
  <2>2. PICK k \in Bad : \A j \in Bad : k <= j
    BY <1>5, <2>1, LeastNumber
  <2>3. k # 0
    BY <1>1, <1>3, <2>2
  <2>4. k \in 1 .. h /\ k - 1 \in 0 .. h /\ ~ (k <= k - 1)
    BY <1>1, <2>2, <2>3
  <2>5. GrownAt(d, lt, v, w.nodes[(h + 1) - (k - 1)], k - 1, turn[k - 1])
    BY <2>2, <2>4
  <2>6. GrownAt(d, lt, v, w.nodes[(h + 1) - k], k, turn[k])
    <3> DEFINE a == turn[k - 1]
    <3>1. turn[k] = AddTurn(lt, w, v, (h + 1) - k, a)
      BY <1>4, <2>4
    <3>2. GrownAt(d, lt, v, w.nodes[(h + 1) - (k - 1)], k - 1, a)
      BY <2>5
    <3> HIDE DEF a, Bad
    <3> QED  BY <1>1, <2>4, <3>1, <3>2, GrowStep
  <2> QED  BY <2>2, <2>6
<1>6. h \in 0 .. h /\ (h + 1) - h = 1
  BY <1>1
<1>7. GrownAt(d, lt, v, w.nodes[1], h, turn[h])
  BY <1>5, <1>6
<1>8. w.nodes[1] = n
  BY DEF Gap, Way, Steps
<1> QED  BY <1>2, <1>7, <1>8

(* A root that holds the values S.                                         *)
Holding(d, lt, n, S) == \E h \in Nat : Root(d, lt, n, h) /\ Within(n, h) = S

Single(I, x) == I = <<x>>

Pair(C, l, r) == C = <<l>> \o <<r>>

(***************************************************************************)
(* The root of two trees with a value between them.                        *)
(***************************************************************************)
LEMMA NewRoot ==
  ASSUME NEW d \in Nat, d >= 1, NEW lt, NEW l, NEW r, NEW h \in Nat, Tree(d, lt, l, h), Tree(d, lt, r, h),
         Len(l.items) >= d, Len(r.items) >= d, NEW x \in Values,
         Ordered(lt, Within(l, h), x, Within(r, h)), NEW I, Single(I, x), NEW C, Pair(C, l, r),
         NEW s, s = 1 + l.size + r.size
  PROVE  Holding(d, lt, Node(I, C, s), AtPivot(x, l, r, h))
<1> DEFINE L == <<l>>
           R == <<r>>
           j == h + 1
<1>1. Listed(L) /\ Len(L) = 1 /\ L[1] = l /\ Listed(R) /\ Len(R) = 1 /\ R[1] = r
      /\ Listed(I) /\ Len(I) = 1 /\ I[1] = x
  BY ListedOne DEF Single
<1>2. Within(l, h) \subseteq Values /\ l.size \in Nat /\ Within(r, h) \subseteq Values /\ r.size \in Nat
  BY TreeFacts
<1>3. SizeOf(L) = l.size /\ Sized(L) /\ SizeOf(R) = r.size /\ Sized(R)
  BY <1>2, SizeOne
<1>4. Cat(L, R, C)
  BY <1>1, CatIs DEF Pair
<1> HIDE DEF L, R
<1>5. Sized(C) /\ SizeOf(C) = l.size + r.size
  <2>1. Sized(L) /\ Sized(R)
    BY <1>3
  <2>2. Sized(C) /\ SizeOf(C) = SizeOf(L) + SizeOf(R)
    BY <1>4, <2>1, SizeCat
  <2> QED  BY <1>3, <2>2
<1>6. Listed(C) /\ Len(C) = 2 /\ C[1] = l /\ C[2] = r
  BY <1>1, <1>4 DEF Cat
<1>7. j \in Nat /\ j # 0 /\ j - 1 = h
  OBVIOUS
<1> HIDE DEF j
<1>8. \A c \in 1 .. Len(C) : (c = 1 /\ C[c] = l) \/ (c = 2 /\ C[c] = r)
  <2>1. \A c \in 1 .. Len(C) : c = 1 \/ c = 2
    BY <1>6
  <2> QED  BY <1>6, <2>1, Zenon
<1>9. Separated(lt, I, C, h)
  <2>1. ASSUME NEW y \in Within(l, h) PROVE Between(lt, I, 1, y)
    BY <1>1 DEF Between, Ordered
  <2>2. ASSUME NEW y \in Within(r, h) PROVE Between(lt, I, 2, y)
    BY <1>1 DEF Between, Ordered
  <2> QED  BY <1>8, <2>1, <2>2 DEF Separated
<1>a. Arranged(lt, I, C, j)
  <2>1. Len(C) = NbKids(I, j)
    BY <1>1, <1>6, <1>7 DEF NbKids
  <2>2. InOrder(lt, I)
    BY <1>1 DEF InOrder
  <2>3. (\A i \in 1 .. Len(I) : I[i] \in Values) /\ (\A c \in 1 .. Len(C) : Within(C[c], j - 1) \subseteq Values)
    BY <1>1, <1>2, <1>7, <1>8
  <2> QED  BY <1>1, <1>6, <1>7, <1>9, <2>1, <2>2, <2>3 DEF Arranged
<1>b. Row(d, lt, I, C, j) /\ Full(d, C)
  BY <1>7, <1>8, <1>a DEF Row, Full
<1>c. Tree(d, lt, Node(I, C, s), j) /\ Within(Node(I, C, s), j) = Held(I, C, j)
  <2>1. Len(I) <= 2 * d
    BY <1>1
  <2>2. s = Len(I) + SizeOf(C)
    <3> DEFINE y == l.size
               z == r.size
               t == SizeOf(C)
    <3>1. y \in Nat /\ z \in Nat /\ t = y + z /\ s = 1 + y + z
      BY <1>2, <1>5
    <3> HIDE DEF y, z, t
    <3>2. s = 1 + t
      BY <3>1
    <3> QED  BY <1>1, <3>2 DEF t
  <2>3. Row(d, lt, I, C, j)
    BY <1>b
  <2>4. Full(d, C)
    BY <1>b
  <2>5. Tree(d, lt, Node(I, C, s), j)
    BY <2>1, <2>2, <2>3, <2>4, TreeMake
  <2>6. Within(Node(I, C, s), j) = Held(I, C, j)
    BY <2>1, <2>2, <2>3, <2>4, TreeMake
  <2> QED  BY <2>5, <2>6
<1>d. Held(I, C, j) = AtPivot(x, l, r, h)
  <2>1. \A y : y \in Held(I, C, j) <=>
           \/ \E i \in 1 .. Len(I) : y = I[i]
           \/ \E c \in 1 .. Len(C) : y \in Within(C[c], j - 1)
    <3>1. Listed(I)
      BY <1>1
    <3> QED  BY <3>1, HeldHas
  <2>2. \A y : y \in Held(I, C, j) <=> y = x \/ y \in Within(l, h) \/ y \in Within(r, h)
    <3>1. \A y : (\E i \in 1 .. Len(I) : y = I[i]) <=> y = x
      BY <1>1
    <3>2. \A y : (\E c \in 1 .. Len(C) : y \in Within(C[c], j - 1)) <=> y \in Within(l, h) \/ y \in Within(r, h)
      <4>1. 1 \in 1 .. Len(C) /\ 2 \in 1 .. Len(C)
        BY <1>6
      <4> QED  BY <1>6, <1>7, <1>8, <4>1
    <3> QED  BY <2>1, <3>1, <3>2
  <2> QED  BY <2>2 DEF AtPivot
<1>e. Root(d, lt, Node(I, C, s), j)
  <2>1. Node(I, C, s).items = I
    BY NodeFields
  <2>2. Len(I) >= 1
    BY <1>1
  <2> QED  BY <1>7, <1>c, <2>1, <2>2 DEF Root
<1> QED  BY <1>7, <1>c, <1>d, <1>e DEF Holding

LEMMA AddHolds ==
  ASSUME NEW d, Half(M, d), NEW lt, NEW n, NEW h, NEW w, NEW v \in Values,
         NEW p, Gap(d, lt, n, h, w, v, p)
  PROVE  Holding(d, lt, Add(lt, w, v), Within(n, h) \cup {v})
<1> DEFINE a == AddAlong(lt, w, v)
           S == Within(n, h) \cup {v}
<1>0. d \in Nat /\ d >= 1
  BY HalfFacts
<1>1. h \in Nat /\ Root(d, lt, n, h)
  BY DEF Gap, Way, Root
<1>2. GrownAt(d, lt, v, n, h, a)
  BY AddAlongGrows
<1>3. Add(lt, w, v) = IF a.right = <<>> THEN a.left
                      ELSE Node(<<a.median>>, <<a.left>> \o a.right, 1 + a.left.size + a.right[1].size)
  BY Zenon DEF Add
<1> HIDE DEF a
<1>4. CASE Whole(d, lt, S, n.size, Len(n.items), h, a)
  <2>1. Add(lt, w, v) = a.left /\ Tree(d, lt, a.left, h) /\ Within(a.left, h) = S /\ Len(a.left.items) >= Len(n.items)
    BY <1>3, <1>4 DEF Whole
  <2>2. Len(a.left.items) \in Nat /\ Len(n.items) \in Nat
    BY <1>1, <2>1, TreeFacts DEF Root
  <2>3. Root(d, lt, a.left, h)
    BY <1>1, <2>1, <2>2 DEF Root
  <2> QED  BY <1>1, <2>1, <2>3 DEF Holding
<1>5. ASSUME NEW r, Halves(d, lt, S, n.size, h, a, r)
      PROVE  Holding(d, lt, Add(lt, w, v), S)
  <2> DEFINE l == a.left
             x == a.median
             I == <<x>>
             C == <<l>> \o <<r>>
             s == 1 + l.size + r.size
  <2>1. /\ a.right = <<r>> /\ Tree(d, lt, l, h) /\ Tree(d, lt, r, h)
        /\ Len(l.items) >= d /\ Len(r.items) >= d
        /\ x \in Values /\ Ordered(lt, Within(l, h), x, Within(r, h))
        /\ S = AtPivot(x, l, r, h)
    BY <1>5 DEF Halves
  <2>2. a.right # <<>> /\ a.right[1] = r
    BY <2>1
  <2>3. Add(lt, w, v) = Node(I, C, s)
    BY <1>3, <2>1, <2>2, Zenon
  <2>4. Single(I, x) /\ Pair(C, l, r) /\ s = 1 + l.size + r.size
    BY DEF Single, Pair
  <2> HIDE DEF l, x, I, C, s
  <2>5. Holding(d, lt, Node(I, C, s), AtPivot(x, l, r, h))
    BY <1>0, <1>1, <2>1, <2>4, NewRoot
  <2> QED  BY <2>1, <2>3, <2>5
<1> QED  BY <1>2, <1>4, <1>5 DEF GrownAt, Grown

LEMMA InsertedHolds ==
  ASSUME NEW d, Half(M, d), NEW lt, NEW n, NEW h, Root(d, lt, n, h), NEW v \in Values
  PROVE  Holding(d, lt, Inserted(lt, n, v), Within(n, h) \cup {v})
<1> DEFINE place == GetNode(lt, n, v)
<1>0. d \in Nat /\ d >= 1 /\ h \in Nat
  BY HalfFacts DEF Root
<1>1. \/ v \in Within(n, h) /\ place.at # -1 /\ Place(d, lt, n, h, place, v)
      \/ v \notin Within(n, h) /\ place.at = -1 /\ NoPlace(d, lt, n, h, place.way, v)
  BY <1>0, GetNodeIs
<1>2. Inserted(lt, n, v) = IF place.at # -1 THEN n ELSE Add(lt, place.way, v)
  BY DEF Inserted
<1> HIDE DEF place
<1>3. CASE v \in Within(n, h) /\ place.at # -1
  <2>1. Within(n, h) \cup {v} = Within(n, h) /\ Inserted(lt, n, v) = n
    BY <1>2, <1>3
  <2> QED  BY <1>0, <2>1 DEF Holding
<1>4. CASE place.at = -1 /\ NoPlace(d, lt, n, h, place.way, v)
  <2>1. PICK p : Gap(d, lt, n, h, place.way, v, p)
    BY <1>4 DEF NoPlace, Gap
  <2>2. Inserted(lt, n, v) = Add(lt, place.way, v)
    BY <1>2, <1>4
  <2> QED  BY <2>1, <2>2, AddHolds
<1> QED  BY <1>1, <1>3, <1>4

-----------------------------------------------------------------------------
(* Removal.                                                                *)

(* A list of children cut after the first k.                               *)
CutKidsAt(C, k, C1, C2) ==
  /\ Cat(C1, C2, C) /\ Listed(C1) /\ Listed(C2)
  /\ (Len(C) = 0 => Len(C1) = 0) /\ (Len(C) # 0 => Len(C1) = k)

LEMMA CutKids ==
  ASSUME NEW C, Listed(C), NEW k \in Nat, Len(C) = 0 \/ k <= Len(C), NEW j, j = k + 1
  PROVE  CutKidsAt(C, k, FirstOnes(k, C), SubSeq(C, j, Len(C)))
<1> DEFINE C1 == FirstOnes(k, C)
           C2 == SubSeq(C, j, Len(C))
<1>0. Part(C, 1, IF k <= Len(C) THEN k ELSE Len(C), C1) /\ Len(C) \in Nat
  BY FirstOnesIs DEF Listed
<1>1. CASE Len(C) = 0
  <2>1. (IF k <= Len(C) THEN k ELSE Len(C)) = 0
    BY <1>1
  <2>2. Listed(C1) /\ Len(C1) = 0
    BY <1>0, <2>1 DEF Part
  <2>3. C2 = <<>>
    BY <1>1, SubSeqEmpty
  <2>4. Listed(C2) /\ Len(C2) = 0
    BY <2>3, ListedNone
  <2> HIDE DEF C1, C2
  <2>5. Cat(C1, C2, C)
    <3>1. Len(C) = Len(C1) + Len(C2)
      BY <1>1, <2>2, <2>4
    <3>2. \A i \in 1 .. Len(C1) : C[i] = C1[i]
      BY <2>2
    <3>3. \A i \in 1 .. Len(C2) : C[Len(C1) + i] = C2[i]
      BY <2>4
    <3> QED  BY <3>1, <3>2, <3>3 DEF Cat
  <2> QED  BY <1>1, <2>2, <2>4, <2>5 DEF CutKidsAt, C1, C2
<1>2. CASE Len(C) # 0
  <2> DEFINE n == Len(C)
  <2>0. n \in Nat /\ k <= n
    BY <1>0, <1>2
  <2>1. Part(C, 1, k, C1)
    <3>1. (IF k <= Len(C) THEN k ELSE Len(C)) = k
      BY <2>0
    <3> QED  BY <1>0, <3>1
  <2>2. Part(C, j, n, C2)
    <3>1. j \in 1 .. Len(C) + 1 /\ n \in j - 1 .. Len(C)
      BY <2>0
    <3> QED  BY <3>1, PartIs
  <2>n. n = Len(C)
    OBVIOUS
  <2> HIDE DEF C1, C2, n
  <2>3. Listed(C1) /\ Len(C1) = k
    BY <2>1 DEF Part
  <2>4. Listed(C2) /\ Len(C2) = n - k
    BY <2>0, <2>2 DEF Part
  <2>5. ASSUME NEW i \in 1 .. k PROVE C[i] = C1[i]
    <3>1. i \in 1 .. (k - 1) + 1 /\ (1 + i) - 1 = i
      OBVIOUS
    <3>2. C1[i] = C[(1 + i) - 1]
      BY <2>1, <3>1, Zenon DEF Part
    <3> QED  BY <3>1, <3>2
  <2>6. ASSUME NEW i \in 1 .. n - k PROVE C[k + i] = C2[i]
    <3>1. i \in 1 .. (n - j) + 1 /\ (j + i) - 1 = k + i
      BY <2>0
    <3>2. C2[i] = C[(j + i) - 1]
      BY <2>2, <3>1, Zenon DEF Part
    <3> QED  BY <3>1, <3>2
  <2>7. Len(C) = Len(C1) + Len(C2)
    BY <2>0, <2>3, <2>4, <2>n
  <2>8. Cat(C1, C2, C)
    BY <2>3, <2>4, <2>5, <2>6, <2>7 DEF Cat
  <2> QED  BY <1>2, <2>3, <2>4, <2>8 DEF CutKidsAt, C1, C2
<1> QED  BY <1>1, <1>2

(* A list as an item and the ones before or after it.                      *)
LEMMA AroundTail ==
  ASSUME NEW s, Listed(s), Len(s) # 0, NEW none, Listed(none), Len(none) = 0
  PROVE  Around(none, s[1], Tail(s), s) /\ Listed(Tail(s)) /\ Len(Tail(s)) = Len(s) - 1
<1> DEFINE t == Tail(s)
<1>1. s \in Seq(ToSet(s)) /\ Len(s) \in Nat /\ s # <<>>
  BY ListedEmpty DEF Listed
<1>2. t \in Seq(ToSet(s)) /\ Len(t) = Len(s) - 1 /\ \A i \in 1 .. Len(t) : t[i] = s[i + 1]
  BY <1>1, HeadTailProperties
<1>3. Listed(t)
  BY <1>2, ListedIs
<1> HIDE DEF t
<1>4. Len(s) = Len(none) + 1 + Len(t)
  BY <1>1, <1>2
<1>5. s[Len(none) + 1] = s[1]
  OBVIOUS
<1>6. ASSUME NEW i \in 1 .. Len(t) PROVE s[Len(none) + 1 + i] = t[i]
  <2>1. Len(none) + 1 + i = i + 1
    OBVIOUS
  <2> QED  BY <1>2, <2>1
<1>7. Around(none, s[1], t, s)
  BY <1>4, <1>5, <1>6 DEF Around
<1> QED  BY <1>2, <1>3, <1>7 DEF t

LEMMA AroundFront ==
  ASSUME NEW s, Listed(s), Len(s) # 0, NEW none, Listed(none), Len(none) = 0
  PROVE  Around(Front(s), Last(s), none, s) /\ Listed(Front(s)) /\ Len(Front(s)) = Len(s) - 1
<1> DEFINE t == Front(s)
           n == Len(s) - 1
<1>1. Len(s) \in Nat /\ 1 \in 1 .. Len(s) + 1 /\ n \in 1 - 1 .. Len(s)
  BY DEF Listed
<1>2. Part(s, 1, n, t)
  BY <1>1, PartIs DEF Front
<1>n. n = Len(s) - 1 /\ n \in Nat /\ Last(s) = s[Len(s)]
  BY <1>1 DEF Last
<1> HIDE DEF t, n
<1>3. Listed(t) /\ Len(t) = n
  BY <1>2, <1>n DEF Part
<1>4. ASSUME NEW i \in 1 .. n PROVE s[i] = t[i]
  <2>1. i \in 1 .. (n - 1) + 1 /\ (1 + i) - 1 = i
    BY <1>n
  <2>2. t[i] = s[(1 + i) - 1]
    BY <1>2, <2>1, Zenon DEF Part
  <2> QED  BY <2>1, <2>2
<1>5. Len(s) = Len(t) + 1 + Len(none) /\ Len(t) + 1 = Len(s)
  BY <1>1, <1>3, <1>n
<1>6. Around(t, Last(s), none, s)
  BY <1>3, <1>4, <1>5, <1>n DEF Around
<1> QED  BY <1>3, <1>6, <1>n DEF t

LEMMA AroundAppend ==
  ASSUME NEW s, Listed(s), NEW x, NEW none, Listed(none), Len(none) = 0
  PROVE  Around(s, x, none, Append(s, x))
<1> DEFINE r == Append(s, x)
<1>1. More(s, x, r)
  BY MoreIs
<1> HIDE DEF r
<1>2. Listed(r) /\ Len(r) = Len(s) + 1 /\ (\A i \in 1 .. Len(s) : r[i] = s[i]) /\ r[Len(s) + 1] = x
  BY <1>1 DEF More
<1>3. Len(r) = Len(s) + 1 + Len(none) /\ Len(s) \in Nat
  BY <1>2 DEF Listed
<1>4. Around(s, x, none, r)
  BY <1>2, <1>3 DEF Around
<1> QED  BY <1>4 DEF r

LEMMA AroundHead ==
  ASSUME NEW s, Listed(s), NEW x, NEW none, Listed(none), Len(none) = 0
  PROVE  Around(none, x, s, <<x>> \o s)
<1> DEFINE one == <<x>>
           r == one \o s
<1>1. Listed(one) /\ Len(one) = 1 /\ one[1] = x
  BY ListedOne
<1> HIDE DEF one
<1>2. Cat(one, s, r)
  BY <1>1, CatIs
<1> HIDE DEF r
<1>3. Listed(r) /\ Len(r) = Len(one) + Len(s) /\ (\A i \in 1 .. Len(one) : r[i] = one[i])
      /\ \A i \in 1 .. Len(s) : r[Len(one) + i] = s[i]
  BY <1>2 DEF Cat
<1>4. Len(r) = Len(none) + 1 + Len(s) /\ Len(s) \in Nat
  BY <1>1, <1>3 DEF Listed
<1>5. r[Len(none) + 1] = x
  BY <1>1, <1>3
<1>6. ASSUME NEW i \in 1 .. Len(s) PROVE r[Len(none) + 1 + i] = s[i]
  <2>1. Len(none) + 1 + i = Len(one) + i
    BY <1>1
  <2> QED  BY <1>3, <2>1
<1>7. Around(none, x, s, r)
  BY <1>3, <1>4, <1>5, <1>6 DEF Around
<1> QED  BY <1>7 DEF r, one

(***************************************************************************)
(* Two neighbours a and b, and the item x between them, become l, u and r. *)
(***************************************************************************)
Shared(d, lt, g, a, x, b, l, u, r) ==
  /\ Tree(d, lt, l, g) /\ Tree(d, lt, r, g) /\ u \in Values
  /\ Ordered(lt, Within(l, g), u, Within(r, g))
  /\ Same(AtPivot(x, a, b, g), AtPivot(u, l, r, g))
  /\ l.size + r.size = a.size + b.size
  /\ Len(l.items) >= d /\ Len(r.items) >= d

(* Two trees that an item separates.                                       *)
Apart(d, lt, g, a, x, b) ==
  /\ Tree(d, lt, a, g) /\ Tree(d, lt, b, g) /\ x \in Values
  /\ Ordered(lt, Within(a, g), x, Within(b, g))

(* The order of the values when an item moves between neighbours.          *)
LEMMA SharedOrder ==
  ASSUME NEW lt, NEW A \in SUBSET Values, NEW x \in Values, NEW H \in SUBSET Values, NEW u \in Values,
         NEW T \in SUBSET Values, Ordered(lt, A, x, H \cup {u} \cup T), Ordered(lt, H, u, T)
  PROVE  Ordered(lt, A \cup {x} \cup H, u, T)
<1>1. \A y \in A : Lesser(lt, y, x) /\ Lesser(lt, x, u)
  BY DEF Ordered
<1>2. \A y \in A : Lesser(lt, y, u)
  BY <1>1, LesserOrder
<1> QED  BY <1>2 DEF Ordered

LEMMA SharedOrderLeft ==
  ASSUME NEW lt, NEW T \in SUBSET Values, NEW u \in Values, NEW H \in SUBSET Values, NEW x \in Values,
         NEW B \in SUBSET Values, Ordered(lt, T \cup {u} \cup H, x, B), Ordered(lt, T, u, H)
  PROVE  Ordered(lt, T, u, H \cup {x} \cup B)
<1>1. \A y \in B : Lesser(lt, u, x) /\ Lesser(lt, x, y)
  BY DEF Ordered
<1>2. \A y \in B : Lesser(lt, u, y)
  BY <1>1, LesserOrder
<1> QED  BY <1>2 DEF Ordered

MovedRight(b) == FirstOnes(1, b.children)

GainRight(b) == 1 + SizeOf(MovedRight(b))

FromRight(a, x, b) == Node(Append(a.items, x), a.children \o MovedRight(b), a.size + GainRight(b))

RestRight(b) == Node(Tail(b.items), SubSeq(b.children, 2, Len(b.children)), b.size - GainRight(b))

LEMMA ShareRight ==
  ASSUME NEW d \in Nat, d >= 1, NEW lt, NEW g \in Nat, NEW a, NEW x, NEW b, Apart(d, lt, g, a, x, b),
         Len(a.items) < d, Len(a.items) >= d - 1, Len(b.items) > d
  PROVE  Shared(d, lt, g, a, x, b, FromRight(a, x, b), b.items[1], RestRight(b))
<1> DEFINE none == <<>>
           u == b.items[1]
           H == MovedRight(b)
           T == Tail(b.items)
           R == SubSeq(b.children, 2, Len(b.children))
           I == Append(a.items, x)
           C == a.children \o H
           s == a.size + GainRight(b)
           t == b.size - GainRight(b)
           l == Node(I, C, s)
           r == Node(T, R, t)
<1>0. Tree(d, lt, a, g) /\ Tree(d, lt, b, g) /\ x \in Values /\ Ordered(lt, Within(a, g), x, Within(b, g))
  BY DEF Apart
<1>1. /\ Row(d, lt, a.items, a.children, g) /\ Full(d, a.children) /\ Within(a, g) = Held(a.items, a.children, g)
      /\ Row(d, lt, b.items, b.children, g) /\ Full(d, b.children) /\ Within(b, g) = Held(b.items, b.children, g)
  BY <1>0, TreeUnfold
<1>2. /\ Listed(a.items) /\ Listed(a.children) /\ Len(a.items) \in Nat
      /\ a.size \in Nat /\ a.size = Len(a.items) + SizeOf(a.children) /\ Within(a, g) \subseteq Values
  BY <1>0, TreeFacts
<1>3. /\ Listed(b.items) /\ Listed(b.children) /\ Len(b.items) \in Nat /\ Len(b.children) = NbKids(b.items, g)
      /\ b.size \in Nat /\ b.size = Len(b.items) + SizeOf(b.children) /\ Within(b, g) \subseteq Values
      /\ Len(b.items) <= 2 * d
  BY <1>0, TreeFacts
<1>4. Listed(none) /\ Len(none) = 0
  BY ListedNone
<1> HIDE DEF none
<1>5. Around(none, u, T, b.items) /\ Listed(T) /\ Len(T) = Len(b.items) - 1
  <2>1. Len(b.items) # 0
    BY <1>3
  <2> QED  BY <1>3, <1>4, <2>1, AroundTail
<1>6. CutKidsAt(b.children, 1, H, R)
  <2>1. Len(b.children) = 0 \/ 1 <= Len(b.children)
    BY <1>3 DEF NbKids
  <2> QED  BY <1>3, <2>1, CutKids DEF MovedRight
<1>7. Cat(H, R, b.children) /\ Listed(H) /\ Listed(R) /\ Len(H) = NbKids(none, g)
  <2>1. CASE g = 0
    BY <1>3, <1>6, <2>1 DEF CutKidsAt, NbKids
  <2>2. CASE g # 0
    <3>1. Len(b.children) # 0
      BY <1>3, <2>2 DEF NbKids
    <3>2. NbKids(none, g) = 1
      BY <1>4, <2>2 DEF NbKids
    <3> QED  BY <1>6, <3>1, <3>2 DEF CutKidsAt
  <2> QED  BY <2>1, <2>2
<1> HIDE DEF u, H, T, R
<1>8. Parted(d, lt, none, H, u, T, R, b.items, b.children, g)
  <2>1. Divided(none, H, u, T, R, b.items, b.children)
    BY <1>5, <1>7 DEF Divided
  <2>2. Listed(none) /\ Listed(T) /\ Listed(H) /\ Listed(R) /\ Len(H) = NbKids(none, g)
    BY <1>4, <1>5, <1>7
  <2>3. Row(d, lt, b.items, b.children, g) /\ Full(d, b.children)
    BY <1>1
  <2> QED  BY <2>1, <2>2, <2>3, CutRow
<1>9. /\ Row(d, lt, none, H, g) /\ Row(d, lt, T, R, g) /\ Full(d, H) /\ Full(d, R)
      /\ u \in Values /\ Ordered(lt, Held(none, H, g), u, Held(T, R, g))
      /\ Within(b, g) = Held(none, H, g) \cup {u} \cup Held(T, R, g)
      /\ SizeOf(H) \in Nat /\ SizeOf(R) \in Nat /\ SizeOf(b.children) = SizeOf(H) + SizeOf(R)
  BY <1>1, <1>8 DEF Parted
<1>a. Around(a.items, x, none, I) /\ Cat(a.children, H, C)
  BY <1>2, <1>4, <1>7, AroundAppend, CatIs
<1> HIDE DEF I, C
<1>b. Parted(d, lt, a.items, a.children, x, none, H, I, C, g)
  <2>1. Divided(a.items, a.children, x, none, H, I, C)
    BY <1>a DEF Divided
  <2>2. Ordered(lt, Held(a.items, a.children, g), x, Held(none, H, g))
    BY <1>0, <1>1, <1>9 DEF Ordered
  <2>3. /\ Row(d, lt, a.items, a.children, g) /\ Full(d, a.children)
        /\ Row(d, lt, none, H, g) /\ Full(d, H) /\ x \in Values
    BY <1>0, <1>1, <1>9
  <2> QED  BY <2>1, <2>2, <2>3, JoinRow
<1>c. /\ Row(d, lt, I, C, g) /\ Full(d, C) /\ Held(I, C, g) = Within(a, g) \cup {x} \cup Held(none, H, g)
      /\ SizeOf(a.children) \in Nat /\ SizeOf(C) = SizeOf(a.children) + SizeOf(H)
  BY <1>1, <1>b DEF Parted
<1>d. Len(I) = Len(a.items) + 1
  <2>1. Len(I) = Len(a.items) + 1 + Len(none)
    BY <1>a DEF Around
  <2> QED  BY <1>2, <1>4, <2>1
<1>e. s = Len(I) + SizeOf(C) /\ t = Len(T) + SizeOf(R) /\ s + t = a.size + b.size
  <2> DEFINE i == Len(a.items)
             j == Len(b.items)
             v == SizeOf(a.children)
             y == SizeOf(H)
             z == SizeOf(R)
  <2>1. i \in Nat /\ j \in Nat /\ v \in Nat /\ y \in Nat /\ z \in Nat
    BY <1>2, <1>3, <1>9, <1>c
  <2>2. a.size = i + v /\ b.size = j + (y + z) /\ SizeOf(C) = v + y
    BY <1>2, <1>3, <1>9, <1>c
  <2>3. GainRight(b) = 1 + y
    BY DEF GainRight, H
  <2>4. Len(I) = i + 1 /\ Len(T) = j - 1
    BY <1>5, <1>d
  <2>5. s = (i + v) + (1 + y) /\ t = (j + (y + z)) - (1 + y)
    BY <2>2, <2>3
  <2> HIDE DEF i, j, v, y, z, s, t
  <2>6. s = (i + 1) + (v + y) /\ t = (j - 1) + z /\ s + t = (i + v) + (j + (y + z))
    BY <2>1, <2>5
  <2> QED  BY <2>2, <2>4, <2>6 DEF z
<1> HIDE DEF s, t
<1>f. Tree(d, lt, l, g) /\ Within(l, g) = Held(I, C, g)
  <2>1. Len(I) <= 2 * d
    BY <1>2, <1>d
  <2> QED  BY <1>c, <1>e, <2>1, TreeMake
<1>g. Tree(d, lt, r, g) /\ Within(r, g) = Held(T, R, g)
  <2>1. Len(T) <= 2 * d
    BY <1>3, <1>5
  <2> QED  BY <1>9, <1>e, <2>1, TreeMake
<1>h. l.items = I /\ l.size = s /\ r.items = T /\ r.size = t
  BY NodeFields
<1>i. FromRight(a, x, b) = l /\ RestRight(b) = r
  BY DEF FromRight, RestRight, I, C, H, T, R, s, t
<1> HIDE DEF l, r
<1>j. Ordered(lt, Within(l, g), u, Within(r, g))
  <2> DEFINE A == Within(a, g)
             G == Held(none, H, g)
             K == Held(T, R, g)
  <2>1. A \subseteq Values /\ G \subseteq Values /\ K \subseteq Values
    BY <1>2, <1>3, <1>9
  <2>2. Ordered(lt, A, x, G \cup {u} \cup K) /\ Ordered(lt, G, u, K)
    BY <1>0, <1>9
  <2>3. Within(l, g) = A \cup {x} \cup G /\ Within(r, g) = K
    BY <1>c, <1>f, <1>g
  <2> HIDE DEF A, G, K
  <2>4. Ordered(lt, A \cup {x} \cup G, u, K)
    BY <1>0, <1>9, <2>1, <2>2, SharedOrder
  <2> QED  BY <2>3, <2>4
<1>k. Same(AtPivot(x, a, b, g), AtPivot(u, l, r, g))
  BY <1>9, <1>c, <1>f, <1>g DEF Same, AtPivot
<1>l. Len(l.items) >= d /\ Len(r.items) >= d
  <2>1. Len(I) >= d
    BY <1>2, <1>d
  <2>2. Len(T) >= d
    BY <1>3, <1>5
  <2> QED  BY <1>h, <2>1, <2>2
<1>m. Shared(d, lt, g, a, x, b, l, u, r)
  BY <1>9, <1>e, <1>f, <1>g, <1>h, <1>j, <1>k, <1>l DEF Shared
<1> QED  BY <1>i, <1>m DEF u

MovedLeft(a) == SubSeq(a.children, NbItems(a) + 1, Len(a.children))

GainLeft(a) == 1 + SizeOf(MovedLeft(a))

RestLeft(a) == Node(Front(a.items), FirstOnes(NbItems(a), a.children), a.size - GainLeft(a))

FromLeft(a, x, b) == Node(<<x>> \o b.items, MovedLeft(a) \o b.children, b.size + GainLeft(a))

LEMMA ShareLeft ==
  ASSUME NEW d \in Nat, d >= 1, NEW lt, NEW g \in Nat, NEW a, NEW x, NEW b, Apart(d, lt, g, a, x, b),
         Len(a.items) > d, Len(b.items) < d, Len(b.items) >= d - 1
  PROVE  Shared(d, lt, g, a, x, b, RestLeft(a), Last(a.items), FromLeft(a, x, b))
<1> DEFINE none == <<>>
           u == Last(a.items)
           k == Len(a.items)
           H == MovedLeft(a)
           T == Front(a.items)
           R == FirstOnes(k, a.children)
           I == <<x>> \o b.items
           C == H \o b.children
           s == b.size + GainLeft(a)
           t == a.size - GainLeft(a)
           l == Node(T, R, t)
           r == Node(I, C, s)
<1>0. Tree(d, lt, a, g) /\ Tree(d, lt, b, g) /\ x \in Values /\ Ordered(lt, Within(a, g), x, Within(b, g))
  BY DEF Apart
<1>1. /\ Row(d, lt, a.items, a.children, g) /\ Full(d, a.children) /\ Within(a, g) = Held(a.items, a.children, g)
      /\ Row(d, lt, b.items, b.children, g) /\ Full(d, b.children) /\ Within(b, g) = Held(b.items, b.children, g)
  BY <1>0, TreeUnfold
<1>2. /\ Listed(b.items) /\ Listed(b.children) /\ Len(b.items) \in Nat
      /\ b.size \in Nat /\ b.size = Len(b.items) + SizeOf(b.children) /\ Within(b, g) \subseteq Values
  BY <1>0, TreeFacts
<1>3. /\ Listed(a.items) /\ Listed(a.children) /\ k \in Nat /\ Len(a.children) = NbKids(a.items, g)
      /\ a.size \in Nat /\ a.size = k + SizeOf(a.children) /\ Within(a, g) \subseteq Values
      /\ k <= 2 * d
  BY <1>0, TreeFacts
<1>4. Listed(none) /\ Len(none) = 0
  BY ListedNone
<1> HIDE DEF none
<1>5. Around(T, u, none, a.items) /\ Listed(T) /\ Len(T) = k - 1
  <2>1. Len(a.items) # 0
    BY <1>3
  <2> QED  BY <1>3, <1>4, <2>1, AroundFront
<1>6. CutKidsAt(a.children, k, R, H)
  <2>1. Len(a.children) = 0 \/ k <= Len(a.children)
    BY <1>3 DEF NbKids
  <2> DEFINE j == k + 1
  <2>2. j = k + 1 /\ H = SubSeq(a.children, j, Len(a.children))
    BY DEF MovedLeft, NbItems
  <2> HIDE DEF j, H
  <2> QED  BY <1>3, <2>1, <2>2, CutKids
<1>7. Cat(R, H, a.children) /\ Listed(H) /\ Listed(R) /\ Len(R) = NbKids(T, g) /\ Len(H) = NbKids(none, g)
  <2> HIDE DEF H, R
  <2>0. Cat(R, H, a.children) /\ Listed(H) /\ Listed(R) /\ Len(H) \in Nat /\ Len(R) \in Nat
    BY <1>6 DEF CutKidsAt, Listed
  <2>1. Len(a.children) = Len(R) + Len(H)
    BY <2>0 DEF Cat
  <2>2. CASE g = 0
    <3>1. Len(a.children) = 0
      BY <1>3, <2>2 DEF NbKids
    <3>2. Len(R) = 0 /\ Len(H) = 0
      BY <2>0, <2>1, <3>1
    <3> QED  BY <2>0, <2>2, <3>2 DEF NbKids
  <2>3. CASE g # 0
    <3>1. Len(a.children) = k + 1
      BY <1>3, <2>3 DEF NbKids
    <3>2. Len(R) = k
      BY <1>3, <1>6, <3>1 DEF CutKidsAt
    <3>3. Len(H) = 1
      <4>1. k + 1 = k + Len(H)
        BY <2>1, <3>1, <3>2
      <4> DEFINE y == Len(H)
      <4>2. y \in Nat /\ k \in Nat /\ k + 1 = k + y
        BY <1>3, <2>0, <4>1
      <4> HIDE DEF y, k
      <4>3. y = 1
        BY <4>2
      <4> QED  BY <4>3 DEF y
    <3>4. NbKids(T, g) = k /\ NbKids(none, g) = 1
      BY <1>3, <1>4, <1>5, <2>3 DEF NbKids
    <3> QED  BY <2>0, <3>2, <3>3, <3>4
  <2> QED  BY <2>2, <2>3
<1> HIDE DEF u, H, T, R
<1>8. Parted(d, lt, T, R, u, none, H, a.items, a.children, g)
  <2>1. Divided(T, R, u, none, H, a.items, a.children)
    BY <1>5, <1>7 DEF Divided
  <2>2. Listed(none) /\ Listed(T) /\ Listed(H) /\ Listed(R) /\ Len(R) = NbKids(T, g)
    BY <1>4, <1>5, <1>7
  <2>3. Row(d, lt, a.items, a.children, g) /\ Full(d, a.children)
    BY <1>1
  <2> QED  BY <2>1, <2>2, <2>3, CutRow
<1>9. /\ Row(d, lt, none, H, g) /\ Row(d, lt, T, R, g) /\ Full(d, H) /\ Full(d, R)
      /\ u \in Values /\ Ordered(lt, Held(T, R, g), u, Held(none, H, g))
      /\ Within(a, g) = Held(T, R, g) \cup {u} \cup Held(none, H, g)
      /\ SizeOf(H) \in Nat /\ SizeOf(R) \in Nat /\ SizeOf(a.children) = SizeOf(R) + SizeOf(H)
  BY <1>1, <1>8 DEF Parted
<1>a. Around(none, x, b.items, I) /\ Cat(H, b.children, C)
  BY <1>2, <1>4, <1>7, AroundHead, CatIs
<1> HIDE DEF I, C
<1>b. Parted(d, lt, none, H, x, b.items, b.children, I, C, g)
  <2>1. Divided(none, H, x, b.items, b.children, I, C)
    BY <1>a DEF Divided
  <2>2. Ordered(lt, Held(none, H, g), x, Held(b.items, b.children, g))
    BY <1>0, <1>1, <1>9 DEF Ordered
  <2>3. /\ Row(d, lt, b.items, b.children, g) /\ Full(d, b.children)
        /\ Row(d, lt, none, H, g) /\ Full(d, H) /\ x \in Values
    BY <1>0, <1>1, <1>9
  <2> QED  BY <2>1, <2>2, <2>3, JoinRow
<1>c. /\ Row(d, lt, I, C, g) /\ Full(d, C) /\ Held(I, C, g) = Held(none, H, g) \cup {x} \cup Within(b, g)
      /\ SizeOf(b.children) \in Nat /\ SizeOf(C) = SizeOf(H) + SizeOf(b.children)
  BY <1>1, <1>b DEF Parted
<1>d. Len(I) = Len(b.items) + 1
  <2>1. Len(I) = Len(none) + 1 + Len(b.items)
    BY <1>a DEF Around
  <2> QED  BY <1>2, <1>4, <2>1
<1>e. s = Len(I) + SizeOf(C) /\ t = Len(T) + SizeOf(R) /\ t + s = a.size + b.size
  <2> DEFINE i == Len(b.items)
             v == SizeOf(b.children)
             y == SizeOf(H)
             z == SizeOf(R)
  <2>1. i \in Nat /\ k \in Nat /\ v \in Nat /\ y \in Nat /\ z \in Nat
    BY <1>2, <1>3, <1>9, <1>c
  <2>2. b.size = i + v /\ a.size = k + (z + y) /\ SizeOf(C) = y + v
    BY <1>2, <1>3, <1>9, <1>c
  <2>3. GainLeft(a) = 1 + y
    BY DEF GainLeft, H
  <2>4. Len(I) = i + 1 /\ Len(T) = k - 1
    BY <1>5, <1>d
  <2>5. s = (i + v) + (1 + y) /\ t = (k + (z + y)) - (1 + y)
    BY <2>2, <2>3
  <2> HIDE DEF i, k, v, y, z, s, t
  <2>6. s = (i + 1) + (y + v) /\ t = (k - 1) + z /\ t + s = (k + (z + y)) + (i + v)
    BY <2>1, <2>5
  <2> QED  BY <2>2, <2>4, <2>6 DEF z
<1> HIDE DEF s, t
<1>f. Tree(d, lt, r, g) /\ Within(r, g) = Held(I, C, g)
  <2>1. Len(I) <= 2 * d
    BY <1>2, <1>d
  <2> QED  BY <1>c, <1>e, <2>1, TreeMake
<1>g. Tree(d, lt, l, g) /\ Within(l, g) = Held(T, R, g)
  <2>1. Len(T) <= 2 * d
    BY <1>3, <1>5
  <2> QED  BY <1>9, <1>e, <2>1, TreeMake
<1>h. r.items = I /\ r.size = s /\ l.items = T /\ l.size = t
  BY NodeFields
<1>i. FromLeft(a, x, b) = r /\ RestLeft(a) = l
  BY DEF FromLeft, RestLeft, NbItems, I, C, H, T, R, s, t
<1> HIDE DEF l, r
<1>j. Ordered(lt, Within(l, g), u, Within(r, g))
  <2> DEFINE B == Within(b, g)
             G == Held(none, H, g)
             K == Held(T, R, g)
  <2>1. B \subseteq Values /\ G \subseteq Values /\ K \subseteq Values
    BY <1>2, <1>3, <1>9
  <2>2. Ordered(lt, K \cup {u} \cup G, x, B) /\ Ordered(lt, K, u, G)
    BY <1>0, <1>9
  <2>3. Within(r, g) = G \cup {x} \cup B /\ Within(l, g) = K
    BY <1>c, <1>f, <1>g
  <2> HIDE DEF B, G, K
  <2>4. Ordered(lt, K, u, G \cup {x} \cup B)
    BY <1>0, <1>9, <2>1, <2>2, SharedOrderLeft
  <2> QED  BY <2>3, <2>4
<1>k. Same(AtPivot(x, a, b, g), AtPivot(u, l, r, g))
  BY <1>9, <1>c, <1>f, <1>g DEF Same, AtPivot
<1>l. Len(l.items) >= d /\ Len(r.items) >= d
  <2>1. Len(I) >= d
    BY <1>2, <1>d
  <2>2. Len(T) >= d
    BY <1>3, <1>5
  <2> QED  BY <1>h, <2>1, <2>2
<1>m. Shared(d, lt, g, a, x, b, l, u, r)
  BY <1>9, <1>e, <1>f, <1>g, <1>h, <1>j, <1>k, <1>l DEF Shared
<1> QED  BY <1>i, <1>m DEF u

(***************************************************************************)
(* Two neighbours and the item between them as one node.                   *)
(***************************************************************************)
Merged(d, lt, g, a, x, b, m) ==
  /\ Tree(d, lt, m, g) /\ Same(AtPivot(x, a, b, g), Within(m, g))
  /\ m.size = a.size + 1 + b.size /\ Len(m.items) = Len(a.items) + 1 + Len(b.items)

Joining(a, x, b, s) == Node(a.items \o <<x>> \o b.items, a.children \o b.children, s)

LEMMA JoinTwo ==
  ASSUME NEW d \in Nat, d >= 1, NEW lt, NEW g \in Nat, NEW a, NEW x, NEW b, Apart(d, lt, g, a, x, b),
         Len(a.items) + Len(b.items) < 2 * d, NEW s, s = a.size + 1 + b.size
  PROVE  Merged(d, lt, g, a, x, b, Joining(a, x, b, s))
<1> DEFINE I == (a.items \o <<x>>) \o b.items
           C == a.children \o b.children
<1>0. Tree(d, lt, a, g) /\ Tree(d, lt, b, g) /\ x \in Values /\ Ordered(lt, Within(a, g), x, Within(b, g))
  BY DEF Apart
<1>1. /\ Row(d, lt, a.items, a.children, g) /\ Full(d, a.children) /\ Within(a, g) = Held(a.items, a.children, g)
      /\ Row(d, lt, b.items, b.children, g) /\ Full(d, b.children) /\ Within(b, g) = Held(b.items, b.children, g)
  BY <1>0, TreeUnfold
<1>2. /\ Listed(a.items) /\ Listed(a.children) /\ Len(a.items) \in Nat
      /\ a.size \in Nat /\ a.size = Len(a.items) + SizeOf(a.children)
  BY <1>0, TreeFacts
<1>3. /\ Listed(b.items) /\ Listed(b.children) /\ Len(b.items) \in Nat
      /\ b.size \in Nat /\ b.size = Len(b.items) + SizeOf(b.children)
  BY <1>0, TreeFacts
<1>4. Around(a.items, x, b.items, I) /\ Cat(a.children, b.children, C)
  BY <1>2, <1>3, AroundIs, CatIs
<1>5. Joining(a, x, b, s) = Node(I, C, s)
  BY DEF Joining
<1> HIDE DEF I, C
<1>6. Parted(d, lt, a.items, a.children, x, b.items, b.children, I, C, g)
  <2>1. Divided(a.items, a.children, x, b.items, b.children, I, C)
    BY <1>4 DEF Divided
  <2>2. Ordered(lt, Held(a.items, a.children, g), x, Held(b.items, b.children, g))
    BY <1>0, <1>1
  <2>3. /\ Row(d, lt, a.items, a.children, g) /\ Full(d, a.children)
        /\ Row(d, lt, b.items, b.children, g) /\ Full(d, b.children) /\ x \in Values
    BY <1>0, <1>1
  <2> QED  BY <2>1, <2>2, <2>3, JoinRow
<1>7. /\ Row(d, lt, I, C, g) /\ Full(d, C) /\ Held(I, C, g) = Within(a, g) \cup {x} \cup Within(b, g)
      /\ SizeOf(a.children) \in Nat /\ SizeOf(b.children) \in Nat
      /\ SizeOf(C) = SizeOf(a.children) + SizeOf(b.children)
  BY <1>1, <1>6 DEF Parted
<1>8. Len(I) = Len(a.items) + 1 + Len(b.items)
  BY <1>4 DEF Around
<1>9. s = Len(I) + SizeOf(C)
  <2> DEFINE i == Len(a.items)
             j == Len(b.items)
             y == SizeOf(a.children)
             z == SizeOf(b.children)
  <2>1. i \in Nat /\ j \in Nat /\ y \in Nat /\ z \in Nat
    BY <1>2, <1>3, <1>7
  <2>2. s = (i + y) + 1 + (j + z) /\ Len(I) = i + 1 + j /\ SizeOf(C) = y + z
    BY <1>2, <1>3, <1>7, <1>8
  <2> HIDE DEF i, j, y, z
  <2> QED  BY <2>1, <2>2
<1>a. Len(I) <= 2 * d
  <2> DEFINE i == Len(a.items)
             j == Len(b.items)
  <2>1. i \in Nat /\ j \in Nat /\ i + j < 2 * d
    BY <1>2, <1>3
  <2>2. Len(I) = i + 1 + j
    BY <1>8
  <2> HIDE DEF i, j
  <2>3. i + 1 + j <= 2 * d
    BY <2>1
  <2> QED  BY <2>2, <2>3
<1>b. Tree(d, lt, Node(I, C, s), g) /\ Within(Node(I, C, s), g) = Held(I, C, g)
  BY <1>7, <1>9, <1>a, TreeMake
<1>c. Node(I, C, s).items = I /\ Node(I, C, s).size = s
  BY NodeFields
<1>d. Same(AtPivot(x, a, b, g), Within(Node(I, C, s), g))
  BY <1>7, <1>b DEF Same, AtPivot
<1> QED  BY <1>5, <1>8, <1>b, <1>c, <1>d DEF Merged

(* A list without one of its elements.                                     *)
LEMMA RemoveAtIs ==
  ASSUME NEW s, Listed(s), NEW p \in 0 .. Len(s) - 1, NEW k, k = p + 1
  PROVE  Listed(RemoveAt(s, k)) /\ Put(RemoveAt(s, k), p, s[k], s)
<1> DEFINE n == Len(s)
           j == k + 1
           a == SubSeq(s, 1, p)
           b == SubSeq(s, j, n)
           r == a \o b
<1>1. /\ n \in Nat /\ p \in Nat /\ p < n /\ 1 \in 1 .. Len(s) + 1 /\ p \in 1 - 1 .. Len(s)
      /\ j \in 1 .. Len(s) + 1 /\ n \in j - 1 .. Len(s) /\ k - 1 = p /\ j = p + 2
  BY DEF Listed
<1>2. Part(s, 1, p, a) /\ Part(s, j, n, b)
  BY <1>1, PartIs
<1>3. RemoveAt(s, k) = r
  BY <1>1 DEF RemoveAt
<1>n. n = Len(s)
  OBVIOUS
<1> HIDE DEF a, b, j, n
<1>4. Listed(a) /\ Len(a) = p
  BY <1>1, <1>2 DEF Part
<1>5. Listed(b) /\ Len(b) = n - (p + 1)
  BY <1>1, <1>2 DEF Part
<1>6. Cat(a, b, r)
  BY <1>4, <1>5, CatIs
<1> HIDE DEF r
<1>7. Listed(r) /\ Len(r) = n - 1
  <2>1. Listed(r) /\ Len(r) = p + (n - (p + 1))
    BY <1>4, <1>5, <1>6 DEF Cat
  <2> QED  BY <1>1, <2>1
<1>8. ASSUME NEW i \in 1 .. p PROVE s[i] = r[i]
  <2>1. i \in 1 .. (p - 1) + 1 /\ (1 + i) - 1 = i
    BY <1>1
  <2>2. a[i] = s[(1 + i) - 1]
    BY <1>2, <2>1, Zenon DEF Part
  <2>3. r[i] = a[i]
    BY <1>4, <1>6 DEF Cat
  <2> QED  BY <2>1, <2>2, <2>3
<1>9. ASSUME NEW i \in p + 1 .. n - 1 PROVE s[i + 1] = r[i]
  <2> DEFINE c == i - p
  <2>1. c \in 1 .. (n - j) + 1 /\ (j + c) - 1 = i + 1 /\ c \in 1 .. n - (p + 1) /\ p + c = i
    BY <1>1
  <2> HIDE DEF c
  <2>2. b[c] = s[(j + c) - 1]
    BY <1>2, <2>1, Zenon DEF Part
  <2>3. r[p + c] = b[c]
    BY <1>4, <1>5, <1>6, <2>1 DEF Cat
  <2> QED  BY <2>1, <2>2, <2>3
<1>a. Put(r, p, s[k], s)
  <2>1. Len(s) = Len(r) + 1
    BY <1>1, <1>7, <1>n
  <2>2. \A i \in p + 1 .. Len(r) : s[i + 1] = r[i]
    BY <1>7, <1>9
  <2> QED  BY <1>8, <2>1, <2>2 DEF Put
<1> QED  BY <1>3, <1>7, <1>a

(* A list of which two elements are replaced.                              *)
Twice(s, i, x, j, y, r) ==
  /\ Listed(r) /\ Len(r) = Len(s)
  /\ \A c \in 1 .. Len(s) : r[c] = IF c = i THEN x ELSE IF c = j THEN y ELSE s[c]

LEMMA TwiceIs ==
  ASSUME NEW s, Listed(s), NEW i \in 1 .. Len(s), NEW j \in 1 .. Len(s), i # j, NEW x, NEW y
  PROVE  /\ Twice(s, i, x, j, y, [s EXCEPT ![i] = x, ![j] = y])
         /\ Twice(s, i, x, j, y, [s EXCEPT ![j] = y, ![i] = x])
<1> DEFINE t == [s EXCEPT ![i] = x]
           r == [t EXCEPT ![j] = y]
           u == [s EXCEPT ![j] = y]
           v == [u EXCEPT ![i] = x]
<1>1. With(s, i, x, t) /\ With(s, j, y, u)
  BY WithIs
<1> HIDE DEF t, u
<1>2. j \in 1 .. Len(t) /\ i \in 1 .. Len(u) /\ Listed(t) /\ Listed(u)
  BY <1>1 DEF With
<1>3. With(t, j, y, r) /\ With(u, i, x, v)
  BY <1>2, WithIs
<1> HIDE DEF r, v
<1>4. Twice(s, i, x, j, y, r)
  BY <1>1, <1>3 DEF With, Twice
<1>5. Twice(s, i, x, j, y, v)
  BY <1>1, <1>3 DEF With, Twice
<1> QED  BY <1>4, <1>5 DEF r, v, t, u

(* Two neighbours that together keep their size.                           *)
LEMMA PivotedSize ==
  ASSUME NEW I, NEW C, NEW q \in 1 .. Len(I), NEW e, e = q + 1, NEW u, NEW l, NEW r, NEW J, NEW D,
         Sized(C), Sized(D), Listed(I), Len(C) = Len(I) + 1, Pivoted(I, C, q, u, l, r, J, D),
         l.size + r.size = C[q].size + C[e].size
  PROVE  SizeOf(D) \in Nat /\ SizeOf(D) = SizeOf(C)
<1> DEFINE k == q - 1
<1>0. Listed(C) /\ Listed(D) /\ Len(D) = Len(C) /\ Len(C) \in Nat /\ Len(I) \in Nat
  BY DEF Sized, Listed, Pivoted
<1>1. k \in Nat /\ k + 1 = q /\ k + 2 = e /\ k \in 0 .. Len(C) /\ q \in 1 .. Len(C) /\ e \in 1 .. Len(C)
      /\ q - 1 = k /\ e - 1 = q /\ q # e
  BY <1>0
<1>2. \A c \in 1 .. Len(C) : D[c] = IF c = q THEN l ELSE IF c = e THEN r ELSE C[c]
  BY DEF Pivoted
<1> HIDE DEF k
<1>3. Spliced(C, D, k, 2, 2)
  <2>1. \A i \in 1 .. k : D[i] = C[i]
    BY <1>0, <1>1, <1>2
  <2>2. ASSUME NEW i \in 1 .. Len(C) - (k + 2) PROVE D[(k + 2) + i] = C[(k + 2) + i]
    <3>1. (k + 2) + i \in 1 .. Len(C) /\ (k + 2) + i # q /\ (k + 2) + i # e
      BY <1>0, <1>1
    <3> QED  BY <1>2, <3>1
  <2>3. k + 2 <= Len(C) /\ Len(D) + 2 = Len(C) + 2
    BY <1>0, <1>1
  <2> QED  BY <2>1, <2>2, <2>3 DEF Spliced
<1>4. Sum(D, k) = Sum(C, k) /\ SizeOf(D) + Sum(C, k + 2) = SizeOf(C) + Sum(D, k + 2)
  BY <1>1, <1>3, SizeSpliced
<1>5. /\ Sum(C, q) = Sum(C, k) + C[q].size /\ Sum(C, e) = Sum(C, q) + C[e].size
      /\ Sum(D, q) = Sum(D, k) + D[q].size /\ Sum(D, e) = Sum(D, q) + D[e].size
  BY <1>0, <1>1, SumFacts
<1>6. D[q] = l /\ D[e] = r
  BY <1>1, <1>2
<1>7. /\ SizeOf(C) \in Nat /\ SizeOf(D) \in Nat /\ Sum(C, k) \in Nat
      /\ C[q].size \in Nat /\ C[e].size \in Nat /\ l.size \in Nat /\ r.size \in Nat
  <2>1. SizeOf(C) \in Nat /\ SizeOf(D) \in Nat /\ Sum(C, k) \in Nat
    BY <1>1, SizeNat, SumNat
  <2> QED  BY <1>0, <1>1, <1>6, <2>1 DEF Sized
<1> DEFINE t == Sum(C, k)
           y == C[q].size
           z == C[e].size
           v == l.size
           w == r.size
           all == SizeOf(C)
           new == SizeOf(D)
<1>8. t \in Nat /\ y \in Nat /\ z \in Nat /\ v \in Nat /\ w \in Nat /\ all \in Nat /\ new \in Nat
  BY <1>7
<1>9. new + ((t + y) + z) = all + ((t + v) + w) /\ v + w = y + z
  <2>1. Sum(C, e) = (t + y) + z
    BY <1>5
  <2>2. Sum(D, e) = (t + v) + w
    BY <1>4, <1>5, <1>6
  <2>3. new + Sum(C, e) = all + Sum(D, e)
    BY <1>1, <1>4
  <2> QED  BY <2>1, <2>2, <2>3
<1> HIDE DEF t, y, z, v, w, all, new
<1>a. new = all
  BY <1>8, <1>9
<1> QED  BY <1>7, <1>a DEF new, all

LEMMA NeighboursApart ==
  ASSUME NEW d, NEW lt, NEW I, NEW D, NEW h, Row(d, lt, I, D, h), h # 0, NEW q \in 1 .. Len(I),
         NEW e, e = q + 1, NEW g, g = h - 1
  PROVE  g \in Nat /\ Apart(d, lt, g, D[q], I[q], D[e])
<1>1. Arranged(lt, I, D, h) /\ \A c \in 1 .. Len(D) : Tree(d, lt, D[c], h - 1)
  BY DEF Row
<1>2. /\ h \in Nat /\ Len(I) \in Nat /\ Len(D) = Len(I) + 1 /\ Separated(lt, I, D, h - 1)
      /\ \A i \in 1 .. Len(I) : I[i] \in Values
  BY <1>1 DEF Arranged, NbKids, Listed
<1>3. q \in 1 .. Len(D) /\ e \in 1 .. Len(D) /\ q <= q /\ ~ (e <= q) /\ g \in Nat
  BY <1>2
<1>4. \A x \in Within(D[q], h - 1) : Lesser(lt, x, I[q])
  BY <1>2, <1>3 DEF Separated, Between
<1>5. \A x \in Within(D[e], h - 1) : Lesser(lt, I[q], x)
  BY <1>2, <1>3 DEF Separated, Between
<1> QED  BY <1>1, <1>2, <1>3, <1>4, <1>5 DEF Apart, Ordered

(***************************************************************************)
(* A node of s elements of which the child q has lost an item.             *)
(***************************************************************************)
Slack(d, lt, I, D, s, h, q) ==
  /\ Row(d, lt, I, D, h) /\ h # 0 /\ s = Len(I) + SizeOf(D)
  /\ Len(I) <= 2 * d /\ Len(I) >= 1
  /\ q \in 1 .. Len(D) /\ Len(D[q].items) >= d - 1
  /\ \A c \in 1 .. Len(D) : c # q => Len(D[c].items) >= d

LEMMA SlackFacts ==
  ASSUME NEW d, NEW lt, NEW I, NEW D, NEW s, NEW h, NEW q, Slack(d, lt, I, D, s, h, q)
  PROVE  /\ h \in Nat /\ Listed(I) /\ Len(I) \in Nat /\ Listed(D) /\ Len(D) = Len(I) + 1
         /\ Arranged(lt, I, D, h) /\ Sized(D) /\ SizeOf(D) \in Nat /\ s \in Nat
         /\ \A c \in 1 .. Len(D) : Tree(d, lt, D[c], h - 1) /\ Len(D[c].items) \in Nat
<1>1. Row(d, lt, I, D, h) /\ h # 0 /\ s = Len(I) + SizeOf(D)
  BY DEF Slack
<1>2. Arranged(lt, I, D, h) /\ \A c \in 1 .. Len(D) : Tree(d, lt, D[c], h - 1)
  BY <1>1 DEF Row
<1>3. h \in Nat /\ Listed(I) /\ Len(I) \in Nat /\ Listed(D) /\ Len(D) = Len(I) + 1
  BY <1>1, <1>2 DEF Arranged, NbKids, Listed
<1>4. Sized(D) /\ SizeOf(D) \in Nat
  BY <1>1, RowSized
<1>5. s \in Nat
  BY <1>1, <1>3, <1>4
<1>6. ASSUME NEW c \in 1 .. Len(D) PROVE Len(D[c].items) \in Nat
  <2>1. h - 1 \in Nat
    BY <1>1, <1>3
  <2> QED  BY <1>2, <2>1, TreeFacts
<1> QED  BY <1>2, <1>3, <1>4, <1>5, <1>6

(* What the node, of b items, becomes when it keeps its level.             *)
Kept(d, lt, S, s, b, h, z) ==
  Tree(d, lt, z, h) /\ Same(S, Within(z, h)) /\ z.size = s /\ Len(z.items) >= b

LEMMA ShiftRow ==
  ASSUME NEW d, NEW lt, NEW I, NEW D, NEW s, NEW h, NEW c, Slack(d, lt, I, D, s, h, c),
         NEW q \in 1 .. Len(I), NEW e, e = q + 1, c = q \/ c = e, NEW g, g = h - 1,
         NEW u, NEW l, NEW r, Shared(d, lt, g, D[q], I[q], D[e], l, u, r),
         NEW J, NEW E, Pivoted(I, D, q, u, l, r, J, E)
  PROVE  Kept(d, lt, Held(I, D, h), s, Len(I), h, Node(J, E, s))
<1>1. /\ h \in Nat /\ Listed(I) /\ Len(I) \in Nat /\ Listed(D) /\ Len(D) = Len(I) + 1
      /\ Arranged(lt, I, D, h) /\ Sized(D) /\ SizeOf(D) \in Nat /\ s \in Nat
  BY SlackFacts
<1>2. /\ Row(d, lt, I, D, h) /\ h # 0 /\ s = Len(I) + SizeOf(D) /\ Len(I) <= 2 * d
      /\ \A i \in 1 .. Len(D) : i # c => Len(D[i].items) >= d
  BY DEF Slack
<1>3. /\ Tree(d, lt, l, g) /\ Tree(d, lt, r, g) /\ u \in Values
      /\ Ordered(lt, Within(l, g), u, Within(r, g))
      /\ Same(AtPivot(I[q], D[q], D[e], g), AtPivot(u, l, r, g))
      /\ l.size + r.size = D[q].size + D[e].size
      /\ Len(l.items) >= d /\ Len(r.items) >= d
  BY DEF Shared
<1>4. Arranged(lt, J, E, h) /\ Same(Held(I, D, h), Held(J, E, h))
  <2>1. Same(AtPivot(I[q], D[q], D[q + 1], h - 1), AtPivot(u, l, r, h - 1))
    BY <1>3
  <2>2. (\A y \in Within(l, h - 1) : Lesser(lt, y, u)) /\ (\A y \in Within(r, h - 1) : Lesser(lt, u, y))
    BY <1>3 DEF Ordered
  <2> QED  BY <1>1, <1>2, <1>3, <2>1, <2>2, PivotSame
<1>5. /\ With(I, q, u, J) /\ Listed(E) /\ Len(E) = Len(D)
      /\ \A i \in 1 .. Len(D) : E[i] = IF i = q THEN l ELSE IF i = e THEN r ELSE D[i]
  BY DEF Pivoted
<1>6. ASSUME NEW i \in 1 .. Len(E) PROVE Tree(d, lt, E[i], h - 1) /\ Len(E[i].items) >= d
  <2>1. CASE i = q
    BY <1>3, <1>5, <2>1
  <2>2. CASE i = e
    BY <1>3, <1>5, <2>2
  <2>3. CASE i # q /\ i # e
    BY <1>2, <1>5, <2>3 DEF Row
  <2> QED  BY <2>1, <2>2, <2>3
<1>7. Row(d, lt, J, E, h) /\ Full(d, E)
  BY <1>4, <1>6 DEF Row, Full
<1>8. SizeOf(E) = SizeOf(D)
  <2>1. Sized(E)
    BY <1>7, RowSized
  <2> QED  BY <1>1, <1>3, <2>1, PivotedSize
<1>9. Len(J) = Len(I)
  BY <1>5 DEF With
<1>a. Len(J) <= 2 * d /\ s = Len(J) + SizeOf(E)
  BY <1>2, <1>8, <1>9
<1>b. Tree(d, lt, Node(J, E, s), h) /\ Within(Node(J, E, s), h) = Held(J, E, h)
  BY <1>7, <1>a, TreeMake
<1>c. Node(J, E, s).items = J /\ Node(J, E, s).size = s
  BY NodeFields
<1>d. Len(J) >= Len(I)
  BY <1>1, <1>9
<1> QED  BY <1>4, <1>b, <1>c, <1>d DEF Kept, Same

(* The children D with the ones q and e as one.                            *)
Parting(D, E, p, q, e, m) == Listed(E) /\ Opened(E, p, D[q], D[e], D) /\ E[q] = m

LEMMA JoinRows ==
  ASSUME NEW d \in Nat, NEW lt, NEW I, NEW D, NEW s, NEW h, NEW c, NEW p \in 0 .. Len(I) - 1, NEW q, NEW e,
         NEW g, NEW m, NEW J, NEW E, Slack(d, lt, I, D, s, h, c), q = p + 1, e = q + 1, c = q \/ c = e,
         g = h - 1, Merged(d, lt, g, D[q], I[q], D[e], m), Len(m.items) >= d,
         Listed(J), Put(J, p, I[q], I), Parting(D, E, p, q, e, m)
  PROVE  /\ Tree(d, lt, Node(J, E, s), h) /\ Same(Held(I, D, h), Within(Node(J, E, s), h))
         /\ Len(J) = Len(I) - 1
<1>0. Listed(E) /\ Opened(E, p, D[q], D[e], D) /\ E[q] = m
  BY DEF Parting
<1>1. /\ h \in Nat /\ Listed(I) /\ Len(I) \in Nat /\ Listed(D) /\ Len(D) = Len(I) + 1
      /\ Arranged(lt, I, D, h) /\ Sized(D) /\ SizeOf(D) \in Nat /\ s \in Nat
  BY SlackFacts
<1>2. /\ Row(d, lt, I, D, h) /\ h # 0 /\ s = Len(I) + SizeOf(D) /\ Len(I) <= 2 * d
      /\ \A i \in 1 .. Len(D) : i # c => Len(D[i].items) >= d
  BY DEF Slack
<1>3. /\ Tree(d, lt, m, g) /\ Same(AtPivot(I[q], D[q], D[e], g), Within(m, g))
      /\ m.size = D[q].size + 1 + D[e].size
  BY DEF Merged
<1>4. Len(I) = Len(J) + 1 /\ Len(D) = Len(E) + 1 /\ Len(J) \in Nat /\ Len(E) \in Nat
  BY <1>0 DEF Put, Opened, Listed
<1>5. p \in 0 .. Len(J) /\ p + 1 <= Len(E) /\ p \in Nat /\ p \in 0 .. Len(E) - 1 /\ Len(E) = Len(J) + 1
  BY <1>1, <1>4
<1>6. Within(E[p + 1], h - 1) = AtPivot(I[q], D[q], D[e], h - 1)
  BY <1>0, <1>3 DEF Same
<1>7. Arranged(lt, J, E, h)
  BY <1>0, <1>1, <1>2, <1>5, <1>6, CloseArranged
<1>8. Held(J, E, h) = Held(I, D, h)
  <2> DEFINE S == {}
  <2>1. Both(Within(E[p + 1], h - 1), S, AtPivot(I[q], D[q], D[e], h - 1))
    BY <1>6 DEF Both
  <2> HIDE DEF S
  <2>2. Both(Held(J, E, h), S, Held(I, D, h))
    BY <1>0, <1>5, <2>1, OpenedHeld
  <2> QED  BY <2>2 DEF Both, S
<1>9. ASSUME NEW i \in 1 .. Len(E) PROVE Tree(d, lt, E[i], h - 1) /\ Len(E[i].items) >= d
  <2>1. i = q \/ i \in 1 .. p \/ i \in p + 2 .. Len(E)
    BY <1>4, <1>5
  <2>2. CASE i = q
    BY <1>0, <1>3, <2>2
  <2>3. CASE i \in 1 .. p
    <3>1. i \in 1 .. Len(D) /\ i # c /\ D[i] = E[i]
      BY <1>0, <1>1, <1>4, <1>5, <2>3 DEF Opened
    <3> QED  BY <1>2, <3>1 DEF Row
  <2>4. CASE i \in p + 2 .. Len(E)
    <3>1. i + 1 \in 1 .. Len(D) /\ i + 1 # c /\ D[i + 1] = E[i]
      BY <1>0, <1>1, <1>4, <1>5, <2>4 DEF Opened
    <3> QED  BY <1>2, <3>1 DEF Row
  <2> QED  BY <2>1, <2>2, <2>3, <2>4
<1>a. Row(d, lt, J, E, h) /\ Full(d, E)
  BY <1>7, <1>9 DEF Row, Full
<1>b. s = Len(J) + SizeOf(E)
  <2>1. Sized(E)
    BY <1>a, RowSized
  <2>2. /\ SizeOf(E) \in Nat /\ D[q].size \in Nat /\ D[e].size \in Nat /\ E[q].size \in Nat
        /\ SizeOf(D) + E[q].size = SizeOf(E) + D[q].size + D[e].size
    <3>1. Sized(E) /\ Sized(D) /\ p \in 0 .. Len(E) - 1
      BY <1>1, <1>5, <2>1
    <3> DEFINE l == D[q]
               r == D[e]
    <3>2. Opened(E, p, l, r, D)
      BY <1>0
    <3> HIDE DEF l, r
    <3>3. /\ SizeOf(E) \in Nat /\ l.size \in Nat /\ r.size \in Nat /\ E[q].size \in Nat
          /\ SizeOf(D) + E[q].size = SizeOf(E) + l.size + r.size
      BY <3>1, <3>2, OpenedSize
    <3> QED  BY <3>3 DEF l, r
  <2> DEFINE i == Len(J)
             y == D[q].size
             z == D[e].size
             all == SizeOf(D)
             new == SizeOf(E)
  <2>3. i \in Nat /\ y \in Nat /\ z \in Nat /\ all \in Nat /\ new \in Nat
    BY <1>1, <1>4, <2>2
  <2>4. all + (y + 1 + z) = new + y + z
    BY <1>0, <1>3, <2>2
  <2>5. s = (i + 1) + all
    BY <1>2, <1>4
  <2> HIDE DEF i, y, z, all, new
  <2>6. s = i + new
    BY <2>3, <2>4, <2>5
  <2> QED  BY <2>6 DEF i, new
<1>c. Len(J) <= 2 * d /\ Len(J) = Len(I) - 1
  BY <1>1, <1>2, <1>4
<1>d. Tree(d, lt, Node(J, E, s), h) /\ Within(Node(J, E, s), h) = Held(J, E, h)
  BY <1>a, <1>b, <1>c, TreeMake
<1> QED  BY <1>8, <1>c, <1>d DEF Same

(* A node of which an item and two children are replaced.                  *)
Exchanged(n, i, u, q, l, e, r) ==
  [n EXCEPT !.items[i] = u, !.children[q] = l, !.children[e] = r]

Recast(I, D, s, i, u, q, l, e, r) ==
  Node([I EXCEPT ![i] = u], [D EXCEPT ![q] = l, ![e] = r], s)

LEMMA NodeExcept ==
  ASSUME NEW I, NEW D, NEW s, NEW i, NEW q, NEW e, NEW u, NEW l, NEW r
  PROVE  Exchanged(Node(I, D, s), i, u, q, l, e, r) = Recast(I, D, s, i, u, q, l, e, r)
<1>1. ASSUME NEW J
      PROVE  [Node(J, D, s) EXCEPT !.items[i] = u] = Node([J EXCEPT ![i] = u], D, s)
  BY DEF Node
<1> DEFINE J == [I EXCEPT ![i] = u]
           E == [D EXCEPT ![q] = l]
           n == Node(I, D, s)
           n1 == [n EXCEPT !.items[i] = u]
           n2 == [n1 EXCEPT !.children[q] = l]
           n3 == [n2 EXCEPT !.children[e] = r]
<1>a. n1 = Node(J, D, s)
  BY <1>1
<1> HIDE DEF J, E
<1>b. n2 = Node(J, E, s)
  <2>1. [Node(J, D, s) EXCEPT !.children[q] = l] = Node(J, [D EXCEPT ![q] = l], s)
    BY DEF Node
  <2> HIDE DEF n1
  <2> QED  BY <2>1, <1>a, Zenon DEF E
<1>c. n3 = Node(J, [E EXCEPT ![e] = r], s)
  <2>1. [Node(J, E, s) EXCEPT !.children[e] = r] = Node(J, [E EXCEPT ![e] = r], s)
    BY DEF Node
  <2> HIDE DEF n2
  <2> QED  BY <2>1, <1>b, Zenon
<1> QED  BY <1>c, Zenon DEF J, E, Exchanged, Recast

LEMMA TakeRightIs ==
  ASSUME NEW I, NEW D, NEW s, NEW p \in Nat, NEW q, NEW e, NEW n, n = Node(I, D, s), q = p + 1, e = q + 1
  PROVE  TakeFromRight(n, p) =
           Recast(I, D, s, q, D[e].items[1], q, FromRight(D[q], I[q], D[e]), e, RestRight(D[e]))
<1>1. n.items = I /\ n.children = D
  BY NodeFields
<1>2. p + 2 = e /\ (p + 1) + 1 = e
  OBVIOUS
<1> DEFINE u == D[e].items[1]
           l == FromRight(D[q], I[q], D[e])
           r == RestRight(D[e])
<1>3. TakeFromRight(n, p) = Exchanged(n, q, u, q, l, e, r)
  BY <1>1, <1>2, Zenon DEF Exchanged, TakeFromRight, Child, Item, FromRight, GainRight, MovedRight, RestRight
<1> HIDE DEF u, l, r
<1>4. TakeFromRight(n, p) = Recast(I, D, s, q, u, q, l, e, r)
  BY <1>3, NodeExcept, SMTT(30)
<1> QED  BY <1>4 DEF u, l, r

LEMMA TakeLeftIs ==
  ASSUME NEW I, NEW D, NEW s, NEW p \in Nat, NEW e, NEW n, n = Node(I, D, s), e = p + 1
  PROVE  TakeFromLeft(n, p) =
           Recast(I, D, s, p, Last(D[p].items), e, FromLeft(D[p], I[p], D[e]), p, RestLeft(D[p]))
<1>1. n.items = I /\ n.children = D
  BY NodeFields
<1>2. (p - 1) + 1 = p
  OBVIOUS
<1> DEFINE u == Last(D[p].items)
           l == RestLeft(D[p])
           r == FromLeft(D[p], I[p], D[e])
<1>3. TakeFromLeft(n, p) = Exchanged(n, p, u, e, r, p, l)
  BY <1>1, <1>2, Zenon DEF Exchanged, TakeFromLeft, Child, Item, FromLeft, GainLeft, MovedLeft, RestLeft
<1> HIDE DEF u, l, r
<1>4. TakeFromLeft(n, p) = Recast(I, D, s, p, u, e, r, p, l)
  BY <1>3, NodeExcept, Zenon
<1> QED  BY <1>4 DEF u, l, r

(* A node of which two children are merged.                                *)
Without(I, q) == RemoveAt(I, q)

WithMerged(D, q, m, e) == RemoveAt([D EXCEPT ![q] = m], e)

MergedPair(D, I, q, e) == Joining(D[q], I[q], D[e], D[q].size + 1 + D[e].size)

Merging(I, D, s, q, e, k, z) ==
  z = IF k = 1 /\ Len(I) = 1 THEN Joining(D[q], I[q], D[e], s)
      ELSE Node(Without(I, q), WithMerged(D, q, MergedPair(D, I, q, e), e), s)

LEMMA MergeIs ==
  ASSUME NEW I, NEW D, NEW s, NEW p \in Nat, NEW q, NEW e, NEW k,
         NEW n, n = Node(I, D, s), q = p + 1, e = q + 1
  PROVE  Merging(I, D, s, q, e, k, Merge(n, p, k = 1))
<1>1. n.items = I /\ n.children = D /\ n.size = s
  BY NodeFields
<1>2. p + 2 = e /\ (p + 1) + 1 = e
  OBVIOUS
<1> QED  BY <1>1, <1>2, Zenon DEF Merging, Merge, Child, Item, NbItems, Joining, MergedPair, WithMerged, Without

(* How the node is rebalanced.                                             *)
Spare(d, I, D, q) == q \in 1 .. Len(I) + 1 /\ Len(D[q].items) > d

Rebalanced(d, I, D, s, n, p, k, z) ==
  z = IF Len(D[p + 1].items) >= d THEN n
      ELSE IF Spare(d, I, D, p + 2) THEN TakeFromRight(n, p)
      ELSE IF Spare(d, I, D, p) THEN TakeFromLeft(n, p)
      ELSE Merge(n, IF p < Len(I) THEN p ELSE p - 1, k = 1)

LEMMA RebalanceUnfold ==
  ASSUME NEW d, Half(M, d), NEW I, NEW D, NEW s, NEW p \in Nat, NEW k, NEW n,
         Len(I) \in Nat, n = Node(I, D, s)
  PROVE  Rebalanced(d, I, D, s, n, p, k, Rebalance(n, p, k = 1))
<1>1. n.items = I /\ n.children = D /\ M \div 2 = d
  BY NodeFields, HalfFacts, SMTT(30)
<1>2. /\ (p + 1) + 1 = p + 2 /\ (p - 1) + 1 = p
      /\ p + 1 \in 0 .. Len(I) <=> p + 2 \in 1 .. Len(I) + 1
      /\ p - 1 \in 0 .. Len(I) <=> p \in 1 .. Len(I) + 1
  OBVIOUS
<1> QED  BY <1>1, <1>2, Zenon DEF Rebalance, Rebalanced, Spare, Child, NbItems

LEMMA StayKept ==
  ASSUME NEW d, NEW lt, NEW I, NEW D, NEW s, NEW h, NEW q, Slack(d, lt, I, D, s, h, q),
         Len(D[q].items) >= d
  PROVE  Kept(d, lt, Held(I, D, h), s, Len(I), h, Node(I, D, s))
<1>1. Row(d, lt, I, D, h) /\ Len(I) <= 2 * d /\ s = Len(I) + SizeOf(D)
  BY DEF Slack
<1>2. Full(d, D)
  BY Zenon DEF Slack, Full
<1>3. /\ Tree(d, lt, Node(I, D, s), h)
      /\ Within(Node(I, D, s), h) = Held(I, D, h)
  BY <1>1, <1>2, TreeMake
<1>4. Node(I, D, s).size = s /\ Len(Node(I, D, s).items) = Len(I) /\ Len(I) >= Len(I)
  <2>1. Node(I, D, s).items = I /\ Node(I, D, s).size = s
    BY NodeFields
  <2>2. Len(I) \in Nat
    BY SlackFacts
  <2> QED  BY <2>1, <2>2
<1> QED  BY <1>3, <1>4, Zenon DEF Kept, Same

(* Two children and the item between them, exchanged for others.           *)
Turned(I, D, s, q, u, l, r, z) ==
  \E J, E : Pivoted(I, D, q, u, l, r, J, E) /\ z = Node(J, E, s)

LEMMA RecastPivoted ==
  ASSUME NEW I, NEW D, NEW s, NEW q \in 1 .. Len(I), NEW e, NEW u, NEW l, NEW r,
         Listed(I), Listed(D), Len(D) = Len(I) + 1, e = q + 1
  PROVE  /\ Turned(I, D, s, q, u, l, r, Recast(I, D, s, q, u, q, l, e, r))
         /\ Turned(I, D, s, q, u, l, r, Recast(I, D, s, q, u, e, r, q, l))
<1> DEFINE J == [I EXCEPT ![q] = u]
           E == [D EXCEPT ![q] = l, ![e] = r]
           F == [D EXCEPT ![e] = r, ![q] = l]
<1>0. Len(I) \in Nat /\ q \in 1 .. Len(D) /\ e \in 1 .. Len(D) /\ q # e
  BY DEF Listed
<1>1. With(I, q, u, J)
  BY WithIs
<1>2. Twice(D, q, l, e, r, E) /\ Twice(D, q, l, e, r, F)
  BY <1>0, TwiceIs
<1>3. Recast(I, D, s, q, u, q, l, e, r) = Node(J, E, s) /\ Recast(I, D, s, q, u, e, r, q, l) = Node(J, F, s)
  BY Zenon DEF Recast
<1> HIDE DEF J, E, F
<1>4. Pivoted(I, D, q, u, l, r, J, E) /\ Pivoted(I, D, q, u, l, r, J, F)
  BY <1>1, <1>2, Zenon DEF Pivoted, Twice
<1> QED  BY <1>3, <1>4, Zenon DEF Turned

Thin(d, n) == Len(n.items) < d

LEMMA TakeRightKept ==
  ASSUME NEW d \in Nat, d >= 1, NEW lt, NEW I, NEW D, NEW s, NEW h, NEW q, Slack(d, lt, I, D, s, h, q),
         NEW p \in Nat, q = p + 1, NEW e, e = q + 1, Spare(d, I, D, e), Thin(d, D[q]),
         NEW n, n = Node(I, D, s)
  PROVE  Kept(d, lt, Held(I, D, h), s, Len(I), h, TakeFromRight(n, p))
<1>1. /\ h \in Nat /\ Listed(I) /\ Len(I) \in Nat /\ Listed(D) /\ Len(D) = Len(I) + 1
  BY SlackFacts
<1>2. q \in 1 .. Len(I) /\ Len(D[e].items) > d
  BY <1>1 DEF Spare
<1>3. Row(d, lt, I, D, h) /\ h # 0 /\ Len(D[q].items) >= d - 1 /\ Len(D[q].items) < d
  BY DEF Slack, Thin
<1> DEFINE g == h - 1
           u == D[e].items[1]
           l == FromRight(D[q], I[q], D[e])
           r == RestRight(D[e])
<1>4. g \in Nat /\ Apart(d, lt, g, D[q], I[q], D[e])
  BY <1>2, <1>3, NeighboursApart
<1>g. g = h - 1
  OBVIOUS
<1> HIDE DEF g
<1>5. Shared(d, lt, g, D[q], I[q], D[e], l, u, r)
  <2> HIDE DEF l, u, r
  <2> QED  BY <1>4, <1>2, <1>3, ShareRight DEF l, u, r
<1>6. TakeFromRight(n, p) = Recast(I, D, s, q, u, q, l, e, r)
  BY TakeRightIs
<1> HIDE DEF u, l, r
<1>r. Turned(I, D, s, q, u, l, r, Recast(I, D, s, q, u, q, l, e, r))
  BY <1>1, <1>2, RecastPivoted
<1>7. PICK J, E : Pivoted(I, D, q, u, l, r, J, E) /\ Recast(I, D, s, q, u, q, l, e, r) = Node(J, E, s)
  BY <1>r DEF Turned
<1>8. q = q \/ q = e
  OBVIOUS
<1>9. Kept(d, lt, Held(I, D, h), s, Len(I), h, Node(J, E, s))
  BY <1>2, <1>g, <1>5, <1>7, <1>8, ShiftRow
<1> QED  BY <1>6, <1>7, <1>9, Zenon

LEMMA TakeLeftKept ==
  ASSUME NEW d \in Nat, d >= 1, NEW lt, NEW I, NEW D, NEW s, NEW h, NEW e, Slack(d, lt, I, D, s, h, e),
         NEW p \in Nat, e = p + 1, Spare(d, I, D, p), Thin(d, D[e]), NEW n, n = Node(I, D, s)
  PROVE  Kept(d, lt, Held(I, D, h), s, Len(I), h, TakeFromLeft(n, p))
<1>1. /\ h \in Nat /\ Listed(I) /\ Len(I) \in Nat /\ Listed(D) /\ Len(D) = Len(I) + 1
  BY SlackFacts
<1>3. Row(d, lt, I, D, h) /\ h # 0 /\ Len(D[e].items) >= d - 1 /\ e \in 1 .. Len(D) /\ Len(D[e].items) < d
  BY DEF Slack, Thin
<1>2. p \in 1 .. Len(I) /\ Len(D[p].items) > d
  BY <1>1, <1>3 DEF Spare
<1> DEFINE g == h - 1
           u == Last(D[p].items)
           r == FromLeft(D[p], I[p], D[e])
           l == RestLeft(D[p])
<1>4. g \in Nat /\ Apart(d, lt, g, D[p], I[p], D[e])
  BY <1>2, <1>3, NeighboursApart
<1>g. g = h - 1
  OBVIOUS
<1> HIDE DEF g
<1>5. Shared(d, lt, g, D[p], I[p], D[e], l, u, r)
  <2> HIDE DEF l, u, r
  <2> QED  BY <1>4, <1>2, <1>3, ShareLeft DEF l, u, r
<1>6. TakeFromLeft(n, p) = Recast(I, D, s, p, u, e, r, p, l)
  BY TakeLeftIs
<1> HIDE DEF u, l, r
<1>r. Turned(I, D, s, p, u, l, r, Recast(I, D, s, p, u, e, r, p, l))
  BY <1>1, <1>2, RecastPivoted
<1>7. PICK J, E : Pivoted(I, D, p, u, l, r, J, E) /\ Recast(I, D, s, p, u, e, r, p, l) = Node(J, E, s)
  BY <1>r DEF Turned
<1>8. e = p \/ e = e
  OBVIOUS
<1>9. Kept(d, lt, Held(I, D, h), s, Len(I), h, Node(J, E, s))
  BY <1>2, <1>g, <1>5, <1>7, <1>8, ShiftRow
<1> QED  BY <1>6, <1>7, <1>9, Zenon

(* What becomes of the root, or of another node, that holds S: a root of   *)
(* one item may be left out of the tree.                                   *)
Balanced(d, lt, S, s, b, h, k, z) ==
  \/ Kept(d, lt, S, s, b - 1, h, z) /\ (k = 1 => Len(z.items) >= 1)
  \/ /\ k = 1 /\ h # 0 /\ Tree(d, lt, z, h - 1) /\ Same(S, Within(z, h - 1))
     /\ Len(z.items) >= 1

LEMMA KeptBalanced ==
  ASSUME NEW d, NEW lt, NEW S, NEW s, NEW b \in Nat, NEW h \in Nat, NEW k, NEW z,
         Kept(d, lt, S, s, b, h, z), b >= 1
  PROVE  Balanced(d, lt, S, s, b, h, k, z)
<1>1. Tree(d, lt, z, h) /\ Same(S, Within(z, h)) /\ z.size = s /\ Len(z.items) >= b
  BY DEF Kept
<1>2. Len(z.items) \in Nat
  BY <1>1, TreeFacts
<1>3. Len(z.items) >= b - 1 /\ Len(z.items) >= 1
  BY <1>1, <1>2
<1> QED  BY <1>1, <1>3, Zenon DEF Balanced, Kept

(* The only item of a row of two children.                                 *)
LEMMA OneHeld ==
  ASSUME NEW I, NEW D, NEW h, NEW g, Listed(I), Len(D) = Len(I) + 1, Len(I) = 1, g = h - 1
  PROVE  Same(Held(I, D, h), AtPivot(I[1], D[1], D[2], g))
<1>1. \A y : y \in Held(I, D, h) <=>
           \/ \E i \in 1 .. Len(I) : y = I[i]
           \/ \E c \in 1 .. Len(D) : y \in Within(D[c], h - 1)
  BY HeldHas
<1>2. \A y : y \in AtPivot(I[1], D[1], D[2], g) <=> y = I[1] \/ y \in Within(D[1], g) \/ y \in Within(D[2], g)
  BY Zenon DEF AtPivot
<1>3. 1 .. Len(I) = {1} /\ 1 .. Len(D) = {1, 2}
  OBVIOUS
<1>4. \A y : y \in Held(I, D, h) <=> y = I[1] \/ y \in Within(D[1], g) \/ y \in Within(D[2], g)
  BY <1>1, <1>3, Zenon
<1> QED  BY <1>2, <1>4, Zenon DEF Same

LEMMA SizeTwo ==
  ASSUME NEW C, Sized(C), Len(C) = 2
  PROVE  SizeOf(C) = C[1].size + C[2].size
<1>1. /\ Sum(C, 0) = 0 /\ SizeOf(C) = Sum(C, 2)
      /\ \A k \in 1 .. 2 : Sum(C, k) = Sum(C, k - 1) + C[k].size
  BY SumFacts DEF Sized
<1>2. C[1].size \in Nat /\ C[2].size \in Nat
  BY DEF Sized
<1>3. Sum(C, 1) = Sum(C, 1 - 1) + C[1].size /\ Sum(C, 2) = Sum(C, 2 - 1) + C[2].size
  BY <1>1
<1>4. 1 - 1 = 0 /\ 2 - 1 = 1
  OBVIOUS
<1>5. Sum(C, 1) = 0 + C[1].size /\ Sum(C, 2) = Sum(C, 1) + C[2].size
  BY <1>1, <1>3, <1>4, Zenon
<1> QED  BY <1>1, <1>2, <1>5

Few(d, a, b) == Len(a.items) + Len(b.items) < 2 * d

(* The two children c and c + 1, at least one of them full enough.         *)
Fewer(d, D, q, e) ==
  Few(d, D[q], D[e]) /\ (Len(D[q].items) >= d \/ Len(D[e].items) >= d)

LEMMA MergedNeighbours ==
  ASSUME NEW d \in Nat, NEW lt, NEW I, NEW D, NEW s, NEW h, NEW c, NEW p \in 0 .. Len(I) - 1, NEW q, NEW e,
         NEW g, NEW m, NEW t, d >= 1, Slack(d, lt, I, D, s, h, c), q = p + 1, e = q + 1, g = h - 1,
         Fewer(d, D, q, e), t = D[q].size + 1 + D[e].size, m = Joining(D[q], I[q], D[e], t)
  PROVE  Merged(d, lt, g, D[q], I[q], D[e], m) /\ Len(m.items) >= d
<1>1. /\ h \in Nat /\ Listed(I) /\ Len(I) \in Nat /\ Listed(D) /\ Len(D) = Len(I) + 1
      /\ \A i \in 1 .. Len(D) : Tree(d, lt, D[i], h - 1) /\ Len(D[i].items) \in Nat
  BY SlackFacts
<1>2. q \in 1 .. Len(I) /\ q \in 1 .. Len(D) /\ e \in 1 .. Len(D) /\ h # 0 /\ Row(d, lt, I, D, h)
  BY <1>1 DEF Slack
<1>3. g \in Nat /\ Apart(d, lt, g, D[q], I[q], D[e])
  BY <1>2, NeighboursApart
<1> DEFINE a == D[q]
           b == D[e]
           x == I[q]
<1>4. Len(a.items) + Len(b.items) < 2 * d /\ (Len(a.items) >= d \/ Len(b.items) >= d)
  BY DEF Fewer, Few
<1>5. g \in Nat /\ Apart(d, lt, g, a, x, b) /\ t = a.size + 1 + b.size /\ m = Joining(a, x, b, t)
  BY <1>3
<1>n. Len(a.items) \in Nat /\ Len(b.items) \in Nat
  BY <1>1, <1>2
<1>6. Merged(d, lt, g, a, x, b, m)
  <2> HIDE DEF a, b, x
  <2>1. Len(a.items) + Len(b.items) < 2 * d
    BY <1>4
  <2> QED  BY <1>5, <2>1, JoinTwo
<1>7. Len(m.items) = Len(a.items) + 1 + Len(b.items)
  BY <1>6 DEF Merged
<1>8. Len(m.items) >= d
  <2> DEFINE la == Len(a.items)
             lb == Len(b.items)
             lm == Len(m.items)
  <2>1. la \in Nat /\ lb \in Nat /\ lm = la + 1 + lb /\ (la >= d \/ lb >= d)
    BY <1>4, <1>7, <1>n
  <2> HIDE DEF la, lb, lm
  <2>2. lm >= d
    BY <2>1
  <2> QED  BY <2>2 DEF lm
<1> QED  BY <1>6, <1>8

(* The children of two neighbours as one of them is replaced by both.      *)
LEMMA MergedKids ==
  ASSUME NEW D, NEW p \in Nat, NEW q, NEW e, NEW m, NEW E, Listed(D), q = p + 1, e = q + 1,
         e \in 1 .. Len(D), E = WithMerged(D, q, m, e)
  PROVE  Parting(D, E, p, q, e, m)
<1> DEFINE F == [D EXCEPT ![q] = m]
<1>0. Len(D) \in Nat /\ q \in 1 .. Len(D) /\ q \in Nat /\ e \in Nat
  BY DEF Listed
<1>1. With(D, q, m, F)
  BY <1>0, WithIs
<1>2. E = RemoveAt(F, e)
  BY DEF WithMerged
<1> HIDE DEF F
<1>3. /\ Listed(F) /\ Len(F) = Len(D)
      /\ \A i \in 1 .. Len(D) : F[i] = IF i = q THEN m ELSE D[i]
  BY <1>1, Zenon DEF With
<1>4. q \in 0 .. Len(F) - 1
  BY <1>0, <1>3
<1>5. Listed(E) /\ Put(E, q, F[e], F)
  BY <1>2, <1>3, <1>4, RemoveAtIs
<1>6. /\ Len(F) = Len(E) + 1 /\ Len(E) \in Nat
      /\ \A i \in 1 .. q : F[i] = E[i]
      /\ \A i \in q + 1 .. Len(E) : F[i + 1] = E[i]
  BY <1>5 DEF Put, Listed
<1>7. E[q] = m
  <2>1. q \in 1 .. q
    BY <1>0
  <2> QED  BY <1>0, <1>3, <1>6, <2>1, Zenon
<1>8. ASSUME NEW i \in 1 .. p PROVE D[i] = E[i]
  <2>1. i \in 1 .. q /\ i \in 1 .. Len(D) /\ i # q
    BY <1>0
  <2> QED  BY <1>3, <1>6, <2>1, Zenon
<1>9. ASSUME NEW i \in p + 2 .. Len(E) PROVE D[i + 1] = E[i]
  <2>1. i \in q + 1 .. Len(E) /\ i + 1 \in 1 .. Len(D) /\ i + 1 # q
    BY <1>0, <1>3, <1>6
  <2> QED  BY <1>3, <1>6, <2>1, Zenon
<1>a. Len(D) = Len(E) + 1 /\ p + 1 = q /\ p + 2 = e
  BY <1>3, <1>6
<1> QED  BY <1>5, <1>7, <1>8, <1>9, <1>a, Zenon DEF Opened, Parting

LEMMA MergeBalanced ==
  ASSUME NEW d \in Nat, NEW lt, NEW I, NEW D, NEW s, NEW h, NEW c, NEW p \in 0 .. Len(I) - 1, NEW q, NEW e,
         NEW n, NEW k, d >= 1, Slack(d, lt, I, D, s, h, c), q = p + 1, e = q + 1, c = q \/ c = e,
         Fewer(d, D, q, e), n = Node(I, D, s)
  PROVE  Balanced(d, lt, Held(I, D, h), s, Len(I), h, k, Merge(n, p, k = 1))
<1> DEFINE g == h - 1
           t == D[q].size + 1 + D[e].size
           m == MergedPair(D, I, q, e)
           J == Without(I, q)
           E == WithMerged(D, q, m, e)
           z == Merge(n, p, k = 1)
<1>1. /\ h \in Nat /\ Listed(I) /\ Len(I) \in Nat /\ Listed(D) /\ Len(D) = Len(I) + 1 /\ Sized(D)
  BY SlackFacts
<1>2. p \in Nat /\ e \in 1 .. Len(D) /\ q \in 1 .. Len(I) /\ h # 0 /\ s = Len(I) + SizeOf(D)
  BY <1>1 DEF Slack
<1>a. Merging(I, D, s, q, e, k, Merge(n, p, k = 1))
  BY <1>2, MergeIs
<1>3. z = IF k = 1 /\ Len(I) = 1 THEN Joining(D[q], I[q], D[e], s) ELSE Node(J, E, s)
  BY <1>a, Zenon DEF Merging
<1> SUFFICES Balanced(d, lt, Held(I, D, h), s, Len(I), h, k, z)
  OBVIOUS
<1>g. g = h - 1 /\ t = D[q].size + 1 + D[e].size /\ m = Joining(D[q], I[q], D[e], t)
      /\ E = WithMerged(D, q, m, e) /\ J = RemoveAt(I, q)
  BY Zenon DEF MergedPair, Without
<1> HIDE DEF g, t, m, z, E, J
<1>4. Merged(d, lt, g, D[q], I[q], D[e], m) /\ Len(m.items) >= d
  BY <1>g, MergedNeighbours
<1>5. CASE k = 1 /\ Len(I) = 1
  <2>1. q = 1 /\ e = 2 /\ p = 0
    BY <1>5
  <2>2. Same(Held(I, D, h), AtPivot(I[1], D[1], D[2], g))
    BY <1>1, <1>5, <1>g, OneHeld
  <2>3. SizeOf(D) = D[1].size + D[2].size /\ D[1].size \in Nat /\ D[2].size \in Nat
    <3>1. Len(D) = 2
      BY <1>1, <1>5
    <3>2. SizeOf(D) = D[1].size + D[2].size
      BY <1>1, <3>1, SizeTwo
    <3> QED  BY <1>1, <3>1, <3>2 DEF Sized
  <2>4. s = D[1].size + 1 + D[2].size
    BY <1>2, <1>5, <2>3
  <2>5. s = t
    BY <1>g, <2>1, <2>4
  <2>6. z = m
    BY <1>3, <1>5, <1>g, <2>5, Zenon
  <2>7. Tree(d, lt, m, g) /\ Same(AtPivot(I[q], D[q], D[e], g), Within(m, g))
    BY <1>4 DEF Merged
  <2>8. Same(Held(I, D, h), Within(m, g))
    BY <2>1, <2>2, <2>7, Zenon DEF Same
  <2>9. Len(m.items) >= 1
    <3>1. g \in Nat
      BY <1>1, <1>2, <1>g
    <3>2. Len(m.items) \in Nat
      BY <2>7, <3>1, TreeFacts
    <3> QED  BY <1>4, <3>2
  <2>a. Tree(d, lt, z, h - 1) /\ Same(Held(I, D, h), Within(z, h - 1)) /\ Len(z.items) >= 1
    BY <1>g, <2>6, <2>7, <2>8, <2>9
  <2> QED  BY <1>2, <1>5, <2>a, Zenon DEF Balanced
<1>6. CASE ~ (k = 1 /\ Len(I) = 1)
  <2>1. Parting(D, E, p, q, e, m)
    BY <1>1, <1>2, <1>g, MergedKids
  <2>2. Listed(J) /\ Put(J, p, I[q], I)
    BY <1>1, <1>2, <1>g, RemoveAtIs
  <2>3. /\ Tree(d, lt, Node(J, E, s), h) /\ Same(Held(I, D, h), Within(Node(J, E, s), h))
        /\ Len(J) = Len(I) - 1
    BY <1>g, <1>4, <2>1, <2>2, JoinRows
  <2>4. z = Node(J, E, s) /\ Node(J, E, s).items = J /\ Node(J, E, s).size = s
    <3>1. Node(J, E, s).items = J /\ Node(J, E, s).size = s
      BY NodeFields
    <3> QED  BY <1>3, <1>6, <3>1, Zenon
  <2>5. Len(J) >= Len(I) - 1 /\ (k = 1 => Len(J) >= 1)
    BY <1>1, <1>6, <2>3
  <2> QED  BY <2>3, <2>4, <2>5, Zenon DEF Balanced, Kept
<1> QED  BY <1>5, <1>6

LEMMA ThinFewer ==
  ASSUME NEW d \in Nat, NEW D, NEW q, NEW e, Len(D[q].items) \in Nat, Len(D[e].items) \in Nat,
         \/ Len(D[q].items) < d /\ Len(D[e].items) = d
         \/ Len(D[e].items) < d /\ Len(D[q].items) = d
  PROVE  Fewer(d, D, q, e)
<1> DEFINE x == Len(D[q].items)
           y == Len(D[e].items)
<1>1. x \in Nat /\ y \in Nat /\ ((x < d /\ y = d) \/ (y < d /\ x = d))
  OBVIOUS
<1> SUFFICES x + y < 2 * d /\ (x >= d \/ y >= d)
  BY DEF Fewer, Few
<1> HIDE DEF x, y
<1> QED  BY <1>1

(***************************************************************************)
(* A node whose child at p may have an item too few, rebalanced.           *)
(***************************************************************************)
LEMMA RebalanceIs ==
  ASSUME NEW d, NEW lt, NEW I, NEW D, NEW s, NEW h, NEW q, NEW p \in Nat, NEW n, NEW k, Half(M, d),
         Slack(d, lt, I, D, s, h, q), q = p + 1, n = Node(I, D, s)
  PROVE  Balanced(d, lt, Held(I, D, h), s, Len(I), h, k, Rebalance(n, p, k = 1))
<1> DEFINE z == Rebalance(n, p, k = 1)
           S == Held(I, D, h)
           e == p + 2
<1>0. d \in Nat /\ d >= 1
  BY HalfFacts
<1>1. /\ h \in Nat /\ Len(I) \in Nat /\ Len(D) = Len(I) + 1
      /\ \A c \in 1 .. Len(D) : Len(D[c].items) \in Nat
  BY SlackFacts
<1>2. /\ q \in 1 .. Len(D) /\ Len(I) >= 1 /\ Len(D[q].items) >= d - 1
      /\ \A c \in 1 .. Len(D) : c # q => Len(D[c].items) >= d
  BY DEF Slack
<1>a. Rebalanced(d, I, D, s, n, p, k, z)
  BY <1>1, RebalanceUnfold
<1> SUFFICES Balanced(d, lt, S, s, Len(I), h, k, z)
  OBVIOUS
<1>e. e = q + 1 /\ e = p + 2
  OBVIOUS
<1> HIDE DEF z, e
<1>3. ASSUME NEW y, Kept(d, lt, S, s, Len(I), h, y)
      PROVE  Balanced(d, lt, S, s, Len(I), h, k, y)
  <2> HIDE DEF S
  <2> QED  BY <1>1, <1>2, <1>3, KeptBalanced
<1>4. CASE Len(D[q].items) >= d
  <2>1. z = n
    BY <1>4, <1>a, Zenon DEF Rebalanced
  <2>2. Kept(d, lt, S, s, Len(I), h, n)
    BY <1>4, StayKept
  <2> QED  BY <1>3, <2>1, <2>2
<1>5. CASE ~ (Len(D[q].items) >= d)
  <2>1. Thin(d, D[q]) /\ Len(D[q].items) < d
    BY <1>0, <1>1, <1>2, <1>5 DEF Thin
  <2>2. z = IF Spare(d, I, D, e) THEN TakeFromRight(n, p)
            ELSE IF Spare(d, I, D, p) THEN TakeFromLeft(n, p)
            ELSE Merge(n, IF p < Len(I) THEN p ELSE p - 1, k = 1)
    BY <1>5, <1>a, <1>e, Zenon DEF Rebalanced
  <2>3. CASE Spare(d, I, D, e)
    <3>1. Kept(d, lt, S, s, Len(I), h, TakeFromRight(n, p))
      BY <1>0, <1>e, <2>1, <2>3, TakeRightKept
    <3> QED  BY <1>3, <2>2, <2>3, <3>1, Zenon
  <2>4. CASE ~ Spare(d, I, D, e) /\ Spare(d, I, D, p)
    <3>1. Kept(d, lt, S, s, Len(I), h, TakeFromLeft(n, p))
      BY <1>0, <2>1, <2>4, TakeLeftKept
    <3> QED  BY <1>3, <2>2, <2>4, <3>1, Zenon
  <2>5. CASE ~ Spare(d, I, D, e) /\ ~ Spare(d, I, D, p)
    <3>1. CASE p < Len(I)
      <4>1. z = Merge(n, p, k = 1)
        BY <2>2, <2>5, <3>1, Zenon
      <4>2. e \in 1 .. Len(D) /\ e # q
        BY <1>1, <1>2, <1>e, <3>1
      <4>3. Len(D[e].items) = d
        BY <1>0, <1>1, <1>2, <2>5, <4>2 DEF Spare
      <4>4. Fewer(d, D, q, e)
        BY <1>0, <1>1, <1>2, <2>1, <4>2, <4>3, ThinFewer
      <4>5. p \in 0 .. Len(I) - 1 /\ (q = q \/ q = e)
        BY <1>1, <3>1
      <4>6. Balanced(d, lt, S, s, Len(I), h, k, Merge(n, p, k = 1))
        BY <1>0, <1>e, <4>4, <4>5, MergeBalanced
      <4> QED  BY <4>1, <4>6, Zenon
    <3>2. CASE ~ (p < Len(I))
      <4> DEFINE o == p - 1
      <4>1. z = Merge(n, o, k = 1)
        BY <2>2, <2>5, <3>2, Zenon
      <4>2. p = Len(I) /\ p \in 1 .. Len(D) /\ p # q
        BY <1>1, <1>2, <3>2
      <4>3. Len(D[p].items) = d
        BY <1>0, <1>1, <1>2, <2>5, <4>2 DEF Spare
      <4>4. Fewer(d, D, p, q)
        BY <1>0, <1>1, <1>2, <2>1, <4>2, <4>3, ThinFewer
      <4>5. o \in 0 .. Len(I) - 1 /\ p = o + 1 /\ (q = p \/ q = q)
        BY <1>1, <4>2
      <4> HIDE DEF o
      <4>6. Balanced(d, lt, S, s, Len(I), h, k, Merge(n, o, k = 1))
        BY <1>0, <4>4, <4>5, MergeBalanced
      <4> QED  BY <4>1, <4>6, Zenon
    <3> QED  BY <3>1, <3>2
  <2> QED  BY <2>3, <2>4, <2>5
<1> QED  BY <1>4, <1>5

(***************************************************************************)
(* A node of which a child has lost an element.                            *)
(***************************************************************************)
ReducedKid(d, lt, c, g, u, b) ==
  Kept(d, lt, Within(c, g) \ {u}, c.size - 1, Len(c.items) - 1, g, b)

Reduced(d, lt, n, h, u, i, a) ==
  Balanced(d, lt, Within(n, h) \ {u}, n.size - 1, Len(n.items), h, i, a)

LEMMA ReducedBelow ==
  ASSUME NEW d, NEW lt, NEW n, NEW h, NEW u, NEW i, NEW a, Reduced(d, lt, n, h, u, i, a), i # 1
  PROVE  ReducedKid(d, lt, n, h, u, a)
BY Zenon DEF Reduced, ReducedKid, Balanced

LEMMA SlackMake ==
  ASSUME NEW d \in Nat, NEW lt, NEW I, NEW C, NEW J, NEW D, NEW h, NEW s, NEW q \in 1 .. Len(C), NEW b, NEW g,
         NEW t, NEW u, Row(d, lt, I, C, h), Full(d, C), h # 0, Len(I) >= 1, Len(I) <= 2 * d, s = Len(I) + SizeOf(C),
         Len(J) = Len(I), Arranged(lt, J, D, h), With(C, q, b, D), g = h - 1,
         ReducedKid(d, lt, C[q], g, u, b), t = s - 1
  PROVE  Slack(d, lt, J, D, t, h, q)
<1>1. Sized(C) /\ SizeOf(C) \in Nat
  BY RowSized
<1>2. /\ h \in Nat /\ Len(I) \in Nat
      /\ \A c \in 1 .. Len(C) : Tree(d, lt, C[c], h - 1) /\ Len(C[c].items) >= d
  BY DEF Row, Full, Arranged, Listed
<1>3. /\ Listed(D) /\ Len(D) = Len(C)
      /\ \A i \in 1 .. Len(C) : D[i] = IF i = q THEN b ELSE C[i]
  BY Zenon DEF With
<1>4. /\ Tree(d, lt, b, g) /\ b.size = C[q].size - 1 /\ Len(b.items) >= Len(C[q].items) - 1
  BY DEF ReducedKid, Kept
<1>5. g \in Nat /\ Tree(d, lt, C[q], g) /\ Len(C[q].items) >= d
  BY <1>2
<1>6. b.size \in Nat /\ Len(b.items) \in Nat /\ Len(C[q].items) \in Nat /\ C[q].size \in Nat
  <2>1. b.size \in Nat /\ Len(b.items) \in Nat
    BY <1>4, <1>5, TreeFacts
  <2>2. Len(C[q].items) \in Nat /\ C[q].size \in Nat
    BY <1>5, TreeFacts
  <2> QED  BY <2>1, <2>2
<1>7. SizeOf(D) \in Nat /\ SizeOf(D) + C[q].size = SizeOf(C) + b.size
  BY <1>1, <1>6, ReplacedSize
<1>8. t = Len(J) + SizeOf(D)
  <2> DEFINE x == SizeOf(C)
             y == SizeOf(D)
             cs == C[q].size
             bs == b.size
             l == Len(I)
             j == Len(J)
  <2>1. x \in Nat /\ y \in Nat /\ cs \in Nat /\ bs \in Nat /\ l \in Nat /\ y + cs = x + bs /\ bs = cs - 1
        /\ s = l + x /\ t = s - 1 /\ j = l
    BY <1>1, <1>2, <1>4, <1>6, <1>7
  <2> HIDE DEF x, y, cs, bs, l, j
  <2>2. t = j + y
    BY <2>1
  <2> QED  BY <2>2 DEF j, y
<1>9. \A i \in 1 .. Len(D) : Tree(d, lt, D[i], h - 1) /\ (i # q => Len(D[i].items) >= d)
  BY <1>2, <1>3, <1>4
<1>a. q \in 1 .. Len(D) /\ Len(D[q].items) >= d - 1
  <2>1. D[q] = b /\ q \in 1 .. Len(D)
    BY <1>3
  <2> DEFINE x == Len(C[q].items)
             y == Len(b.items)
  <2>2. x \in Nat /\ y \in Nat /\ y >= x - 1 /\ x >= d
    BY <1>4, <1>5, <1>6
  <2> HIDE DEF x, y
  <2>3. y >= d - 1
    BY <2>2
  <2> QED  BY <2>1, <2>3 DEF y
<1>b. Row(d, lt, J, D, h)
  BY <1>9 DEF Row
<1>c. Len(J) <= 2 * d /\ Len(J) >= 1
  OBVIOUS
<1> QED  BY <1>b, <1>c, <1>8, <1>9, <1>a DEF Slack

(* What `remove` gives to `rebalance`.                                     *)
Replaced(C, q, b) == [C EXCEPT ![q] = b]

LEMMA RemoveTurnIs ==
  ASSUME NEW w, NEW i, NEW J, NEW C, NEW s, NEW p, NEW q, NEW b, w.nodes[i] = Node(J, C, s), w.path[i] = p,
         q = p + 1
  PROVE  RemoveTurn(w, i, b) = Rebalance(Node(J, Replaced(C, q, b), s - 1), p, i = 1)
<1> DEFINE n == Node(J, C, s)
           n1 == [n EXCEPT !.children[q] = b]
           n2 == [n1 EXCEPT !.size = @ - 1]
           m == [n EXCEPT !.children[q] = b, !.size = @ - 1]
           E == Replaced(C, q, b)
           r == s - 1
<1>a. [Node(J, C, s) EXCEPT !.children[q] = b] = Node(J, [C EXCEPT ![q] = b], s)
  BY DEF Node
<1>b. n1 = Node(J, E, s)
  BY <1>a, Zenon DEF Replaced
<1> HIDE DEF E
<1>c. [Node(J, E, s) EXCEPT !.size = @ - 1] = Node(J, E, s - 1)
  <2>1. Node(J, E, s).size - 1 = s - 1
    BY Zenon DEF Node
  <2>2. [Node(J, E, s) EXCEPT !.size = r] = Node(J, E, r)
    <3> HIDE DEF r
    <3> QED  BY DEF Node
  <2> QED  BY <2>1, <2>2, Zenon DEF r
<1>d. n2 = Node(J, E, s - 1)
  <2> HIDE DEF n1
  <2> QED  BY <1>b, <1>c, Zenon
<1>2. m = Node(J, Replaced(C, q, b), s - 1)
  <2>1. m = n2
    <3>1. n1.size = n.size
      BY <1>b, Zenon DEF Node
    <3> QED  BY <3>1, Zenon
  <2> QED  BY <1>d, <2>1, Zenon DEF E
<1>3. RemoveTurn(w, i, b) = Rebalance(m, p, i = 1)
  BY Zenon DEF RemoveTurn
<1> HIDE DEF m
<1> QED  BY <1>2, <1>3, Zenon

LEMMA ReplacedIs ==
  ASSUME NEW C, Listed(C), NEW q \in 1 .. Len(C), NEW b
  PROVE  With(C, q, b, Replaced(C, q, b))
BY WithIs DEF Replaced

(* The node is as it was but for one child.                                *)
LEMMA TurnPlain ==
  ASSUME NEW d, NEW lt, NEW n, NEW h \in Nat, NEW w, NEW i, NEW p \in 0 .. Len(n.items), NEW q, NEW g, NEW u,
         NEW b, Half(M, d), Tree(d, lt, n, h), h # 0, Len(n.items) >= 1, w.nodes[i] = n, w.path[i] = p,
         q = p + 1, g = h - 1, u \in Within(n.children[q], g), ReducedKid(d, lt, n.children[q], g, u, b)
  PROVE  Reduced(d, lt, n, h, u, i, RemoveTurn(w, i, b))
<1> DEFINE I == n.items
           C == n.children
           s == n.size
           D == Replaced(C, q, b)
           t == s - 1
           z == RemoveTurn(w, i, b)
<1>1. /\ n = Node(I, C, s) /\ Listed(I) /\ Listed(C) /\ Len(I) \in Nat /\ Len(C) = NbKids(I, h)
      /\ Len(I) <= 2 * d /\ s \in Nat /\ s = Len(I) + SizeOf(C)
  BY TreeFacts
<1>2. /\ Arranged(lt, I, C, h) /\ Row(d, lt, I, C, h) /\ Full(d, C) /\ Within(n, h) = Held(I, C, h)
  BY TreeUnfold DEF Local
<1>3. q \in 1 .. Len(C) /\ p \in Nat /\ Len(I) >= 1 /\ q = p + 1 /\ g = h - 1
  BY <1>1 DEF NbKids
<1>4. d \in Nat /\ d >= 1
  BY HalfFacts
<1>5. u \in Within(C[q], h - 1) /\ ReducedKid(d, lt, C[q], g, u, b)
  OBVIOUS
<1>6. w.nodes[i] = Node(I, C, s) /\ w.path[i] = p
  BY <1>1
<1>7. With(C, q, b, D)
  BY <1>1, <1>3, ReplacedIs
<1>t. t = s - 1 /\ D = Replaced(C, q, b)
  OBVIOUS
<1>s. s \in Nat
  BY <1>1
<1> HIDE DEF I, C, D, t, z
<1>8. z = Rebalance(Node(I, D, t), p, i = 1)
  <2>1. RemoveTurn(w, i, b) = Rebalance(Node(I, Replaced(C, q, b), s - 1), p, i = 1)
    BY <1>3, <1>6, RemoveTurnIs
  <2> QED  BY <2>1, <1>t DEF z
<1>9. Arranged(lt, I, D, h) /\ But(Held(I, C, h), u, Held(I, D, h))
  <2>1. But(Within(C[q], h - 1), u, Within(b, h - 1))
    BY <1>5 DEF ReducedKid, Kept, Same, But
  <2> QED  BY <1>2, <1>3, <1>5, <1>7, <2>1, ReplaceLose
<1>a. Slack(d, lt, I, D, t, h, q)
  <2>1. Len(I) <= 2 * d /\ s = Len(I) + SizeOf(C)
    BY <1>1
  <2> HIDE DEF s
  <2> QED  BY <1>2, <1>3, <1>4, <1>5, <1>7, <1>9, <1>t, <2>1, SlackMake
<1>b. Balanced(d, lt, Held(I, D, h), t, Len(I), h, i, z)
  <2> DEFINE m == Node(I, D, t)
  <2>1. m = Node(I, D, t)
    OBVIOUS
  <2> HIDE DEF m
  <2>2. Balanced(d, lt, Held(I, D, h), t, Len(I), h, i, Rebalance(m, p, i = 1))
    BY <1>3, <1>a, <2>1, RebalanceIs
  <2> QED  BY <1>8, <2>1, <2>2, Zenon
<1>c. Held(I, D, h) = Within(n, h) \ {u}
  BY <1>2, <1>9 DEF But
<1> QED  BY <1>b, <1>c, Zenon DEF Reduced, I, t, z

(* y is the last value of the child before the item q of a row, or the     *)
(* first one of the child after it; c is that child.                       *)
Beside(lt, C, q, c, g, y) ==
  \/ c = q /\ Greatest(lt, Within(C[c], g), y)
  \/ c = q + 1 /\ Least(lt, Within(C[c], g), y)

(* The item q of a row, and a value at one of its sides.                   *)
LEMMA PivotSides ==
  ASSUME NEW lt, NEW I, NEW C, NEW h, NEW q \in 1 .. Len(I), NEW g, NEW e, Arranged(lt, I, C, h), h # 0,
         g = h - 1, e = q + 1
  PROVE  /\ q \in 1 .. Len(C) /\ e \in 1 .. Len(C) /\ Len(C) = Len(I) + 1
         /\ Within(C[q], g) \subseteq Values /\ Within(C[e], g) \subseteq Values
         /\ I[q] \in Values /\ Ordered(lt, Within(C[q], g), I[q], Within(C[e], g))
<1>1. /\ Len(I) \in Nat /\ Len(C) = Len(I) + 1 /\ I[q] \in Values
      /\ \A c \in 1 .. Len(C) : Within(C[c], h - 1) \subseteq Values
      /\ Separated(lt, I, C, h - 1)
  BY DEF Arranged, Listed, NbKids
<1>2. q \in 1 .. Len(C) /\ e \in 1 .. Len(C) /\ q <= q /\ ~ (e <= q)
  BY <1>1
<1>3. ASSUME NEW x \in Within(C[q], g) PROVE Lesser(lt, x, I[q])
  BY <1>1, <1>2 DEF Separated, Between
<1>4. ASSUME NEW x \in Within(C[e], g) PROVE Lesser(lt, I[q], x)
  BY <1>1, <1>2 DEF Separated, Between
<1> QED  BY <1>1, <1>2, <1>3, <1>4 DEF Ordered

(* A child replaced with the item at one of its sides.                     *)
LEMMA WithPivoted ==
  ASSUME NEW I, NEW C, NEW q \in 1 .. Len(I), NEW e, NEW y, NEW b, NEW J, NEW D, e = q + 1,
         With(I, q, y, J)
  PROVE  /\ With(C, q, b, D) => Pivoted(I, C, q, y, b, C[e], J, D)
         /\ With(C, e, b, D) => Pivoted(I, C, q, y, C[q], b, J, D)
<1>1. q # e
  OBVIOUS
<1>2. ASSUME With(C, q, b, D) PROVE Pivoted(I, C, q, y, b, C[e], J, D)
  BY <1>1, <1>2, Zenon DEF Pivoted, With
<1>3. ASSUME With(C, e, b, D) PROVE Pivoted(I, C, q, y, C[q], b, J, D)
  BY <1>1, <1>3, Zenon DEF Pivoted, With
<1> QED  BY <1>2, <1>3

LEMMA ExchangeLose ==
  ASSUME NEW lt, NEW I, NEW C, NEW h, NEW q \in 1 .. Len(I), NEW c, NEW y, NEW b, NEW J, NEW D, NEW g,
         Arranged(lt, I, C, h), h # 0, g = h - 1, Beside(lt, C, q, c, g, y), With(I, q, y, J),
         With(C, c, b, D), But(Within(C[c], g), y, Within(b, g))
  PROVE  Arranged(lt, J, D, h) /\ But(Held(I, C, h), I[q], Held(J, D, h))
<1> DEFINE e == q + 1
           x == I[q]
<1>e. e = q + 1
  OBVIOUS
<1>1. /\ q \in 1 .. Len(C) /\ e \in 1 .. Len(C) /\ Len(C) = Len(I) + 1
      /\ Within(C[q], g) \subseteq Values /\ Within(C[e], g) \subseteq Values
      /\ x \in Values /\ Ordered(lt, Within(C[q], g), x, Within(C[e], g))
  BY PivotSides
<1>2. /\ With(C, q, b, D) => Pivoted(I, C, q, y, b, C[e], J, D)
      /\ With(C, e, b, D) => Pivoted(I, C, q, y, C[q], b, J, D)
  BY <1>e, WithPivoted
<1>3. Within(b, g) = Within(C[c], g) \ {y}
  BY DEF But
<1>4. CASE c = q /\ Greatest(lt, Within(C[c], g), y)
  <2>1. y \in Within(C[q], g) /\ \A v \in Within(C[q], g) : v = y \/ Lesser(lt, v, y)
    BY <1>4, Zenon DEF Greatest
  <2>2. y \in Values /\ Lesser(lt, y, x)
    BY <1>1, <2>1 DEF Ordered
  <2>3. \A v \in Within(b, g) : Lesser(lt, v, y)
    BY <1>3, <1>4, <2>1
  <2>4. ASSUME NEW v \in Within(C[e], g) PROVE Lesser(lt, y, v)
    <3>1. v \in Values /\ Lesser(lt, x, v)
      BY <1>1 DEF Ordered
    <3> QED  BY <1>1, <2>2, <3>1, LesserOrder
  <2>5. Both(Within(C[q], g), Within(C[e], g), AtPivot(y, b, C[e], g))
    BY <1>3, <1>4, <2>1 DEF Both, AtPivot
  <2>6. Pivoted(I, C, q, y, b, C[e], J, D)
    BY <1>2, <1>4
  <2> DEFINE l == b
             r == C[e]
  <2>7. /\ Pivoted(I, C, q, y, l, r, J, D)
        /\ Both(Within(C[q], h - 1), Within(C[q + 1], h - 1), AtPivot(y, l, r, h - 1))
        /\ \A v \in Within(l, h - 1) : Lesser(lt, v, y)
        /\ \A v \in Within(r, h - 1) : Lesser(lt, y, v)
    BY <2>3, <2>4, <2>5, <2>6
  <2> HIDE DEF l, r
  <2> QED  BY <2>2, <2>7, PivotLose
<1>5. CASE c = e /\ Least(lt, Within(C[c], g), y)
  <2>1. y \in Within(C[e], g) /\ \A v \in Within(C[e], g) : v = y \/ Lesser(lt, y, v)
    BY <1>5, Zenon DEF Least
  <2>2. y \in Values /\ Lesser(lt, x, y)
    BY <1>1, <2>1 DEF Ordered
  <2>3. \A v \in Within(b, g) : Lesser(lt, y, v)
    BY <1>3, <1>5, <2>1
  <2>4. ASSUME NEW v \in Within(C[q], g) PROVE Lesser(lt, v, y)
    <3>1. v \in Values /\ Lesser(lt, v, x)
      BY <1>1 DEF Ordered
    <3> QED  BY <1>1, <2>2, <3>1, LesserOrder
  <2>5. Both(Within(C[q], g), Within(C[e], g), AtPivot(y, C[q], b, g))
    BY <1>3, <1>5, <2>1 DEF Both, AtPivot
  <2>6. Pivoted(I, C, q, y, C[q], b, J, D)
    BY <1>2, <1>5
  <2> DEFINE l == C[q]
             r == b
  <2>7. /\ Pivoted(I, C, q, y, l, r, J, D)
        /\ Both(Within(C[q], h - 1), Within(C[q + 1], h - 1), AtPivot(y, l, r, h - 1))
        /\ \A v \in Within(l, h - 1) : Lesser(lt, v, y)
        /\ \A v \in Within(r, h - 1) : Lesser(lt, y, v)
    BY <2>3, <2>4, <2>5, <2>6
  <2> HIDE DEF l, r
  <2> QED  BY <2>2, <2>7, PivotLose
<1> QED  BY <1>4, <1>5, Zenon DEF Beside, e

(* The item of the node at one side of the child was given the value that  *)
(* the child has lost.                                                     *)
LEMMA TurnExchange ==
  ASSUME NEW d, NEW lt, NEW n, NEW h \in Nat, NEW w, NEW i, NEW p \in 0 .. Len(n.items), NEW c, NEW g, NEW y,
         NEW b, NEW q \in 1 .. Len(n.items), NEW J, NEW x, Half(M, d), Tree(d, lt, n, h), h # 0,
         With(n.items, q, y, J), w.nodes[i] = Node(J, n.children, n.size), w.path[i] = p,
         c = p + 1, g = h - 1, Beside(lt, n.children, q, c, g, y), ReducedKid(d, lt, n.children[c], g, y, b),
         x = n.items[q]
  PROVE  Reduced(d, lt, n, h, x, i, RemoveTurn(w, i, b))
<1> DEFINE I == n.items
           C == n.children
           s == n.size
           D == Replaced(C, c, b)
           t == s - 1
           z == RemoveTurn(w, i, b)
<1>1. /\ Listed(I) /\ Listed(C) /\ Len(I) \in Nat /\ Len(C) = NbKids(I, h)
      /\ Len(I) <= 2 * d /\ s \in Nat /\ s = Len(I) + SizeOf(C)
  BY TreeFacts
<1>2. /\ Arranged(lt, I, C, h) /\ Row(d, lt, I, C, h) /\ Full(d, C) /\ Within(n, h) = Held(I, C, h)
  BY TreeUnfold DEF Local
<1>3. c \in 1 .. Len(C) /\ p \in Nat /\ Len(I) >= 1 /\ c = p + 1 /\ g = h - 1 /\ q \in 1 .. Len(I)
  BY <1>1 DEF NbKids
<1>4. d \in Nat /\ d >= 1
  BY HalfFacts
<1>5. /\ Beside(lt, C, q, c, g, y) /\ ReducedKid(d, lt, C[c], g, y, b) /\ With(I, q, y, J) /\ x = I[q]
  OBVIOUS
<1>6. w.nodes[i] = Node(J, C, s) /\ w.path[i] = p
  BY <1>1
<1>7. With(C, c, b, D)
  BY <1>1, <1>3, ReplacedIs
<1>t. t = s - 1 /\ D = Replaced(C, c, b)
  OBVIOUS
<1> HIDE DEF I, C, D, t, z
<1>8. z = Rebalance(Node(J, D, t), p, i = 1)
  <2>1. RemoveTurn(w, i, b) = Rebalance(Node(J, Replaced(C, c, b), s - 1), p, i = 1)
    BY <1>3, <1>6, RemoveTurnIs
  <2> QED  BY <2>1, <1>t DEF z
<1>9. Arranged(lt, J, D, h) /\ But(Held(I, C, h), I[q], Held(J, D, h))
  <2>1. But(Within(C[c], g), y, Within(b, g))
    BY <1>5 DEF ReducedKid, Kept, Same, But
  <2> QED  BY <1>2, <1>3, <1>5, <1>7, <2>1, ExchangeLose
<1>j. Len(J) = Len(I)
  BY <1>5 DEF With
<1>a. Slack(d, lt, J, D, t, h, c)
  <2>1. Len(I) <= 2 * d /\ s = Len(I) + SizeOf(C)
    BY <1>1
  <2> HIDE DEF s
  <2> QED  BY <1>2, <1>3, <1>4, <1>5, <1>7, <1>9, <1>t, <1>j, <2>1, SlackMake
<1>b. Balanced(d, lt, Held(J, D, h), t, Len(J), h, i, z)
  <2> DEFINE m == Node(J, D, t)
  <2>1. m = Node(J, D, t)
    OBVIOUS
  <2> HIDE DEF m
  <2>2. Balanced(d, lt, Held(J, D, h), t, Len(J), h, i, Rebalance(m, p, i = 1))
    BY <1>3, <1>a, <2>1, RebalanceIs
  <2> QED  BY <1>8, <2>1, <2>2, Zenon
<1>c. Held(J, D, h) = Within(n, h) \ {x}
  BY <1>2, <1>5, <1>9 DEF But
<1> QED  BY <1>b, <1>c, <1>j, Zenon DEF Reduced, I, t, z

(***************************************************************************)
(* A leaf without one of its items.                                        *)
(***************************************************************************)
LeafWithout(n, pos) == Node(RemoveAt(n.items, pos + 1), n.children, n.size - 1)

LEMMA LeafReduced ==
  ASSUME NEW d \in Nat, NEW lt, NEW n, NEW pos \in 0 .. Len(n.items) - 1, NEW y, Tree(d, lt, n, 0),
         y = n.items[pos + 1]
  PROVE  ReducedKid(d, lt, n, 0, y, LeafWithout(n, pos))
<1> DEFINE J == n.items
           C == n.children
           q == pos + 1
           I == RemoveAt(J, q)
           h == 0
           s == n.size - 1
           a == LeafWithout(n, pos)
<1>1. /\ Listed(J) /\ Listed(C) /\ Len(J) \in Nat /\ Len(C) = NbKids(J, h)
      /\ Len(J) <= 2 * d /\ n.size \in Nat /\ n.size = Len(J) + SizeOf(C)
  BY TreeFacts
<1>2. Arranged(lt, J, C, h) /\ Row(d, lt, J, C, h) /\ Within(n, h) = Held(J, C, h)
  BY TreeUnfold DEF Local
<1>3. Listed(I) /\ Put(I, pos, y, J)
  <2>1. Listed(RemoveAt(J, q)) /\ Put(RemoveAt(J, q), pos, J[q], J)
    BY <1>1, RemoveAtIs
  <2> QED  BY <2>1
<1>c. Len(C) = 0
  BY <1>1 DEF NbKids
<1>a. a = Node(I, C, s) /\ s = n.size - 1 /\ h = 0
  BY Zenon DEF LeafWithout
<1> HIDE DEF J, C, I, h, s, a
<1>4. Len(J) = Len(I) + 1 /\ Len(I) \in Nat /\ pos \in 0 .. Len(I)
  BY <1>1, <1>3 DEF Put, Listed, J
<1>5. Arranged(lt, I, C, h) /\ Held(I, C, h) = Held(J, C, h) \ {y}
  BY <1>2, <1>3, <1>4, <1>a, TakenArranged
<1>6. Row(d, lt, I, C, h) /\ Full(d, C) /\ SizeOf(C) = 0
  <2>1. SizeOf(C) = 0
    BY <1>1, <1>c, SizeNone
  <2> QED  BY <1>5, <1>c, <2>1 DEF Row, Full
<1>7. s = Len(I) + SizeOf(C) /\ Len(I) <= 2 * d
  BY <1>1, <1>4, <1>6, <1>a
<1>8. Tree(d, lt, Node(I, C, s), h) /\ Within(Node(I, C, s), h) = Held(I, C, h)
  BY <1>6, <1>7, TreeMake
<1>9. Node(I, C, s).size = s /\ Node(I, C, s).items = I
  BY NodeFields
<1>b. Len(I) >= Len(J) - 1
  BY <1>4
<1>d. ReducedKid(d, lt, n, h, y, Node(I, C, s))
  <2>1. /\ Same(Within(n, h) \ {y}, Within(Node(I, C, s), h))
        /\ Node(I, C, s).size = n.size - 1 /\ Len(Node(I, C, s).items) >= Len(n.items) - 1
    BY <1>2, <1>5, <1>8, <1>9, <1>a, <1>b DEF Same, J
  <2> QED  BY <1>8, <2>1, Zenon DEF ReducedKid, Kept
<1> QED  BY <1>a, <1>d, Zenon DEF a

(***************************************************************************)
(* A way w that is the way z, but for the item at + 1 of the node depth,   *)
(* which is y (depth is 0 when there is no such node).                     *)
(***************************************************************************)
Swapped(z, w, depth, at, y) ==
  /\ w.path = z.path /\ Listed(w.nodes) /\ Len(w.nodes) = Len(z.nodes)
  /\ \A i \in 1 .. Len(z.nodes) : i # depth => w.nodes[i] = z.nodes[i]
  /\ depth # 0 => \E J : /\ With(z.nodes[depth].items, at + 1, y, J)
                         /\ w.nodes[depth] = Node(J, z.nodes[depth].children, z.nodes[depth].size)

(* The item that y replaces is x, and y comes from the child of the way.   *)
Exchanging(lt, n, p, at, x, y, g) ==
  /\ at \in 0 .. Len(n.items) - 1 /\ x = n.items[at + 1]
  /\ Beside(lt, n.children, at + 1, p + 1, g, y)

(* The removal of the item pos + 1 of the leaf at the end of w.            *)
Removing(d, lt, n, h, z, depth, at, x, y, w, pos) ==
  /\ Way(d, lt, n, h, z) /\ Lower(h, z) = 0 /\ h # 0
  /\ pos \in 0 .. Len(Here(z).items) - 1 /\ y = Here(z).items[pos + 1]
  /\ depth \in 0 .. Len(z.path) /\ Swapped(z, w, depth, at, y)
  /\ depth # 0 => Exchanging(lt, z.nodes[depth], z.path[depth], at, x, y, h - depth)
  /\ \A i \in 1 .. depth : x \in Within(z.nodes[i], (h + 1) - i)

(* What the node i of the way loses, and what it has become.               *)
Gone(depth, x, y, i) == IF i <= depth THEN x ELSE y

ReducedAt(d, lt, z, h, depth, x, y, k, i, a) ==
  Reduced(d, lt, z.nodes[i], k, Gone(depth, x, y, i), i, a)

LEMMA RemovingFacts ==
  ASSUME NEW d, NEW lt, NEW n, NEW h, NEW z, NEW depth, NEW at, NEW x, NEW y, NEW w, NEW pos,
         Half(M, d), Removing(d, lt, n, h, z, depth, at, x, y, w, pos)
  PROVE  /\ h \in Nat /\ h # 0 /\ h = Len(z.path) /\ h = Len(w.path) /\ Len(z.nodes) = h + 1
         /\ Here(z) = z.nodes[h + 1] /\ Here(w) = Here(z) /\ Tree(d, lt, Here(z), 0)
         /\ \A i \in 1 .. h : w.path[i] = z.path[i]
<1>0. d \in Nat /\ d >= 1
  BY HalfFacts
<1>1. Root(d, lt, n, h) /\ Steps(d, lt, n, h, z) /\ Lower(h, z) = 0 /\ h # 0
  BY DEF Removing, Way
<1>2. AtEnd(d, lt, h, z)
  BY <1>0, <1>1, WayHere
<1>3. h = Len(z.path) /\ h \in Nat /\ Len(z.nodes) = h + 1 /\ Here(z) = z.nodes[h + 1] /\ Tree(d, lt, Here(z), 0)
  BY <1>1, <1>2 DEF AtEnd, Lower
<1>4. /\ w.path = z.path /\ Listed(w.nodes) /\ Len(w.nodes) = Len(z.nodes)
      /\ \A i \in 1 .. Len(z.nodes) : i # depth => w.nodes[i] = z.nodes[i]
      /\ depth \in 0 .. Len(z.path)
  BY DEF Removing, Swapped
<1>5. h + 1 \in 1 .. Len(z.nodes) /\ h + 1 # depth
  BY <1>3, <1>4
<1>6. w.nodes[h + 1] = z.nodes[h + 1]
  BY <1>4, <1>5
<1>7. Here(w) = w.nodes[h + 1]
  BY <1>3, <1>4 DEF Here, Last
<1> QED  BY <1>1, <1>3, <1>4, <1>6, <1>7

LEMMA ShrinkStart ==
  ASSUME NEW d, NEW lt, NEW n, NEW h, NEW z, NEW depth, NEW at, NEW x, NEW y, NEW w, NEW pos, NEW i,
         Half(M, d), Removing(d, lt, n, h, z, depth, at, x, y, w, pos), i = h + 1
  PROVE  ReducedAt(d, lt, z, h, depth, x, y, 0, i, LeafWithout(Here(w), pos))
<1>1. /\ h \in Nat /\ h # 0 /\ h = Len(z.path)
      /\ Here(z) = z.nodes[i] /\ Here(w) = Here(z) /\ Tree(d, lt, Here(z), 0)
  BY RemovingFacts
<1>2. /\ pos \in 0 .. Len(Here(z).items) - 1 /\ y = Here(z).items[pos + 1] /\ depth \in 0 .. Len(z.path)
  BY DEF Removing
<1> DEFINE m == Here(z)
<1>3. pos \in 0 .. Len(m.items) - 1 /\ y = m.items[pos + 1] /\ Tree(d, lt, m, 0) /\ d \in Nat
  BY <1>1, <1>2, HalfFacts
<1>4. Gone(depth, x, y, i) = y /\ i # 1
  BY <1>1, <1>2 DEF Gone
<1>5. m = z.nodes[i] /\ Here(w) = m
  BY <1>1
<1> HIDE DEF m
<1>6. ReducedKid(d, lt, m, 0, y, LeafWithout(m, pos))
  BY <1>3, LeafReduced
<1>7. Reduced(d, lt, m, 0, y, i, LeafWithout(m, pos))
  BY <1>4, <1>6, Zenon DEF Reduced, ReducedKid, Balanced
<1> QED  BY <1>4, <1>5, <1>7, Zenon DEF ReducedAt

LEMMA ShrinkStep ==
  ASSUME NEW d, NEW lt, NEW n, NEW h, NEW z, NEW depth, NEW at, NEW x, NEW y, NEW w, NEW pos, NEW k \in 1 .. h,
         NEW i, NEW j, NEW g, NEW a, Half(M, d), Removing(d, lt, n, h, z, depth, at, x, y, w, pos),
         i = (h + 1) - k, j = i + 1, g = k - 1, ReducedAt(d, lt, z, h, depth, x, y, g, j, a)
  PROVE  ReducedAt(d, lt, z, h, depth, x, y, k, i, RemoveTurn(w, i, a))
<1> DEFINE m == z.nodes[i]
           p == z.path[i]
           q == p + 1
           c == m.children[q]
           u == Gone(depth, x, y, j)
<1>0. d \in Nat /\ d >= 1
  BY HalfFacts
<1>1. /\ h \in Nat /\ h # 0 /\ h = Len(z.path) /\ h = Len(w.path) /\ Len(z.nodes) = h + 1
      /\ Here(z) = z.nodes[h + 1] /\ \A e \in 1 .. h : w.path[e] = z.path[e]
  BY RemovingFacts
<1>2. /\ Root(d, lt, n, h) /\ Steps(d, lt, n, h, z) /\ Counts(lt, n, h, z) /\ Lower(h, z) = 0
      /\ pos \in 0 .. Len(Here(z).items) - 1 /\ y = Here(z).items[pos + 1]
      /\ depth \in 0 .. Len(z.path) /\ Swapped(z, w, depth, at, y)
      /\ depth # 0 => Exchanging(lt, z.nodes[depth], z.path[depth], at, x, y, h - depth)
      /\ \A e \in 1 .. depth : x \in Within(z.nodes[e], (h + 1) - e)
  BY DEF Removing, Way
<1>3. /\ i \in 1 .. h /\ j \in 1 .. Len(z.nodes) /\ (h + 1) - i = k /\ (h + 1) - j = g /\ k \in Nat /\ k # 0
      /\ g \in Nat /\ j # 1 /\ i \in 1 .. Len(z.path) /\ i \in 1 .. Len(z.nodes) /\ h - i = g
  BY <1>1
<1>4. /\ Tree(d, lt, m, k) /\ p \in 0 .. Len(m.items) /\ z.nodes[j] = c /\ w.path[i] = p
  BY <1>1, <1>2, <1>3 DEF Steps
<1>5. Len(m.items) >= 1
  <2>1. CASE i = 1
    BY <1>1, <1>2, <2>1 DEF Root, Steps
  <2>2. CASE i # 1
    <3>1. Len(m.items) >= d
      BY <1>2, <1>3, <2>2 DEF Steps
    <3>2. Len(m.items) \in Nat
      BY <1>3, <1>4, TreeFacts
    <3> QED  BY <1>0, <3>1, <3>2
  <2> QED  BY <2>1, <2>2
<1>6. ReducedKid(d, lt, c, g, u, a)
  <2>1. Reduced(d, lt, z.nodes[j], g, u, j, a)
    BY Zenon DEF ReducedAt
  <2>2. Reduced(d, lt, c, g, u, j, a)
    BY <1>4, <2>1
  <2> HIDE DEF c, u
  <2> QED  BY <1>3, <2>2, ReducedBelow
<1>y. y \in Within(c, g)
  <2>1. y \in Within(Here(z), Lower(h, z))
    <3>1. Tree(d, lt, Here(z), 0)
      BY RemovingFacts
    <3>2. Listed(Here(z).items)
      BY <3>1, TreeFacts
    <3>3. pos + 1 \in 1 .. Len(Here(z).items)
      BY <1>2, <3>2 DEF Listed
    <3>4. y \in ToSet(Here(z).items)
      BY <1>2, <3>2, <3>3, ElementsOf
    <3> QED  BY <1>2, <3>4, WithinLeaf
  <2>2. y \in Within(z.nodes[j], (h + 1) - j)
    BY <1>2, <1>3, <2>1 DEF Counts
  <2> QED  BY <1>3, <1>4, <2>2
<1>f. k \in Nat /\ m = z.nodes[i] /\ p = z.path[i] /\ q = p + 1 /\ c = m.children[q] /\ u = Gone(depth, x, y, j)
  BY <1>3
<1> HIDE DEF m, p, q, c, u
<1>7. CASE i # depth
  <2>1. w.nodes[i] = m
    BY <1>2, <1>3, <1>7, <1>f DEF Swapped
  <2>2. u \in Within(c, g) /\ Gone(depth, x, y, i) = u
    <3>1. CASE j <= depth
      <4>1. j \in 1 .. depth /\ i <= depth
        BY <1>1, <1>2, <1>3, <3>1
      <4>2. x \in Within(z.nodes[j], (h + 1) - j)
        BY <1>2, <4>1
      <4> QED  BY <1>3, <1>4, <1>f, <3>1, <4>1, <4>2 DEF Gone
    <3>2. CASE ~ (j <= depth)
      <4>1. i \in Nat /\ depth \in Nat
        BY <1>1, <1>2
      <4>2. ~ (i <= depth)
        BY <1>7, <3>2, <4>1
      <4> QED  BY <1>y, <1>f, <3>2, <4>2 DEF Gone
    <3> QED  BY <3>1, <3>2
  <2>3. u \in Within(m.children[q], g) /\ ReducedKid(d, lt, m.children[q], g, u, a)
    BY <1>6, <1>f, <2>2
  <2>4. Reduced(d, lt, m, k, u, i, RemoveTurn(w, i, a))
    BY <1>3, <1>4, <1>5, <1>f, <2>1, <2>3, TurnPlain
  <2> QED  BY <1>f, <2>2, <2>4, Zenon DEF ReducedAt
<1>8. CASE i = depth
  <2>1. depth # 0 /\ Exchanging(lt, m, p, at, x, y, g)
    BY <1>2, <1>3, <1>8, <1>f
  <2> DEFINE e == at + 1
  <2>2. at \in 0 .. Len(m.items) - 1 /\ x = m.items[e] /\ Beside(lt, m.children, e, q, g, y)
    BY <1>f, <2>1 DEF Exchanging
  <2>3. PICK J : With(m.items, e, y, J) /\ w.nodes[i] = Node(J, m.children, m.size)
    BY <1>2, <1>8, <1>f, <2>1, Zenon DEF Swapped
  <2>4. u = y /\ Gone(depth, x, y, i) = x
    BY <1>3, <1>8, <1>f DEF Gone
  <2>5. e \in 1 .. Len(m.items)
    BY <2>2
  <2> HIDE DEF e
  <2>6. ReducedKid(d, lt, m.children[q], g, y, a)
    BY <1>6, <1>f, <2>4
  <2>7. Reduced(d, lt, m, k, x, i, RemoveTurn(w, i, a))
    BY <1>3, <1>4, <1>f, <2>2, <2>3, <2>5, <2>6, TurnExchange
  <2> QED  BY <1>f, <2>4, <2>7, Zenon DEF ReducedAt
<1> QED  BY <1>7, <1>8

LEMMA RemoveAlongReduces ==
  ASSUME NEW d, NEW lt, NEW n, NEW h, NEW z, NEW depth, NEW at, NEW x, NEW y, NEW w, NEW pos,
         Half(M, d), Removing(d, lt, n, h, z, depth, at, x, y, w, pos)
  PROVE  ReducedAt(d, lt, z, h, depth, x, y, h, 1, RemoveAlong(w, pos))
<1>1. h \in Nat /\ h = Len(w.path)
  BY RemovingFacts
<1>2. PICK turn : Shrink(w, pos, h, turn) /\ RemoveAlong(w, pos) = turn[h]
  BY <1>1, RemoveAlongTurns
<1> DEFINE Good(k) == ReducedAt(d, lt, z, h, depth, x, y, k, (h + 1) - k, turn[k])
           Bad == {k \in 0 .. h : ~ Good(k)}
<1>3. turn[0] = LeafWithout(Here(w), pos)
  BY <1>2, Zenon DEF Shrink, LeafWithout
<1>4. ASSUME NEW k \in 1 .. h PROVE turn[k] = RemoveTurn(w, (h + 1) - k, turn[k - 1])
  <2>1. turn[k] = RemoveTurn(w, Len(w.path) + 1 - k, turn[k - 1])
    BY <1>2 DEF Shrink
  <2> QED  BY <1>1, <2>1
<1>s. Good(0)
  <2>1. (h + 1) - 0 = h + 1
    BY <1>1
  <2> DEFINE i == h + 1
  <2>2. i = h + 1
    OBVIOUS
  <2> HIDE DEF i
  <2>3. ReducedAt(d, lt, z, h, depth, x, y, 0, i, LeafWithout(Here(w), pos))
    BY <2>2, ShrinkStart
  <2> QED  BY <1>3, <2>1, <2>2, <2>3
<1>5. ASSUME Bad # {} PROVE FALSE
  <2>1. Bad \in SUBSET Nat
    BY <1>1
  <2>2. PICK k \in Bad : \A j \in Bad : k <= j
    BY <1>5, <2>1, LeastNumber
  <2>3. k # 0
    BY <1>s, <2>2
  <2>4. k \in 1 .. h /\ k - 1 \in 0 .. h /\ ~ (k <= k - 1)
    BY <1>1, <2>2, <2>3
  <2>5. Good(k - 1)
    BY <2>2, <2>4
  <2>6. Good(k)
    <3> DEFINE a == turn[k - 1]
               i == (h + 1) - k
               j == i + 1
               g == k - 1
    <3>1. turn[k] = RemoveTurn(w, i, a)
      BY <1>4, <2>4
    <3>2. (h + 1) - g = j
      BY <1>1, <2>4
    <3>3. ReducedAt(d, lt, z, h, depth, x, y, g, j, a)
      BY <2>5, <3>2
    <3>4. i = (h + 1) - k /\ j = i + 1 /\ g = k - 1
      OBVIOUS
    <3> HIDE DEF a, Bad, i, j, g
    <3>5. ReducedAt(d, lt, z, h, depth, x, y, k, i, RemoveTurn(w, i, a))
      BY <2>4, <3>3, <3>4, ShrinkStep
    <3> QED  BY <3>1, <3>4, <3>5
  <2> QED  BY <2>2, <2>6
<1>6. h \in 0 .. h /\ (h + 1) - h = 1
  BY <1>1
<1>7. ReducedAt(d, lt, z, h, depth, x, y, h, 1, turn[h])
  BY <1>5, <1>6
<1> QED  BY <1>2, <1>7

LEMMA WithValueIs ==
  ASSUME NEW z, NEW y, NEW depth \in 1 .. Len(z.nodes), NEW m, NEW at \in 0 .. Len(m.items) - 1,
         z = [nodes |-> z.nodes, path |-> z.path, before |-> z.before], Listed(z.nodes),
         m = z.nodes[depth], m = Node(m.items, m.children, m.size), Listed(m.items)
  PROVE  Swapped(z, WithValue(z, depth, at, y), depth, at, y)
<1> DEFINE q == at + 1
           N == z.nodes
           J == [m.items EXCEPT ![q] = y]
           b == Node(J, m.children, m.size)
           w == WithValue(z, depth, at, y)
<1>0. Len(m.items) \in Nat /\ q \in 1 .. Len(m.items) /\ Len(N) \in Nat /\ depth # 0
  BY DEF Listed
<1>1. [m EXCEPT !.items[q] = y] = b
  <2>1. ASSUME NEW I, NEW C, NEW s PROVE [Node(I, C, s) EXCEPT !.items[q] = y] = Node([I EXCEPT ![q] = y], C, s)
    <3> HIDE DEF q
    <3> QED  BY DEF Node
  <2> DEFINE I == m.items
             C == m.children
             s == m.size
  <2>2. m = Node(I, C, s) /\ b = Node([I EXCEPT ![q] = y], C, s)
    BY Zenon
  <2> HIDE DEF I, C, s, b, q
  <2>3. [Node(I, C, s) EXCEPT !.items[q] = y] = Node([I EXCEPT ![q] = y], C, s)
    BY DEF Node
  <2> QED  BY <2>2, <2>3, Zenon
<1>2. w = [z EXCEPT !.nodes[depth] = [m EXCEPT !.items[q] = y]]
  BY Zenon DEF WithValue
<1>3. With(m.items, q, y, J)
  BY <1>0, WithIs
<1> DEFINE NN == [N EXCEPT ![depth] = b]
<1>4. With(N, depth, b, NN)
  <2> HIDE DEF b
  <2> QED  BY WithIs
<1> HIDE DEF b
<1>5. w = [z EXCEPT !.nodes[depth] = b]
  <2> HIDE DEF w
  <2> QED  BY <1>1, <1>2, Zenon
<1>6. w.nodes = NN /\ w.path = z.path
  <2> HIDE DEF w
  <2>1. [z EXCEPT !.nodes[depth] = b].nodes = [z.nodes EXCEPT ![depth] = b] /\ [z EXCEPT !.nodes[depth] = b].path = z.path
    OBVIOUS
  <2> QED  BY <1>5, <2>1, Zenon
<1>7. Listed(NN) /\ Len(NN) = Len(N) /\ NN[depth] = b /\ \A i \in 1 .. Len(N) : i # depth => NN[i] = N[i]
  <2> HIDE DEF NN
  <2> QED  BY <1>4 DEF With
<1> HIDE DEF NN, J, w
<1> QED  BY <1>3, <1>6, <1>7, Zenon DEF Swapped, b, q, w

LEMMA ReducedHolds ==
  ASSUME NEW d, NEW lt, NEW n, NEW h \in Nat, NEW u, NEW a, Reduced(d, lt, n, h, u, 1, a)
  PROVE  Holding(d, lt, a, Within(n, h) \ {u})
<1> DEFINE S == Within(n, h) \ {u}
           g == h - 1
<1>1. Balanced(d, lt, S, n.size - 1, Len(n.items), h, 1, a)
  BY Zenon DEF Reduced
<1>2. CASE Tree(d, lt, a, h) /\ Same(S, Within(a, h)) /\ Len(a.items) >= 1
  BY <1>2 DEF Holding, Root, Same
<1>3. CASE h # 0 /\ Tree(d, lt, a, g) /\ Same(S, Within(a, g)) /\ Len(a.items) >= 1
  <2>1. g \in Nat
    BY <1>3
  <2> HIDE DEF g
  <2> QED  BY <1>3, <2>1 DEF Holding, Root, Same
<1> QED  BY <1>1, <1>2, <1>3, Zenon DEF Balanced, Kept

LEMMA RemoveAlongHolds ==
  ASSUME NEW d, NEW lt, NEW n, NEW h, NEW z, NEW depth, NEW at, NEW x, NEW y, NEW w, NEW pos, NEW u,
         Half(M, d), Removing(d, lt, n, h, z, depth, at, x, y, w, pos), u = Gone(depth, x, y, 1)
  PROVE  Holding(d, lt, RemoveAlong(w, pos), Within(n, h) \ {u})
<1> DEFINE a == RemoveAlong(w, pos)
<1>1. ReducedAt(d, lt, z, h, depth, x, y, h, 1, a)
  BY RemoveAlongReduces
<1>2. h \in Nat
  BY RemovingFacts
<1>3. z.nodes[1] = n
  BY DEF Removing, Way, Steps
<1> HIDE DEF a
<1>4. Reduced(d, lt, n, h, u, 1, a)
  BY <1>1, <1>3, Zenon DEF ReducedAt
<1>5. Holding(d, lt, a, Within(n, h) \ {u})
  BY <1>2, <1>4, ReducedHolds
<1> QED  BY <1>5 DEF a

(* A root that is a leaf.                                                  *)
LEMMA RemoveRootLeaf ==
  ASSUME NEW d \in Nat, NEW lt, NEW n, NEW w, NEW pos \in 0 .. Len(n.items) - 1, NEW x, Tree(d, lt, n, 0),
         x = n.items[pos + 1], Len(w.path) = 0, Here(w) = n
  PROVE  Holding(d, lt, RemoveAlong(w, pos), Within(n, 0) \ {x})
<1> DEFINE a == RemoveAlong(w, pos)
<1>1. PICK turn : Shrink(w, pos, 0, turn) /\ a = turn[0]
  <2>1. Len(w.path) \in Nat
    OBVIOUS
  <2> QED  BY <2>1, RemoveAlongTurns
<1>2. a = LeafWithout(n, pos)
  BY <1>1, Zenon DEF Shrink, LeafWithout
<1>3. ReducedKid(d, lt, n, 0, x, LeafWithout(n, pos))
  BY LeafReduced
<1> HIDE DEF a
<1>4. Tree(d, lt, a, 0) /\ Within(a, 0) = Within(n, 0) \ {x}
  BY <1>2, <1>3 DEF ReducedKid, Kept, Same
<1>5. Root(d, lt, a, 0) /\ 0 \in Nat
  BY <1>4 DEF Root
<1> QED  BY <1>4, <1>5, Zenon DEF Holding, a

(***************************************************************************)
(* An item in a leaf.                                                      *)
(***************************************************************************)
LEMMA RemoveFromLeaf ==
  ASSUME NEW d, NEW lt, NEW n, NEW h, NEW place, NEW x, Half(M, d), Place(d, lt, n, h, place, x),
         Lower(h, place.way) = 0
  PROVE  Holding(d, lt, RemoveAlong(place.way, place.at), Within(n, h) \ {x})
<1> DEFINE w == place.way
           pos == place.at
<1>0. d \in Nat /\ d >= 1
  BY HalfFacts
<1>1. /\ Way(d, lt, n, h, w) /\ pos \in 0 .. Len(Here(w).items) - 1 /\ x = Here(w).items[pos + 1]
      /\ Lower(h, w) = 0 /\ Root(d, lt, n, h) /\ Steps(d, lt, n, h, w)
  BY DEF Place, Way
<1> HIDE DEF w, pos
<1>2. AtEnd(d, lt, h, w)
  BY <1>0, <1>1, WayHere
<1>3. h = Len(w.path) /\ h \in Nat /\ Listed(w.nodes) /\ Here(w) = w.nodes[h + 1] /\ w.nodes[1] = n
      /\ Tree(d, lt, Here(w), 0)
  <2>1. /\ h \in Nat /\ Len(w.path) \in Nat /\ Len(w.nodes) = Len(w.path) + 1 /\ h - Len(w.path) = 0
        /\ Here(w) = w.nodes[Len(w.nodes)] /\ Tree(d, lt, Here(w), Lower(h, w))
    BY <1>1, <1>2 DEF AtEnd, Lower
  <2>2. h = Len(w.path) /\ Len(w.nodes) = h + 1
    BY <2>1
  <2>3. Here(w) = w.nodes[h + 1] /\ Tree(d, lt, Here(w), 0)
    BY <1>1, <2>1, <2>2
  <2>4. Listed(w.nodes) /\ w.nodes[1] = n
    BY <1>1 DEF Steps
  <2> QED  BY <2>1, <2>2, <2>3, <2>4
<1>4. CASE h = 0
  <2>1. Here(w) = n /\ Len(w.path) = 0 /\ Tree(d, lt, n, 0)
    BY <1>3, <1>4
  <2>2. pos \in 0 .. Len(n.items) - 1 /\ x = n.items[pos + 1]
    BY <1>1, <2>1
  <2>3. Holding(d, lt, RemoveAlong(w, pos), Within(n, 0) \ {x})
    BY <1>0, <2>1, <2>2, RemoveRootLeaf
  <2> QED  BY <1>4, <2>3 DEF w, pos
<1>5. CASE h # 0
  <2>1. Swapped(w, w, 0, 0, x)
    BY <1>3 DEF Swapped
  <2>2. 0 \in 0 .. Len(w.path) /\ 1 .. 0 = {}
    BY <1>3
  <2>3. Removing(d, lt, n, h, w, 0, 0, x, x, w, pos)
    BY <1>1, <1>5, <2>1, <2>2 DEF Removing
  <2>4. x = Gone(0, x, x, 1)
    BY DEF Gone
  <2>5. Holding(d, lt, RemoveAlong(w, pos), Within(n, h) \ {x})
    BY <2>3, <2>4, RemoveAlongHolds
  <2> QED  BY <2>5 DEF w, pos
<1> QED  BY <1>4, <1>5

(* A way z that goes on by the child p of the end of the way w.            *)
Through(d, lt, n, h, w, p, z) ==
  LET j == Len(w.nodes)
  IN  /\ j \in 1 .. Len(z.path) /\ j \in 1 .. Len(z.nodes) /\ z.nodes[j] = Here(w) /\ z.path[j] = p
      /\ h - j = Lower(h, w) - 1
      /\ \A x \in Within(Here(w), Lower(h, w)) : \A i \in 1 .. j : x \in Within(z.nodes[i], (h + 1) - i)
      /\ Listed(z.nodes) /\ z = [nodes |-> z.nodes, path |-> z.path, before |-> z.before]

LEMMA ThroughIs ==
  ASSUME NEW d \in Nat, NEW lt, NEW n, NEW h, NEW w, NEW p \in 0 .. Len(Here(w).items), NEW z, d >= 1,
         Way(d, lt, n, h, w), Way(d, lt, n, h, z), Extends(Down(w, p), z)
  PROVE  Through(d, lt, n, h, w, p, z)
<1> DEFINE v == Down(w, p)
           j == Len(w.nodes)
<1>1. /\ Root(d, lt, n, h) /\ Steps(d, lt, n, h, w) /\ Counts(lt, n, h, w) /\ Steps(d, lt, n, h, z)
  BY DEF Way
<1>2. AtEnd(d, lt, h, w)
  BY <1>1, WayHere
<1>3. /\ h \in Nat /\ Len(w.path) \in Nat /\ j = Len(w.path) + 1 /\ Here(w) = w.nodes[j]
      /\ Listed(w.nodes) /\ Listed(w.path) /\ j \in Nat
      /\ Listed(z.nodes) /\ Len(z.nodes) = Len(z.path) + 1 /\ Len(z.path) \in Nat
      /\ z = [nodes |-> z.nodes, path |-> z.path, before |-> z.before]
  BY <1>1, <1>2 DEF AtEnd, Steps, Listed
<1>4. v = Down(w, p)
  OBVIOUS
<1> HIDE DEF v
<1>5. Stepped(w, p, v)
  BY <1>3, <1>4, DownIs
<1>6. /\ Len(v.nodes) = j + 1 /\ \A i \in 1 .. j : v.nodes[i] = w.nodes[i]
      /\ Len(v.path) = j /\ v.path[j] = p
  BY <1>3, <1>5 DEF Stepped, More
<1>7. /\ Len(v.path) <= Len(z.path)
      /\ \A i \in 1 .. Len(v.nodes) : z.nodes[i] = v.nodes[i]
      /\ \A i \in 1 .. Len(v.path) : z.path[i] = v.path[i]
  BY <1>4 DEF Extends
<1>8. \A i \in 1 .. j : z.nodes[i] = w.nodes[i]
  BY <1>3, <1>6, <1>7
<1>9. j \in 1 .. Len(z.path) /\ j \in 1 .. Len(z.nodes) /\ z.nodes[j] = Here(w) /\ z.path[j] = p
  <2>1. j \in 1 .. j /\ j \in 1 .. Len(v.path) /\ j <= Len(z.path)
    BY <1>3, <1>6, <1>7
  <2>2. j \in 1 .. Len(z.path) /\ j \in 1 .. Len(z.nodes)
    BY <1>3, <2>1
  <2>3. z.nodes[j] = w.nodes[j] /\ z.path[j] = v.path[j]
    BY <1>7, <1>8, <2>1
  <2> QED  BY <1>3, <1>6, <2>2, <2>3
<1>a. h - j = Lower(h, w) - 1
  BY <1>3 DEF Lower
<1>b. ASSUME NEW x \in Within(Here(w), Lower(h, w)), NEW i \in 1 .. j PROVE x \in Within(z.nodes[i], (h + 1) - i)
  BY <1>1, <1>8 DEF Counts
<1> QED  BY <1>3, <1>9, <1>a, <1>b DEF Through

(***************************************************************************)
(* An item of another node, exchanged with the value y of a leaf below.    *)
(***************************************************************************)
LEMMA RemoveExchanged ==
  ASSUME NEW d, NEW lt, NEW n, NEW h, NEW w, NEW at \in 0 .. Len(Here(w).items) - 1, NEW p \in 0 .. Len(Here(w).items),
         NEW z, NEW pos \in 0 .. Len(Here(z).items) - 1, NEW x, NEW y, NEW g,
         Half(M, d), Way(d, lt, n, h, w), Way(d, lt, n, h, z), Extends(Down(w, p), z),
         Lower(h, z) = 0, Lower(h, w) # 0, g = Lower(h, w) - 1, x = Here(w).items[at + 1],
         y = Here(z).items[pos + 1], Beside(lt, Here(w).children, at + 1, p + 1, g, y)
  PROVE  Holding(d, lt, RemoveAlong(WithValue(z, Len(w.nodes), at, y), pos), Within(n, h) \ {x})
<1> DEFINE j == Len(w.nodes)
           m == Here(w)
           v == WithValue(z, j, at, y)
<1>0. d \in Nat /\ d >= 1
  BY HalfFacts
<1>1. Through(d, lt, n, h, w, p, z)
  BY <1>0, ThroughIs
<1>2. /\ j \in 1 .. Len(z.path) /\ j \in 1 .. Len(z.nodes) /\ z.nodes[j] = m /\ z.path[j] = p
      /\ h - j = Lower(h, w) - 1
      /\ \A u \in Within(m, Lower(h, w)) : \A i \in 1 .. j : u \in Within(z.nodes[i], (h + 1) - i)
      /\ Listed(z.nodes) /\ z = [nodes |-> z.nodes, path |-> z.path, before |-> z.before]
  BY <1>1 DEF Through
<1>3. AtEnd(d, lt, h, w)
  BY <1>0, WayHere DEF Way
<1>4. Tree(d, lt, m, Lower(h, w)) /\ Lower(h, w) \in Nat /\ h \in Nat /\ h # 0 /\ Len(z.path) \in Nat
  <2>1. Tree(d, lt, m, Lower(h, w)) /\ Lower(h, w) \in Nat /\ h \in Nat /\ Len(w.path) \in Nat
    BY <1>3 DEF AtEnd
  <2>2. h # 0
    BY <2>1 DEF Lower
  <2>3. Len(z.path) \in Nat
    BY DEF Way, Steps, Listed
  <2> QED  BY <2>1, <2>2, <2>3
<1>5. m = Node(m.items, m.children, m.size) /\ Listed(m.items) /\ Len(m.items) \in Nat
  BY <1>4, TreeFacts
<1>6. at \in 0 .. Len(m.items) - 1 /\ x = m.items[at + 1] /\ Beside(lt, m.children, at + 1, p + 1, g, y)
  OBVIOUS
<1>h. m = z.nodes[j] /\ v = WithValue(z, j, at, y) /\ j = Len(w.nodes)
  BY <1>2
<1>x. x \in Within(m, Lower(h, w))
  <2>1. at + 1 \in 1 .. Len(m.items)
    BY <1>5, <1>6
  <2>2. Within(m, Lower(h, w)) = Held(m.items, m.children, Lower(h, w))
    BY <1>4, TreeUnfold
  <2> QED  BY <1>5, <1>6, <2>1, <2>2, HeldHas
<1> HIDE DEF m, v, j
<1>7. Swapped(z, v, j, at, y)
  <2>1. Swapped(z, WithValue(z, j, at, y), j, at, y)
    BY <1>2, <1>5, <1>6, <1>h, WithValueIs
  <2> QED  BY <1>h, <2>1
<1>8. Exchanging(lt, z.nodes[j], z.path[j], at, x, y, h - j)
  BY <1>2, <1>6, <1>h DEF Exchanging
<1>9. \A i \in 1 .. j : x \in Within(z.nodes[i], (h + 1) - i)
  BY <1>2, <1>x
<1>a. j \in 0 .. Len(z.path) /\ j # 0 /\ 1 <= j
  <2>1. j \in 1 .. Len(z.path) /\ Len(z.path) \in Nat
    BY <1>2, <1>4, Zenon
  <2> QED  BY <2>1
<1>b. Removing(d, lt, n, h, z, j, at, x, y, v, pos)
  BY <1>4, <1>7, <1>8, <1>9, <1>a, Zenon DEF Removing
<1>c. x = Gone(j, x, y, 1)
  BY <1>a DEF Gone
<1>d. Holding(d, lt, RemoveAlong(v, pos), Within(n, h) \ {x})
  BY <1>b, <1>c, RemoveAlongHolds
<1> QED  BY <1>d, <1>h, Zenon

(***************************************************************************)
(* Removal: the tree holds what it held but the value of the place.        *)
(***************************************************************************)
LEMMA RemovePlaceHolds ==
  ASSUME NEW d, NEW lt, NEW n, NEW h, NEW place, NEW x, Half(M, d), Place(d, lt, n, h, place, x)
  PROVE  Holding(d, lt, RemovePlace(place), Within(n, h) \ {x})
<1> DEFINE w == place.way
           at == place.at
           e == at + 1
           l == Descent(Down(w, at), ToLast)
           r == Descent(Down(w, e), ToFirst)
<1>0. d \in Nat /\ d >= 1
  BY HalfFacts
<1>1. Way(d, lt, n, h, w) /\ at \in 0 .. Len(Here(w).items) - 1 /\ x = Here(w).items[e]
  BY DEF Place
<1>2. AtEnd(d, lt, h, w)
  BY <1>0, <1>1, WayHere DEF Way
<1>3. Root(d, lt, Here(w), Lower(h, w)) /\ Tree(d, lt, Here(w), Lower(h, w)) /\ Lower(h, w) \in Nat
  BY <1>2 DEF AtEnd
<1>4. IsLeaf(Here(w)) <=> Lower(h, w) = 0
  BY <1>0, <1>3, RootLeaf
<1>5. CASE Lower(h, w) = 0
  <2>1. RemovePlace(place) = RemoveAlong(w, at)
    BY <1>4, <1>5, Zenon DEF RemovePlace
  <2>2. Holding(d, lt, RemoveAlong(w, at), Within(n, h) \ {x})
    BY <1>5, RemoveFromLeaf
  <2> QED  BY <2>1, <2>2, Zenon
<1>6. CASE Lower(h, w) # 0
  <2>0. Len(Here(w).items) \in Nat
    BY <1>3, TreeFacts
  <2>1. at \in 0 .. Len(Here(w).items) /\ e \in 0 .. Len(Here(w).items) /\ e = at + 1
    BY <1>1, <2>0
  <2>f. l = Descent(Down(w, at), ToLast) /\ r = Descent(Down(w, e), ToFirst)
    OBVIOUS
  <2>2. RemovePlace(place) =
          IF NbItems(Here(l)) > NbItems(Here(r))
          THEN RemoveAlong(WithValue(l, Len(w.nodes), at, Last(Here(l).items)), NbItems(Here(l)) - 1)
          ELSE RemoveAlong(WithValue(r, Len(w.nodes), at, Here(r).items[1]), 0)
    BY <1>4, <1>6, Zenon DEF RemovePlace
  <2> HIDE DEF w, at, e, l, r
  <2>3. PICK u \in Values : LastWay(d, lt, n, h, w, at, l, u)
    BY <1>0, <1>1, <1>6, <2>1, <2>f, LastWayIs
  <2>4. PICK v \in Values : FirstWay(d, lt, n, h, w, e, r, v)
    BY <1>0, <1>1, <1>6, <2>1, <2>f, FirstWayIs
  <2> DEFINE g == Lower(h, w) - 1
  <2>g. g = Lower(h, w) - 1
    OBVIOUS
  <2> HIDE DEF g
  <2>5. /\ Way(d, lt, n, h, l) /\ Extends(Down(w, at), l) /\ Lower(h, l) = 0 /\ Len(Here(l).items) >= 1
        /\ u = Here(l).items[Len(Here(l).items)] /\ Greatest(lt, Within(Here(w).children[at + 1], g), u)
    BY <2>3, <2>g DEF LastWay
  <2>6. /\ Way(d, lt, n, h, r) /\ Extends(Down(w, e), r) /\ Lower(h, r) = 0 /\ Len(Here(r).items) >= 1
        /\ v = Here(r).items[1] /\ Least(lt, Within(Here(w).children[e + 1], g), v)
    BY <2>4, <2>g DEF FirstWay
  <2>7. Len(Here(l).items) \in Nat /\ Len(Here(r).items) \in Nat
    <3>1. AtEnd(d, lt, h, l) /\ AtEnd(d, lt, h, r)
      BY <1>0, <2>5, <2>6, WayHere DEF Way
    <3>2. Tree(d, lt, Here(l), 0) /\ Tree(d, lt, Here(r), 0)
      BY <2>5, <2>6, <3>1 DEF AtEnd
    <3> QED  BY <3>2, TreeFacts
  <2>8. Holding(d, lt, RemoveAlong(WithValue(l, Len(w.nodes), at, u), Len(Here(l).items) - 1), Within(n, h) \ {x})
    <3> DEFINE pos == Len(Here(l).items) - 1
    <3>1. pos \in 0 .. Len(Here(l).items) - 1 /\ pos + 1 = Len(Here(l).items)
      BY <2>5, <2>7
    <3>2. u = Here(l).items[pos + 1]
      BY <2>5, <3>1
    <3>3. Beside(lt, Here(w).children, at + 1, at + 1, g, u)
      BY <2>5, Zenon DEF Beside
    <3>4. x = Here(w).items[at + 1]
      BY <1>1, <2>1
    <3> HIDE DEF pos
    <3>5. Holding(d, lt, RemoveAlong(WithValue(l, Len(w.nodes), at, u), pos), Within(n, h) \ {x})
      BY <1>1, <1>6, <2>1, <2>5, <2>g, <3>1, <3>2, <3>3, <3>4, RemoveExchanged
    <3> QED  BY <3>5 DEF pos
  <2>9. Holding(d, lt, RemoveAlong(WithValue(r, Len(w.nodes), at, v), 0), Within(n, h) \ {x})
    <3> DEFINE pos == 0
    <3>1. pos \in 0 .. Len(Here(r).items) - 1 /\ pos + 1 = 1
      BY <2>6, <2>7
    <3>2. v = Here(r).items[pos + 1]
      BY <2>6, <3>1
    <3>3. Beside(lt, Here(w).children, at + 1, e + 1, g, v)
      BY <2>1, <2>6, Zenon DEF Beside
    <3>4. x = Here(w).items[at + 1]
      BY <1>1, <2>1
    <3> HIDE DEF pos
    <3>5. Holding(d, lt, RemoveAlong(WithValue(r, Len(w.nodes), at, v), pos), Within(n, h) \ {x})
      BY <1>1, <1>6, <2>1, <2>6, <2>g, <3>1, <3>2, <3>3, <3>4, RemoveExchanged
    <3> QED  BY <3>5 DEF pos
  <2>a. Last(Here(l).items) = u
    BY <2>5 DEF Last
  <2> QED  BY <2>2, <2>6, <2>8, <2>9, <2>a, Zenon DEF NbItems
<1> QED  BY <1>5, <1>6

-----------------------------------------------------------------------------
(* The invariant.                                                          *)

(* The nodes k levels below the root of a tree.                            *)
SubTree(d, lt, h, k, x) == Tree(d, lt, x, h - k) /\ (k # 0 => Len(x.items) >= d)

LEMMA LevelTree ==
  ASSUME NEW d, NEW lt, NEW n, NEW h \in Nat, Tree(d, lt, n, h)
  PROVE  \A k \in 0 .. h : \A x \in Level(n, k) : SubTree(d, lt, h, k, x)
<1> DEFINE Bad == {k \in 0 .. h : ~ (\A x \in Level(n, k) : SubTree(d, lt, h, k, x))}
<1>1. \A x \in Level(n, 0) : SubTree(d, lt, h, 0, x)
  <2>1. h - 0 = h /\ Level(n, 0) = {n}
    BY LevelZero
  <2> QED  BY <2>1 DEF SubTree
<1>2. ASSUME NEW k \in 1 .. h, NEW j, j = k - 1, \A x \in Level(n, j) : SubTree(d, lt, h, j, x), NEW x \in Level(n, k)
      PROVE  SubTree(d, lt, h, k, x)
  <2>1. j \in Nat /\ k = j + 1 /\ h - j \in Nat /\ h - k = (h - j) - 1 /\ k # 0
    BY <1>2
  <2>2. Level(n, k) = UNION {ToSet(y.children) : y \in Level(n, j)}
    BY <2>1, LevelNext
  <2>3. PICK y \in Level(n, j) : x \in ToSet(y.children)
    BY <1>2, <2>2
  <2>4. Tree(d, lt, y, h - j)
    BY <1>2, <2>3 DEF SubTree
  <2>5. Listed(y.children)
    BY <2>1, <2>4, TreeFacts
  <2>6. PICK q \in 1 .. Len(y.children) : x = y.children[q]
    BY <2>3, <2>5, ElementsOf
  <2> DEFINE f == h - j
             g == h - k
  <2>7. f \in Nat /\ g = f - 1 /\ Tree(d, lt, y, f)
    BY <2>1, <2>4
  <2> HIDE DEF f, g
  <2>8. Tree(d, lt, y.children[q], g) /\ Len(y.children[q].items) >= d
    BY <2>7, ChildTree
  <2> QED  BY <2>1, <2>6, <2>8 DEF SubTree, g
<1>3. ASSUME Bad # {} PROVE FALSE
  <2>1. Bad \in SUBSET Nat
    OBVIOUS
  <2>2. PICK k \in Bad : \A j \in Bad : k <= j
    BY <1>3, <2>1, LeastNumber
  <2>3. k # 0
    BY <1>1, <2>2
  <2>4. k \in 1 .. h /\ k - 1 \in 0 .. h /\ ~ (k <= k - 1)
    BY <2>2, <2>3
  <2>5. \A x \in Level(n, k - 1) : SubTree(d, lt, h, k - 1, x)
    BY <2>2, <2>4
  <2> DEFINE j == k - 1
  <2>6. j = k - 1 /\ \A x \in Level(n, j) : SubTree(d, lt, h, j, x)
    BY <2>5
  <2> HIDE DEF j
  <2>7. \A x \in Level(n, k) : SubTree(d, lt, h, k, x)
    BY <1>2, <2>4, <2>6
  <2> QED  BY <2>2, <2>7
<1> QED  BY <1>3

(* Nothing is below the last level.                                        *)
LEMMA LevelBelow ==
  ASSUME NEW d, NEW lt, NEW n, NEW h \in Nat, Tree(d, lt, n, h)
  PROVE  \A k \in Nat : k > h => Level(n, k) = {}
<1> DEFINE Bad == {k \in Nat : k > h /\ Level(n, k) # {}}
<1>1. ASSUME NEW k \in Nat, NEW j \in Nat, k = j + 1, j = h PROVE Level(n, k) = {}
  <2>1. Level(n, k) = UNION {ToSet(y.children) : y \in Level(n, j)}
    BY <1>1, LevelNext
  <2>2. ASSUME NEW y \in Level(n, j) PROVE ToSet(y.children) = {}
    <3>1. SubTree(d, lt, h, j, y) /\ h - j = 0
      BY <1>1, LevelTree
    <3>2. Tree(d, lt, y, 0)
      BY <3>1 DEF SubTree
    <3>3. Listed(y.children) /\ Len(y.children) = 0
      BY <3>2, TreeFacts DEF NbKids
    <3> QED  BY <3>3, ElementsOf
  <2> QED  BY <2>1, <2>2
<1>2. ASSUME NEW k \in Nat, NEW j \in Nat, k = j + 1, Level(n, j) = {} PROVE Level(n, k) = {}
  <2>1. Level(n, k) = UNION {ToSet(y.children) : y \in Level(n, j)}
    BY <1>2, LevelNext
  <2> QED  BY <1>2, <2>1
<1>3. ASSUME Bad # {} PROVE FALSE
  <2>1. Bad \in SUBSET Nat
    OBVIOUS
  <2>2. PICK k \in Bad : \A j \in Bad : k <= j
    BY <1>3, <2>1, LeastNumber
  <2> DEFINE j == k - 1
  <2>3. k \in Nat /\ k > h /\ Level(n, k) # {} /\ j \in Nat /\ k = j + 1 /\ ~ (k <= j)
    BY <2>2
  <2>4. j = h \/ j > h
    BY <2>3
  <2>5. j > h => Level(n, j) = {}
    BY <2>2, <2>3
  <2> HIDE DEF j, Bad
  <2> QED  BY <1>1, <1>2, <2>3, <2>4, <2>5
<1> QED  BY <1>3

LEMMA WithinMore ==
  ASSUME NEW d, NEW lt, NEW n, NEW h \in Nat, NEW k \in Nat, Tree(d, lt, n, h), h <= k
  PROVE  Within(n, k) = Within(n, h)
<1>1. \A j \in 0 .. k : j > h => Level(n, j) = {}
  BY LevelBelow
<1>2. 0 .. h \subseteq 0 .. k /\ \A j \in 0 .. k : j \in 0 .. h \/ j > h
  OBVIOUS
<1>3. UNION {Level(n, j) : j \in 0 .. k} = UNION {Level(n, j) : j \in 0 .. h}
  BY <1>1, <1>2
<1> QED  BY <1>3, Zenon DEF Within

(* The contents of a tree that may be a root, or a node of it.             *)
LEMMA ContentsIs ==
  ASSUME NEW d \in Nat, NEW lt, NEW n, NEW h, d >= 1, Root(d, lt, n, h)
  PROVE  Contents(n) = Within(n, h) /\ Counted(Contents(n), n.size)
<1>1. h \in Nat /\ n.size \in Nat /\ h <= n.size
  BY RootHeight
<1>2. Tree(d, lt, n, h)
  BY DEF Root
<1>3. Within(n, n.size) = Within(n, h)
  BY <1>1, <1>2, WithinMore
<1>4. Counted(Within(n, h), n.size)
  BY <1>1, <1>2, TreeCounted
<1> QED  BY <1>3, <1>4 DEF Contents

LEMMA SubRoot ==
  ASSUME NEW d \in Nat, NEW lt, NEW n, NEW h, NEW k, NEW x, d >= 1, Root(d, lt, n, h), k \in 0 .. h, x \in Level(n, k)
  PROVE  Root(d, lt, x, h - k)
<1>1. h \in Nat /\ Tree(d, lt, n, h) /\ (h # 0 => Len(n.items) >= 1)
  BY DEF Root
<1>2. SubTree(d, lt, h, k, x) /\ h - k \in Nat
  BY <1>1, LevelTree
<1>3. Tree(d, lt, x, h - k) /\ (k # 0 => Len(x.items) >= d)
  BY <1>2 DEF SubTree
<1>4. Len(x.items) \in Nat
  BY <1>2, <1>3, TreeFacts
<1>5. CASE k = 0
  <2>1. x = n /\ h - k = h
    BY <1>1, <1>5, LevelZero
  <2> QED  BY <2>1
<1>6. CASE k # 0
  BY <1>2, <1>3, <1>4, <1>6 DEF Root
<1> QED  BY <1>5, <1>6

LEMMA TreeSizes ==
  ASSUME NEW d \in Nat, NEW lt, NEW n, NEW h, d >= 1, Root(d, lt, n, h)
  PROVE  \A k \in 0 .. n.size : \A x \in Level(n, k) : x.size = Cardinality(Contents(x))
<1> SUFFICES ASSUME NEW k \in 0 .. n.size, NEW x \in Level(n, k) PROVE x.size = Cardinality(Contents(x))
  OBVIOUS
<1>1. h \in Nat /\ n.size \in Nat /\ Tree(d, lt, n, h)
  BY RootHeight DEF Root
<1>2. k \in 0 .. h
  BY <1>1, LevelBelow
<1> DEFINE g == h - k
<1>3. Root(d, lt, x, g)
  BY <1>2, SubRoot
<1> HIDE DEF g
<1>4. Counted(Contents(x), x.size)
  BY <1>3, ContentsIs
<1> QED  BY <1>4 DEF Counted

LEMMA TreeIsBTree ==
  ASSUME NEW d, NEW lt, NEW n, NEW h, Half(M, d), Root(d, lt, n, h)
  PROVE  IsBTree(M, lt, n, h)
<1>0. d \in Nat /\ d >= 1 /\ M - 1 = 2 * d /\ M \div 2 = d
  BY HalfFacts
<1>1. h \in Nat /\ Tree(d, lt, n, h)
  BY DEF Root
<1> SUFFICES ASSUME NEW k \in 0 .. h, NEW x \in Level(n, k)
             PROVE  /\ x.items \in Seq(Values) /\ NbItems(x) <= M - 1
                    /\ IF k = 0 THEN h # 0 => NbItems(x) # 0 ELSE NbItems(x) >= M \div 2
                    /\ Len(x.children) = IF k = h THEN 0 ELSE NbItems(x) + 1
                    /\ IsOrdered(lt, x, h - k)
  BY DEF IsBTree
<1> DEFINE g == h - k
<1>2. Tree(d, lt, x, g) /\ (k # 0 => Len(x.items) >= d) /\ g \in Nat /\ (g = 0 <=> k = h)
  BY <1>1, LevelTree DEF SubTree
<1> HIDE DEF g
<1>3. /\ Listed(x.items) /\ Listed(x.children) /\ Len(x.items) \in Nat
      /\ Len(x.children) = NbKids(x.items, g) /\ Len(x.items) <= 2 * d
      /\ \A i \in 1 .. Len(x.items) : x.items[i] \in Values
  BY <1>2, TreeFacts
<1>4. x.items \in Seq(Values) /\ NbItems(x) <= M - 1
  BY <1>0, <1>3, ListedOf DEF NbItems
<1>5. IF k = 0 THEN h # 0 => NbItems(x) # 0 ELSE NbItems(x) >= M \div 2
  <2>1. CASE k = 0
    <3>1. x = n
      BY <2>1, LevelZero
    <3>2. h # 0 => Len(x.items) >= 1
      BY <3>1 DEF Root
    <3> QED  BY <1>3, <2>1, <3>2 DEF NbItems
  <2>2. CASE k # 0
    BY <1>0, <1>2, <2>2 DEF NbItems
  <2> QED  BY <2>1, <2>2
<1>6. Len(x.children) = IF k = h THEN 0 ELSE NbItems(x) + 1
  BY <1>2, <1>3, Zenon DEF NbKids, NbItems
<1>7. IsOrdered(lt, x, g)
  <2>1. Arranged(lt, x.items, x.children, g)
    BY <1>2, TreeUnfold DEF Row
  <2>2. InOrder(lt, x.items) /\ Separated(lt, x.items, x.children, g - 1)
    BY <2>1 DEF Arranged
  <2>3. DOMAIN x.items = 1 .. Len(x.items) /\ DOMAIN x.children = 1 .. Len(x.children)
    BY <1>3 DEF Listed
  <2> QED  BY <2>2, <2>3, Zenon DEF IsOrdered, InOrder, Separated, Between
<1> QED  BY <1>4, <1>5, <1>6, <1>7 DEF g

-----------------------------------------------------------------------------
(* The indexes of a tree.                                                  *)

(* A smaller finite set.                                                   *)
LEMMA CountedLess ==
  ASSUME NEW S, NEW T, NEW x, IsFiniteSet(T), x \in T, x \notin S, S \subseteq T
  PROVE  Cardinality(S) \in Nat /\ Cardinality(T) \in Nat /\ Cardinality(S) < Cardinality(T)
<1>1. IsFiniteSet(S) /\ Cardinality(S) <= Cardinality(T) /\ (Cardinality(T) = Cardinality(S) => T = S)
  <2>1. S \in SUBSET T
    OBVIOUS
  <2> QED  BY <2>1, FS_Subset
<1>2. Cardinality(S) \in Nat /\ Cardinality(T) \in Nat
  BY <1>1, FS_CardinalityType
<1>3. T # S
  OBVIOUS
<1> DEFINE a == Cardinality(S)
           b == Cardinality(T)
<1>4. a \in Nat /\ b \in Nat /\ a <= b /\ a # b
  BY <1>1, <1>2, <1>3
<1> HIDE DEF a, b
<1>5. a < b
  BY <1>4
<1> QED  BY <1>2, <1>5 DEF a, b

(* The ranks are different, and less than the number of elements.          *)
LEMMA RankLess ==
  ASSUME NEW lt, NEW S \in SUBSET Values, IsFiniteSet(S), NEW x \in S
  PROVE  /\ Rank(lt, S, x) \in Nat /\ Rank(lt, S, x) < Cardinality(S)
         /\ \A y \in S : Lesser(lt, x, y) => Rank(lt, S, x) < Rank(lt, S, y)
<1> DEFINE T == Lessers(lt, S, x)
<1>1. T \subseteq S /\ x \notin T /\ x \in Values
  BY LesserOrder DEF Lessers
<1>2. Cardinality(T) \in Nat /\ Cardinality(T) < Cardinality(S)
  <2> HIDE DEF T
  <2> QED  BY <1>1, CountedLess
<1>3. ASSUME NEW y \in S, Lesser(lt, x, y) PROVE Cardinality(T) < Cardinality(Lessers(lt, S, y))
  <2> DEFINE U == Lessers(lt, S, y)
  <2>1. x \in U
    BY <1>3, Zenon DEF Lessers
  <2>2. T \subseteq U
    <3>1. ASSUME NEW z \in T PROVE z \in U
      <4>1. z \in S /\ Lesser(lt, z, x)
        BY Zenon DEF Lessers
      <4>2. Lesser(lt, z, y)
        BY <1>1, <1>3, <4>1, LesserOrder
      <4> QED  BY <4>1, <4>2, Zenon DEF Lessers
    <3> QED  BY <3>1
  <2>3. U \in SUBSET S
    BY DEF Lessers
  <2> HIDE DEF T, U
  <2>4. IsFiniteSet(U)
    BY <2>3, FS_Subset
  <2>5. Cardinality(T) < Cardinality(U)
    BY <1>1, <2>1, <2>2, <2>4, CountedLess
  <2> QED  BY <2>5 DEF U
<1> QED  BY <1>2, <1>3, Zenon DEF Rank

LEMMA RankOne ==
  ASSUME NEW lt, NEW S \in SUBSET Values, IsFiniteSet(S), NEW x \in S, NEW y \in S, Rank(lt, S, x) = Rank(lt, S, y)
  PROVE  x = y
<1> DEFINE a == Rank(lt, S, x)
           b == Rank(lt, S, y)
<1>1. a \in Nat /\ (Lesser(lt, x, y) => a < b)
  BY RankLess
<1>2. b \in Nat /\ (Lesser(lt, y, x) => b < a)
  BY RankLess
<1>3. ~ Lesser(lt, x, y) /\ ~ Lesser(lt, y, x)
  <2>1. a = b
    OBVIOUS
  <2> HIDE DEF a, b
  <2> QED  BY <1>1, <1>2, <2>1
<1> QED  BY <1>3, LesserOrder

LEMMA RootContents ==
  ASSUME NEW d \in Nat, NEW lt, NEW n, NEW h, d >= 1, Root(d, lt, n, h)
  PROVE  /\ Within(n, h) \in SUBSET Values /\ IsFiniteSet(Within(n, h))
         /\ n.size \in Nat /\ Cardinality(Within(n, h)) = n.size
<1>1. h \in Nat /\ Tree(d, lt, n, h)
  BY DEF Root
<1>2. n.size \in Nat /\ Within(n, h) \subseteq Values
  BY <1>1, TreeFacts
<1>3. Counted(Within(n, h), n.size)
  BY <1>1, TreeCounted
<1> QED  BY <1>2, <1>3 DEF Counted

(***************************************************************************)
(* An element is read at its rank; there is an element at every index.     *)
(***************************************************************************)
LEMMA GetIs ==
  ASSUME NEW d \in Nat, NEW lt, NEW n, NEW h, NEW x \in Within(n, h), NEW j, d >= 1, Root(d, lt, n, h),
         j = Rank(lt, Within(n, h), x)
  PROVE  j \in Nat /\ j < n.size /\ Get(n, j) = x
<1> DEFINE S == Within(n, h)
<1>1. S \in SUBSET Values /\ IsFiniteSet(S) /\ n.size \in Nat /\ Cardinality(S) = n.size
  BY RootContents
<1>2. j \in Nat /\ j < n.size
  <2>1. x \in S /\ j = Rank(lt, S, x)
    OBVIOUS
  <2> HIDE DEF S
  <2>2. Rank(lt, S, x) \in Nat /\ Rank(lt, S, x) < Cardinality(S)
    BY <1>1, <2>1, RankLess
  <2> QED  BY <1>1, <2>1, <2>2
<1> DEFINE place == GetFromIndex(n, j)
<1>p. place = GetFromIndex(n, j)
  OBVIOUS
<1> HIDE DEF place
<1>3. PICK y \in Within(n, h) : Rank(lt, Within(n, h), y) = j /\ Get(n, j) = y
  BY <1>2, <1>p, GetFromIndexIs
<1>4. x = y
  <2>1. x \in S /\ y \in S /\ Rank(lt, S, x) = Rank(lt, S, y)
    BY <1>3
  <2> HIDE DEF S
  <2> QED  BY <1>1, <2>1, RankOne
<1> QED  BY <1>2, <1>3, <1>4

(* What indexOf and indexOfNearest answer for an absent value.             *)
LEMMA AbsentIndex ==
  ASSUME NEW d \in Nat, NEW lt, NEW n, NEW h, NEW v \in Values, NEW j, d >= 1, Root(d, lt, n, h),
         v \notin Within(n, h), j = Rank(lt, Within(n, h), v)
  PROVE  IndexOf(lt, n, v) = -1 /\ IndexOfNearest(lt, n, v) = IF j = 0 THEN 0 ELSE j - 1
<1> DEFINE w == Descent(Start(n), ToValue(lt, v))
           p == GetPosition(lt, Here(w), v)
<1>w. w = Descent(Start(n), ToValue(lt, v)) /\ p = GetPosition(lt, Here(w), v)
  OBVIOUS
<1>n. /\ IndexOf(lt, n, v) = IF p.exists THEN w.before + Before(Here(w), p.at) ELSE -1
      /\ IndexOfNearest(lt, n, v) =
           IF p.exists THEN w.before + Before(Here(w), p.at)
           ELSE IF w.before + Before(Here(w), p.at) = 0 THEN 0 ELSE (w.before + Before(Here(w), p.at)) - 1
  BY Zenon DEF IndexOf, IndexOfNearest
<1> HIDE DEF w, p
<1>1. Looked(d, lt, n, h, v, w, p)
  BY <1>w, ValueLooked
<1>2. /\ Way(d, lt, n, h, w) /\ Passed(lt, w, v) /\ p.at \in 0 .. Len(Here(w).items)
      /\ p.exists = FALSE /\ Lower(h, w) = 0 /\ Between(lt, Here(w).items, p.at + 1, v)
  BY <1>1, Zenon DEF Looked
<1>3. AtEnd(d, lt, h, w)
  BY <1>2, WayHere DEF Way
<1>4. Tree(d, lt, Here(w), 0)
  BY <1>2, <1>3 DEF AtEnd
<1>5. Rank(lt, Within(Here(w), 0), v) = Before(Here(w), p.at)
  <2> DEFINE o == 0
             g == o - 1
             m == Here(w)
             q == p.at + 1
             at == p.at
  <2>1. /\ o \in Nat /\ g = o - 1 /\ q = at + 1 /\ Tree(d, lt, m, o) /\ at \in 0 .. Len(m.items)
        /\ Between(lt, m.items, q, v) /\ o = 0
    BY <1>2, <1>4
  <2> HIDE DEF o, g, m, q, at
  <2>2. Rank(lt, Within(m, o), v) = IF o = 0 THEN Before(m, at) ELSE Before(m, at) + Rank(lt, Within(m.children[q], g), v)
    BY <2>1, RankGap
  <2>3. Rank(lt, Within(m, o), v) = Before(m, at)
    BY <2>1, <2>2
  <2> QED  BY <2>3 DEF o, m, at
<1>6. Rank(lt, Within(n, h), v) = w.before + Rank(lt, Within(Here(w), Lower(h, w)), v)
  BY <1>2 DEF Way, Counts, Ranked
<1>7. j = w.before + Before(Here(w), p.at)
  BY <1>2, <1>5, <1>6
<1> QED  BY <1>2, <1>7, <1>n, Zenon

-----------------------------------------------------------------------------
(* The array read by index, and inserted again.                            *)

LEMMA ElementsAre ==
  ASSUME NEW d \in Nat, NEW lt, NEW n, NEW h, d >= 1, Root(d, lt, n, h)
  PROVE  /\ Len(Elements(n)) = n.size /\ Len(Elements(n)) \in Nat
         /\ {Elements(n)[i] : i \in 1 .. Len(Elements(n))} = Within(n, h)
<1> DEFINE S == Within(n, h)
           E == Elements(n)
           place(j) == GetFromIndex(n, j)
<1>1. n.size \in Nat
  BY RootContents
<1>2. E = [i \in 1 .. n.size |-> Get(n, i - 1)]
  BY DEF Elements
<1>3. Len(E) = n.size
  <2> HIDE DEF E
  <2> DEFINE T == {E[i] : i \in 1 .. n.size}
  <2>1. E \in [1 .. n.size -> T]
    BY <1>2
  <2>2. E \in Seq(T)
    <3> HIDE DEF T
    <3> QED  BY <1>1, <2>1, SeqDef
  <2>3. DOMAIN E = 1 .. n.size
    BY <1>2
  <2> QED  BY <1>1, <2>2, <2>3, LenProperties
<1>4. \A i \in 1 .. n.size : E[i] = Get(n, i - 1)
  BY <1>2
<1>5. ASSUME NEW i \in 1 .. n.size PROVE E[i] \in S
  <2> DEFINE j == i - 1
             p == GetFromIndex(n, j)
  <2>1. j \in Nat /\ j < n.size /\ p = GetFromIndex(n, j)
    BY <1>1
  <2>e. E[i] = Get(n, j)
    BY <1>4
  <2> HIDE DEF j, p
  <2>2. \E y \in Within(n, h) : Get(n, j) = y
    BY <2>1, GetFromIndexIs
  <2> QED  BY <2>2, <2>e
<1>6. ASSUME NEW x \in S PROVE \E i \in 1 .. n.size : E[i] = x
  <2> DEFINE j == Rank(lt, Within(n, h), x)
  <2>1. j = Rank(lt, Within(n, h), x)
    OBVIOUS
  <2> HIDE DEF j
  <2>2. j \in Nat /\ j < n.size /\ Get(n, j) = x
    BY <2>1, GetIs
  <2>3. j + 1 \in 1 .. n.size /\ (j + 1) - 1 = j
    BY <1>1, <2>2
  <2>4. E[j + 1] = x
    BY <1>4, <2>2, <2>3
  <2> QED  BY <2>3, <2>4
<1> HIDE DEF E, S
<1>7. {E[i] : i \in 1 .. n.size} = S
  BY <1>5, <1>6
<1> QED  BY <1>1, <1>3, <1>7 DEF E, S

-----------------------------------------------------------------------------
(* The tree without elements, and the one built again in another order.    *)

LEMMA EmptyHolds ==
  ASSUME NEW d \in Nat, d >= 1, NEW lt
  PROVE  Holding(d, lt, EmptyNode, {})
<1> DEFINE I == <<>>
           h == 0
           s == 0
<1>1. Listed(I) /\ Len(I) = 0
  BY ListedNone
<1>2. SizeOf(I) = 0
  <2> HIDE DEF I
  <2> QED  BY <1>1, SizeNone
<1>3. EmptyNode = Node(I, I, s)
  BY DEF EmptyNode
<1>4. Arranged(lt, I, I, h)
  <2> HIDE DEF I
  <2> QED  BY <1>1 DEF Arranged, NbKids, InOrder, Separated
<1>5. h = 0 /\ s = 0
  OBVIOUS
<1> HIDE DEF I, s
<1>6. Row(d, lt, I, I, h) /\ Full(d, I)
  BY <1>1, <1>4 DEF Row, Full
<1> HIDE DEF h
<1>7. Len(I) <= 2 * d /\ s = Len(I) + SizeOf(I)
  BY <1>1, <1>2, <1>5
<1>8. Tree(d, lt, Node(I, I, s), h) /\ Within(Node(I, I, s), h) = Held(I, I, h)
  BY <1>6, <1>7, TreeMake
<1>9. Held(I, I, h) = {}
  BY <1>1, HeldHas
<1>10. h \in Nat /\ Root(d, lt, EmptyNode, h) /\ Within(EmptyNode, h) = {}
  BY <1>3, <1>5, <1>8, <1>9 DEF Root
<1> QED  BY <1>10 DEF Holding

(* The first k values of a list.                                           *)
FirstValues(list, k) == {list[i] : i \in 1 .. k}

LEMMA FillHolds ==
  ASSUME NEW d, Half(M, d), NEW lt, NEW list, NEW n \in Nat, NEW turn, Fill(lt, list, n, turn),
         \A i \in 1 .. n : list[i] \in Values
  PROVE  Holding(d, lt, turn[n], FirstValues(list, n))
<1> DEFINE Bad == {k \in 0 .. n : ~ Holding(d, lt, turn[k], FirstValues(list, k))}
<1>d. d \in Nat /\ d >= 1
  BY DEF Half
<1>1. SUFFICES ASSUME Bad # {} PROVE FALSE
  <2>1. n \in 0 .. n
    OBVIOUS
  <2> QED  BY <1>1, <2>1
<1>2. Bad \in SUBSET Nat
  OBVIOUS
<1>3. PICK k \in Bad : \A j \in Bad : k <= j
  <2> HIDE DEF Bad
  <2> QED  BY <1>1, <1>2, LeastNumber
<1>4. k \in 0 .. n /\ ~ Holding(d, lt, turn[k], FirstValues(list, k))
  OBVIOUS
<1>5. k # 0
  <2>1. ASSUME k = 0 PROVE FALSE
    <3>1. turn[k] = EmptyNode /\ FirstValues(list, k) = {}
      BY <2>1 DEF Fill, FirstValues
    <3>2. Holding(d, lt, EmptyNode, {})
      BY <1>d, EmptyHolds
    <3> QED  BY <1>4, <3>1, <3>2
  <2> QED  BY <2>1
<1> DEFINE g == k - 1
           v == list[k]
           S == FirstValues(list, g)
           m == turn[g]
<1>6. g \in 0 .. n /\ ~ (k <= g) /\ k \in 1 .. n
  BY <1>4, <1>5
<1>7. Holding(d, lt, m, S)
  BY <1>3, <1>6
<1>8. turn[k] = Inserted(lt, m, v) /\ v \in Values
  BY <1>6 DEF Fill
<1>9. FirstValues(list, k) = S \cup {v}
  BY <1>6 DEF FirstValues
<1> HIDE DEF m, S, v
<1>10. PICK h \in Nat : Root(d, lt, m, h) /\ Within(m, h) = S
  BY <1>7 DEF Holding
<1>11. Holding(d, lt, Inserted(lt, m, v), Within(m, h) \cup {v})
  BY <1>8, <1>10, InsertedHolds
<1> QED  BY <1>4, <1>8, <1>9, <1>10, <1>11

LEMMA RebuiltHolds ==
  ASSUME NEW d, Half(M, d), NEW lt, NEW lt2, NEW n, NEW h, Root(d, lt, n, h)
  PROVE  Holding(d, lt2, Rebuilt(lt2, Elements(n)), Within(n, h))
<1> DEFINE list == Elements(n)
           len == Len(list)
<1>d. d \in Nat /\ d >= 1
  BY DEF Half
<1>1. len \in Nat /\ FirstValues(list, len) = Within(n, h)
  BY <1>d, ElementsAre DEF FirstValues
<1>2. Within(n, h) \subseteq Values
  BY <1>d, RootContents
<1>3. \A i \in 1 .. len : list[i] \in Values
  BY <1>1, <1>2 DEF FirstValues
<1>l. len = Len(list)
  OBVIOUS
<1> HIDE DEF list, len
<1>4. PICK turn : Fill(lt2, list, len, turn) /\ Rebuilt(lt2, list) = turn[len]
  BY <1>1, <1>l, RebuiltTurns
<1>5. Holding(d, lt2, turn[len], FirstValues(list, len))
  BY <1>1, <1>3, <1>4, FillHolds
<1> QED  BY <1>1, <1>4, <1>5 DEF list

-----------------------------------------------------------------------------
(* The invariant: the root is a well formed tree, whatever its levels.     *)

IInv ==
  /\ M \in Orders
  /\ lesserThan \in {"<", ">"}
  /\ \E d, h : Half(M, d) /\ Root(d, lesserThan, root, h)

(* The root as the lemmas take it: half an order, levels, and its values.  *)
Rooted(d, h) ==
  /\ Half(M, d) /\ d \in Nat /\ d >= 1
  /\ Root(d, lesserThan, root, h) /\ Contents(root) = Within(root, h)

LEMMA RootedIs ==
  ASSUME IInv
  PROVE  \E d, h : Rooted(d, h)
<1>1. PICK d, h : Half(M, d) /\ Root(d, lesserThan, root, h)
  BY DEF IInv
<1>2. d \in Nat /\ d >= 1
  BY <1>1 DEF Half
<1>3. Contents(root) = Within(root, h)
  BY <1>1, <1>2, ContentsIs
<1> QED  BY <1>1, <1>2, <1>3 DEF Rooted

(* The next root holds the values S.                                       *)
Becomes(S) == \A d : Half(M, d) => Holding(d, lesserThan', root', S)

LEMMA NextHolds ==
  ASSUME IInv, NEW S, Becomes(S), M' = M, lesserThan' \in {"<", ">"}
  PROVE  IInv' /\ Contents(root') = S
<1>1. PICK d, h : Rooted(d, h)
  BY RootedIs
<1>2. Half(M, d) /\ d \in Nat /\ d >= 1
  BY <1>1 DEF Rooted
<1>3. PICK g \in Nat : Root(d, lesserThan', root', g) /\ Within(root', g) = S
  BY <1>2 DEF Becomes, Holding
<1>4. Contents(root') = S
  BY <1>2, <1>3, ContentsIs
<1>5. M' \in Orders /\ Half(M', d)
  BY <1>2 DEF IInv
<1> QED  BY <1>3, <1>4, <1>5 DEF IInv

LEMMA InsertHolds ==
  ASSUME IInv, NEW v \in Values, Insert(v)
  PROVE  Becomes(Contents(root) \cup {v}) /\ M' = M /\ lesserThan' = lesserThan
<1>1. root' = Inserted(lesserThan, root, v) /\ M' = M /\ lesserThan' = lesserThan
  BY DEF Insert
<1>2. PICK h0, h : Rooted(h0, h)
  BY RootedIs
<1>3. Contents(root) = Within(root, h)
  BY <1>2 DEF Rooted
<1>4. ASSUME NEW d, Half(M, d) PROVE Holding(d, lesserThan', root', Contents(root) \cup {v})
  <2>1. d = h0
    BY <1>2, <1>4 DEF Rooted, Half
  <2>2. Root(d, lesserThan, root, h)
    BY <1>2, <2>1 DEF Rooted
  <2>3. Holding(d, lesserThan, Inserted(lesserThan, root, v), Within(root, h) \cup {v})
    BY <1>4, <2>2, InsertedHolds
  <2> QED  BY <1>1, <1>3, <2>3
<1> QED  BY <1>1, <1>4 DEF Becomes

LEMMA RootHolds ==
  ASSUME NEW d, NEW h, Rooted(d, h)
  PROVE  Holding(d, lesserThan, root, Contents(root))
<1>1. h \in Nat
  BY DEF Rooted, Root
<1> QED  BY <1>1 DEF Rooted, Holding

LEMMA RemoveValueHolds ==
  ASSUME IInv, NEW v \in Values, RemoveValue(v)
  PROVE  Becomes(Contents(root) \ {v}) /\ M' = M /\ lesserThan' = lesserThan
<1> DEFINE place == GetNode(lesserThan, root, v)
<1>p. place = GetNode(lesserThan, root, v)
  OBVIOUS
<1>1. /\ root' = IF place.at = -1 THEN root ELSE RemovePlace(place)
      /\ M' = M /\ lesserThan' = lesserThan
  BY DEF RemoveValue
<1> HIDE DEF place
<1>2. PICK e, h : Rooted(e, h)
  BY RootedIs
<1>3. ASSUME NEW d, Half(M, d) PROVE Holding(d, lesserThan', root', Contents(root) \ {v})
  <2>1. d = e
    BY <1>2, <1>3 DEF Rooted, Half
  <2>2. /\ d \in Nat /\ d >= 1 /\ Rooted(d, h)
        /\ Root(d, lesserThan, root, h) /\ Contents(root) = Within(root, h)
    BY <1>2, <2>1 DEF Rooted
  <2>3. \/ v \in Within(root, h) /\ place.at # -1 /\ Place(d, lesserThan, root, h, place, v)
        \/ v \notin Within(root, h) /\ place.at = -1
    BY <1>p, <2>2, GetNodeIs
  <2>4. CASE v \in Within(root, h) /\ place.at # -1 /\ Place(d, lesserThan, root, h, place, v)
    <3>1. Holding(d, lesserThan, RemovePlace(place), Within(root, h) \ {v})
      BY <1>3, <2>4, RemovePlaceHolds
    <3> QED  BY <1>1, <2>2, <2>4, <3>1
  <2>5. CASE v \notin Within(root, h) /\ place.at = -1
    <3>1. root' = root
      BY <1>1, <2>5
    <3>2. Contents(root) \ {v} = Contents(root)
      BY <2>2, <2>5
    <3>3. Holding(d, lesserThan, root, Contents(root))
      BY <2>2, RootHolds
    <3> QED  BY <1>1, <3>1, <3>2, <3>3
  <2> QED  BY <2>3, <2>4, <2>5
<1> QED  BY <1>1, <1>3 DEF Becomes

LEMMA RemoveFromIndexHolds ==
  ASSUME IInv, NEW index \in 0 .. root.size - 1, RemoveFromIndex(index)
  PROVE  /\ \E x \in Contents(root) : /\ Rank(lesserThan, Contents(root), x) = index
                                      /\ Becomes(Contents(root) \ {x})
         /\ M' = M /\ lesserThan' = lesserThan
<1> DEFINE place == GetFromIndex(root, index)
<1>p. place = GetFromIndex(root, index)
  OBVIOUS
<1>1. root' = RemovePlace(place) /\ M' = M /\ lesserThan' = lesserThan
  BY DEF RemoveFromIndex
<1> HIDE DEF place
<1>2. PICK e, h : Rooted(e, h)
  BY RootedIs
<1>3. /\ e \in Nat /\ e >= 1 /\ Half(M, e)
      /\ Root(e, lesserThan, root, h) /\ Contents(root) = Within(root, h)
  BY <1>2 DEF Rooted
<1>4. root.size \in Nat
  BY <1>3, RootContents
<1>5. index \in Nat /\ index < root.size
  BY <1>4
<1>6. PICK x \in Within(root, h) : /\ Place(e, lesserThan, root, h, place, x)
                                   /\ Rank(lesserThan, Within(root, h), x) = index
  BY <1>3, <1>5, <1>p, GetFromIndexIs
<1>7. ASSUME NEW d, Half(M, d) PROVE Holding(d, lesserThan', root', Contents(root) \ {x})
  <2>1. d = e
    BY <1>3, <1>7 DEF Half
  <2>2. Place(d, lesserThan, root, h, place, x)
    BY <1>6, <2>1
  <2>3. Holding(d, lesserThan, RemovePlace(place), Within(root, h) \ {x})
    BY <1>7, <2>2, RemovePlaceHolds
  <2> QED  BY <1>1, <1>3, <2>3
<1>8. Becomes(Contents(root) \ {x})
  BY <1>7 DEF Becomes
<1>9. x \in Contents(root) /\ Rank(lesserThan, Contents(root), x) = index
  BY <1>3, <1>6
<1> QED  BY <1>1, <1>8, <1>9

LEMMA ClearHolds ==
  ASSUME Clear
  PROVE  Becomes({}) /\ M' = M /\ lesserThan' = lesserThan
<1>1. root' = EmptyNode /\ M' = M /\ lesserThan' = lesserThan
  BY DEF Clear
<1>2. ASSUME NEW d, Half(M, d) PROVE Holding(d, lesserThan', root', {})
  <2>1. d \in Nat /\ d >= 1
    BY <1>2 DEF Half
  <2> QED  BY <1>1, <2>1, EmptyHolds
<1> QED  BY <1>1, <1>2 DEF Becomes

LEMMA SetSortedFunctionHolds ==
  ASSUME IInv, NEW lt \in {"<", ">"}, SetSortedFunction(lt)
  PROVE  Becomes(Contents(root)) /\ M' = M /\ lesserThan' = lt
<1>1. root' = Rebuilt(lt, Elements(root)) /\ M' = M /\ lesserThan' = lt
  BY DEF SetSortedFunction
<1>2. PICK e, h : Rooted(e, h)
  BY RootedIs
<1>3. ASSUME NEW d, Half(M, d) PROVE Holding(d, lesserThan', root', Contents(root))
  <2>1. d = e
    BY <1>2, <1>3 DEF Rooted, Half
  <2>2. Root(d, lesserThan, root, h) /\ Contents(root) = Within(root, h)
    BY <1>2, <2>1 DEF Rooted
  <2>3. Holding(d, lt, Rebuilt(lt, Elements(root)), Within(root, h))
    BY <1>3, <2>2, RebuiltHolds
  <2> QED  BY <1>1, <2>2, <2>3
<1> QED  BY <1>1, <1>3 DEF Becomes

LEMMA InitHolds ==
  ASSUME Init
  PROVE  IInv /\ Contents(root) = {}
<1>1. M \in Orders /\ lesserThan = "<" /\ root = EmptyNode
  BY DEF Init
<1>2. PICK d : Half(M, d)
  BY <1>1, OrderHalf
<1>3. d \in Nat /\ d >= 1
  BY <1>2 DEF Half
<1>4. Holding(d, lesserThan, EmptyNode, {})
  BY <1>3, EmptyHolds
<1>5. PICK h \in Nat : Root(d, lesserThan, root, h) /\ Within(root, h) = {}
  BY <1>1, <1>4 DEF Holding
<1>6. Contents(root) = {}
  BY <1>3, <1>5, ContentsIs
<1> QED  BY <1>1, <1>2, <1>5, <1>6 DEF IInv

-----------------------------------------------------------------------------
(* The implementation of the list: each step of the tree is the step of    *)
(* the same name of the list, and preserves the invariant.                 *)

(* The number of elements of a set, as SortedList says it.                 *)
LEMMA ListCount ==
  ASSUME NEW S
  PROVE  List!Cardinality(S) = Cardinality(S)
BY Zenon DEF List!Cardinality, Cardinality

LEMMA InsertStep ==
  ASSUME IInv, NEW v \in Values, Insert(v)
  PROVE  IInv' /\ List!Insert(v)
<1>1. Becomes(Contents(root) \cup {v}) /\ M' = M /\ lesserThan' = lesserThan
  BY InsertHolds
<1>2. lesserThan' \in {"<", ">"}
  BY <1>1 DEF IInv
<1>3. IInv' /\ Contents(root') = Contents(root) \cup {v}
  BY <1>1, <1>2, NextHolds
<1> QED  BY <1>1, <1>3 DEF List!Insert

LEMMA RemoveValueStep ==
  ASSUME IInv, NEW v \in Values, RemoveValue(v)
  PROVE  IInv' /\ List!RemoveValue(v)
<1>1. Becomes(Contents(root) \ {v}) /\ M' = M /\ lesserThan' = lesserThan
  BY RemoveValueHolds
<1>2. lesserThan' \in {"<", ">"}
  BY <1>1 DEF IInv
<1>3. IInv' /\ Contents(root') = Contents(root) \ {v}
  BY <1>1, <1>2, NextHolds
<1> QED  BY <1>1, <1>3 DEF List!RemoveValue

LEMMA RemoveFromIndexStep ==
  ASSUME IInv, NEW index \in 0 .. root.size - 1, RemoveFromIndex(index)
  PROVE  /\ IInv' /\ List!RemoveFromIndex(index)
         /\ index \in 0 .. List!Cardinality(Contents(root)) - 1
<1>1. PICK x \in Contents(root) : /\ Rank(lesserThan, Contents(root), x) = index
                                  /\ Becomes(Contents(root) \ {x})
  BY RemoveFromIndexHolds
<1>2. M' = M /\ lesserThan' = lesserThan
  BY RemoveFromIndexHolds
<1>3. lesserThan' \in {"<", ">"}
  BY <1>2 DEF IInv
<1>4. IInv' /\ Contents(root') = Contents(root) \ {x}
  BY <1>1, <1>2, <1>3, NextHolds
<1>5. List!IndexIs(x, index)
  <2>1. {y \in Contents(root) : List!IsBefore(y, x)} = Lessers(lesserThan, Contents(root), x)
    BY DEF List!IsBefore, Lessers, Lesser
  <2>2. Cardinality(Lessers(lesserThan, Contents(root), x)) = index
    BY <1>1 DEF Rank
  <2>3. List!Cardinality({y \in Contents(root) : List!IsBefore(y, x)}) = index
    BY <2>1, <2>2, ListCount
  <2> QED  BY <2>3, Zenon DEF List!IndexIs
<1>6. PICK d, h : Rooted(d, h)
  BY RootedIs
<1>7. List!Cardinality(Contents(root)) = root.size
  BY <1>6, RootContents, ListCount DEF Rooted
<1> QED  BY <1>1, <1>2, <1>4, <1>5, <1>7 DEF List!RemoveFromIndex

LEMMA ClearStep ==
  ASSUME IInv, Clear
  PROVE  IInv' /\ List!Clear
<1>1. Becomes({}) /\ M' = M /\ lesserThan' = lesserThan
  BY ClearHolds
<1>2. lesserThan' \in {"<", ">"}
  BY <1>1 DEF IInv
<1>3. IInv' /\ Contents(root') = {}
  BY <1>1, <1>2, NextHolds
<1> QED  BY <1>1, <1>3 DEF List!Clear

LEMMA SetSortedFunctionStep ==
  ASSUME IInv, NEW lt \in {"<", ">"}, SetSortedFunction(lt)
  PROVE  IInv' /\ List!SetSortedFunction(lt)
<1>1. Becomes(Contents(root)) /\ M' = M /\ lesserThan' = lt
  BY SetSortedFunctionHolds
<1>2. IInv' /\ Contents(root') = Contents(root)
  BY <1>1, NextHolds
<1> QED  BY <1>1, <1>2 DEF List!SetSortedFunction

LEMMA NextStep ==
  ASSUME IInv, [Next]_vars
  PROVE  IInv' /\ [List!Next]_(List!vars)
<1>1. ASSUME NEW v \in Values, Insert(v) PROVE IInv' /\ List!Next
  BY <1>1, InsertStep DEF List!Next
<1>2. ASSUME NEW v \in Values, RemoveValue(v) PROVE IInv' /\ List!Next
  BY <1>2, RemoveValueStep DEF List!Next
<1>3. ASSUME NEW index \in 0 .. root.size - 1, RemoveFromIndex(index) PROVE IInv' /\ List!Next
  <2>1. /\ IInv' /\ List!RemoveFromIndex(index)
        /\ index \in 0 .. List!Cardinality(Contents(root)) - 1
    BY <1>3, RemoveFromIndexStep
  <2> QED  BY <2>1, Zenon DEF List!Next
<1>4. ASSUME Clear PROVE IInv' /\ List!Next
  BY <1>4, ClearStep DEF List!Next
<1>5. ASSUME NEW lt \in {"<", ">"}, SetSortedFunction(lt) PROVE IInv' /\ List!Next
  BY <1>5, SetSortedFunctionStep DEF List!Next
<1>6. ASSUME UNCHANGED vars PROVE IInv' /\ UNCHANGED List!vars
  <2>1. M' = M /\ lesserThan' = lesserThan /\ root' = root
    BY <1>6 DEF vars
  <2> QED  BY <2>1 DEF IInv, List!vars
<1> QED  BY <1>1, <1>2, <1>3, <1>4, <1>5, <1>6 DEF Next

(* The root is a well formed tree after every sequence of operations.      *)
THEOREM Invariance == Spec => []IInv
<1>1. Init => IInv
  BY InitHolds
<1>2. IInv /\ [Next]_vars => IInv'
  BY NextStep
<1> QED  BY <1>1, <1>2, PTL DEF Spec

(***************************************************************************)
(* Whatever the order, the values and the operations, the array is the     *)
(* ordered list without duplicates of its class comment: it holds the      *)
(* values inserted and not removed since, and the element removed at an    *)
(* index is the one with as many elements before it.                       *)
(***************************************************************************)
THEOREM ImplementsSortedList == Spec => ImplementsList
<1>1. Init => List!Init
  BY InitHolds DEF List!Init, Init
<1>2. IInv /\ [Next]_vars => [List!Next]_(List!vars)
  BY NextStep
<1> QED  BY <1>1, <1>2, Invariance, PTL DEF Spec, ImplementsList, List!Spec

(***************************************************************************)
(* The root is always a B-tree of the order M: balanced, in order, with no *)
(* node too large or, but for the root, less than half full.               *)
(***************************************************************************)
THEOREM TypeCorrect == Spec => []TypeOK
<1>1. ASSUME IInv PROVE TypeOK
  <2>1. PICK d, h : Rooted(d, h)
    BY <1>1, RootedIs
  <2>2. Half(M, d) /\ d \in Nat /\ d >= 1 /\ Root(d, lesserThan, root, h)
    BY <2>1 DEF Rooted
  <2>3. h \in Nat /\ root.size \in Nat /\ h <= root.size
    BY <2>2, RootHeight
  <2>4. IsBTree(M, lesserThan, root, h)
    BY <2>2, TreeIsBTree
  <2>5. h \in 0 .. root.size
    BY <2>3
  <2> QED  BY <1>1, <2>4, <2>5 DEF TypeOK, IInv
<1> QED  BY <1>1, Invariance, PTL

(***************************************************************************)
(* The size every node stores, updated by differences when children are    *)
(* split, exchanged and merged, is the number of values below it.          *)
(***************************************************************************)
THEOREM SizesExact == Spec => []StoredSizesExact
<1>1. ASSUME IInv PROVE StoredSizesExact
  <2>1. PICK d, h : Rooted(d, h)
    BY <1>1, RootedIs
  <2>2. d \in Nat /\ d >= 1 /\ Root(d, lesserThan, root, h)
    BY <2>1 DEF Rooted
  <2>3. \A k \in 0 .. root.size : \A x \in Level(root, k) : x.size = Cardinality(Contents(x))
    BY <2>2, TreeSizes
  <2> QED  BY <2>3 DEF StoredSizesExact
<1> QED  BY <1>1, Invariance, PTL

(***************************************************************************)
(* An element is read at the index that counts the elements before it, and *)
(* an absent value has no index and the nearest index of the class.        *)
(***************************************************************************)
THEOREM IndexesRight == Spec => []IndexesAgree
<1>1. ASSUME IInv PROVE IndexesAgree
  <2>1. PICK d, h : Rooted(d, h)
    BY <1>1, RootedIs
  <2>2. /\ d \in Nat /\ d >= 1 /\ Root(d, lesserThan, root, h)
        /\ Contents(root) = Within(root, h)
    BY <2>1 DEF Rooted
  <2> DEFINE before(v) == Cardinality({x \in Contents(root) : Lesser(lesserThan, x, v)})
  <2>3. ASSUME NEW v PROVE before(v) = Rank(lesserThan, Within(root, h), v)
    BY <2>2 DEF Rank, Lessers
  <2>4. ASSUME NEW x \in Contents(root) PROVE before(x) < root.size /\ Get(root, before(x)) = x
    <3> DEFINE j == before(x)
    <3>1. j = Rank(lesserThan, Within(root, h), x) /\ x \in Within(root, h)
      BY <2>2, <2>3
    <3> HIDE DEF j
    <3>2. j < root.size /\ Get(root, j) = x
      BY <2>2, <3>1, GetIs
    <3> QED  BY <3>2 DEF j
  <2>5. ASSUME NEW v \in Values \ Contents(root)
        PROVE  /\ IndexOf(lesserThan, root, v) = -1
               /\ IndexOfNearest(lesserThan, root, v) = IF before(v) = 0 THEN 0 ELSE before(v) - 1
    <3> DEFINE j == before(v)
    <3>1. j = Rank(lesserThan, Within(root, h), v) /\ v \in Values /\ v \notin Within(root, h)
      BY <2>2, <2>3
    <3> HIDE DEF j
    <3>2. /\ IndexOf(lesserThan, root, v) = -1
          /\ IndexOfNearest(lesserThan, root, v) = IF j = 0 THEN 0 ELSE j - 1
      BY <2>2, <3>1, AbsentIndex
    <3> QED  BY <3>2 DEF j
  <2> QED  BY <2>4, <2>5 DEF IndexesAgree
<1> QED  BY <1>1, Invariance, PTL
=============================================================================
