------------------------- MODULE DownloadQueueProofs -------------------------
(***************************************************************************)
(* Proofs about DownloadQueue for every set of downloads and every         *)
(* sequence of insertions, moves, removals and scans.                      *)
(*                                                                         *)
(* The loops that move and remove downloads are functions of the turn; a   *)
(* fact that holds after every turn is proved from the first turn at       *)
(* which it would not (LeastNumber).                                       *)
(***************************************************************************)
EXTENDS DownloadQueue, FiniteSetTheorems, SequenceTheorems,
        WellFoundedInduction, TLAPS

-----------------------------------------------------------------------------
(* Lists.                                                                  *)

NoRepeat(list) == \A i, j \in DOMAIN list : list[i] = list[j] => i = j

(***************************************************************************)
(* A set of natural numbers that has elements has a least one.             *)
(***************************************************************************)
LEMMA LeastNumber ==
  ASSUME NEW Q \in SUBSET Nat, Q # {}
  PROVE  \E n \in Q : \A k \in Q : n <= k
<1> DEFINE R == {p \in Nat \X Nat : p[1] < p[2]}
<1>1. IsWellFoundedOn(R, Nat)
  BY NatLessThanWellFounded, Zenon DEF OpToRel
<1>2. \A x, y \in Nat : x < y => <<x, y>> \in R
  OBVIOUS
<1> HIDE DEF R
<1>3. PICK n \in Q : \A k \in Q : ~ (<<k, n>> \in R)
  BY <1>1, WFMin, Zenon
<1>4. ASSUME NEW k \in Q PROVE n <= k
  <2>1. n \in Nat /\ k \in Nat /\ ~ (k < n)
    BY <1>2, <1>3
  <2> QED  BY <2>1
<1> QED  BY <1>4

\* The least and the greatest element of a set.
LEMMA LeastIs ==
  ASSUME NEW S \in SUBSET Nat, NEW x \in S, \A y \in S : x <= y
  PROVE  Min(S) = x
<1>1. ASSUME NEW z \in S, \A y \in S : z <= y PROVE z = x
  <2>1. z <= x /\ x <= z /\ x \in Nat /\ z \in Nat
    BY <1>1
  <2> QED  BY <2>1
<1> DEFINE z == CHOOSE e \in S : \A y \in S : e <= y
<1>2. z \in S /\ \A y \in S : z <= y
  BY Zenon
<1>3. Min(S) = z
  BY DEF Min
<1> HIDE DEF z
<1> QED  BY <1>1, <1>2, <1>3

LEMMA GreatestIs ==
  ASSUME NEW S \in SUBSET Nat, NEW x \in S, \A y \in S : x >= y
  PROVE  Max(S) = x
<1>1. ASSUME NEW z \in S, \A y \in S : z >= y PROVE z = x
  <2>1. z >= x /\ x >= z /\ x \in Nat /\ z \in Nat
    BY <1>1
  <2> QED  BY <2>1
<1> DEFINE z == CHOOSE e \in S : \A y \in S : e >= y
<1>2. z \in S /\ \A y \in S : z >= y
  BY Zenon
<1>3. Max(S) = z
  BY DEF Max
<1> HIDE DEF z
<1> QED  BY <1>1, <1>2, <1>3

(***************************************************************************)
(* Concatenations and parts of lists, element by element.                  *)
(***************************************************************************)
LEMMA CatFacts ==
  ASSUME NEW S, NEW s \in Seq(S), NEW t \in Seq(S)
  PROVE  /\ Len(s) \in Nat /\ Len(t) \in Nat
         /\ s \o t \in Seq(S) /\ Len(s \o t) = Len(s) + Len(t)
         /\ \A i \in 1 .. Len(s) + Len(t) :
              (s \o t)[i] = IF i <= Len(s) THEN s[i] ELSE t[i - Len(s)]
BY LenProperties, ConcatProperties

LEMMA CutFacts ==
  ASSUME NEW S, NEW s \in Seq(S),
         NEW m \in 1 .. Len(s) + 1, NEW n \in m - 1 .. Len(s)
  PROVE  /\ SubSeq(s, m, n) \in Seq(S) /\ Len(SubSeq(s, m, n)) = (n - m) + 1
         /\ \A i \in 1 .. (n - m) + 1 : SubSeq(s, m, n)[i] = s[(m + i) - 1]
<1>1. /\ Len(s) \in Nat /\ \A i \in 1 .. Len(s) : s[i] \in S
  BY LenProperties
<1>2. m \in Int /\ n \in Int /\ (m <= n \/ (n - m) + 1 = 0)
  BY <1>1
<1>3. \A i \in m .. n : i \in 1 .. Len(s)
  BY <1>1
<1>4. \A i \in m .. n : s[i] \in S
  BY <1>1, <1>3, Zenon
<1>5. /\ SubSeq(s, m, n) \in Seq(S)
      /\ Len(SubSeq(s, m, n)) = IF m <= n THEN n - m + 1 ELSE 0
      /\ \A i \in 1 .. n - m + 1 : SubSeq(s, m, n)[i] = s[m + i - 1]
  BY <1>2, <1>4, SubSeqProperties
<1> QED  BY <1>2, <1>5

LEMMA OneFacts ==
  ASSUME NEW S, NEW d \in S
  PROVE  <<d>> \in Seq(S) /\ Len(<<d>>) = 1 /\ <<d>>[1] = d
OBVIOUS

(***************************************************************************)
(* Insertion in a list and removal from it, element by element.            *)
(***************************************************************************)
IsInserted(S, q, n, d, r) ==
  /\ r \in Seq(S) /\ Len(r) = Len(q) + 1
  /\ \A i \in 1 .. Len(q) + 1 :
       r[i] = IF i < n THEN q[i] ELSE IF i = n THEN d ELSE q[i - 1]

IsRemoved(S, q, n, r) ==
  /\ r \in Seq(S) /\ Len(r) = Len(q) - 1
  /\ \A i \in 1 .. Len(q) - 1 : r[i] = IF i < n THEN q[i] ELSE q[i + 1]

LEMMA InsertFacts ==
  ASSUME NEW S, NEW q \in Seq(S), NEW n \in 1 .. Len(q) + 1, NEW d \in S
  PROVE  IsInserted(S, q, n, d, InsertAt(q, n, d))
<1> DEFINE a == SubSeq(q, 1, n - 1)
           b == SubSeq(q, n, Len(q))
           one == <<d>>
           c == a \o one
           r == c \o b
<1>0. Len(q) \in Nat /\ n \in Nat /\ 1 <= n /\ n <= Len(q) + 1
  BY LenProperties
<1>1. a \in Seq(S) /\ Len(a) = n - 1 /\ \A i \in 1 .. n - 1 : a[i] = q[i]
  BY <1>0, CutFacts
<1>2. b \in Seq(S) /\ Len(b) = Len(q) - n + 1 /\ \A i \in 1 .. Len(q) - n + 1 : b[i] = q[(n + i) - 1]
  BY <1>0, CutFacts
<1>3. InsertAt(q, n, d) = r
  BY DEF InsertAt
<1>4. one \in Seq(S) /\ Len(one) = 1 /\ one[1] = d
  BY OneFacts
<1> HIDE DEF a, b, one
<1>5. /\ c \in Seq(S) /\ Len(c) = Len(a) + Len(one)
      /\ \A i \in 1 .. Len(a) + Len(one) :
           c[i] = IF i <= Len(a) THEN a[i] ELSE one[i - Len(a)]
  BY <1>1, <1>4, CatFacts
<1> HIDE DEF c
<1>c. c \in Seq(S) /\ b \in Seq(S)
  BY <1>2, <1>5
<1>6. /\ r \in Seq(S) /\ Len(r) = Len(c) + Len(b)
      /\ \A i \in 1 .. Len(c) + Len(b) :
           r[i] = IF i <= Len(c) THEN c[i] ELSE b[i - Len(c)]
  BY <1>c, CatFacts, Zenon
<1> HIDE DEF r
<1>7. \A i \in 1 .. n : c[i] = IF i < n THEN q[i] ELSE d
  BY <1>0, <1>1, <1>4, <1>5
<1>8. \A i \in 1 .. Len(q) + 1 :
        r[i] = IF i < n THEN q[i] ELSE IF i = n THEN d ELSE q[i - 1]
  <2> SUFFICES ASSUME NEW i \in 1 .. Len(q) + 1
               PROVE r[i] = IF i < n THEN q[i] ELSE IF i = n THEN d ELSE q[i - 1]
    OBVIOUS
  <2>1. Len(c) = n /\ Len(b) = Len(q) - n + 1
    BY <1>0, <1>1, <1>2, <1>4, <1>5
  <2>2. r[i] = IF i <= n THEN c[i] ELSE b[i - n]
    BY <2>1, <1>0, <1>6
  <2>3. CASE i <= n
    BY <2>2, <2>3, <1>0, <1>7
  <2>4. CASE i > n
    <3>1. i - n \in 1 .. Len(q) - n + 1 /\ (n + (i - n)) - 1 = i - 1
      BY <2>4, <1>0
    <3>2. b[i - n] = q[i - 1]
      BY <3>1, <1>2
    <3> QED  BY <3>2, <2>2, <2>4, <1>0
  <2> QED  BY <2>3, <2>4, <1>0
<1>9. r \in Seq(S) /\ Len(r) = Len(q) + 1
  BY <1>0, <1>1, <1>2, <1>4, <1>5, <1>6
<1> QED  BY <1>3, <1>8, <1>9 DEF IsInserted

LEMMA RemoveFacts ==
  ASSUME NEW S, NEW q \in Seq(S), NEW n \in 1 .. Len(q)
  PROVE  IsRemoved(S, q, n, RemoveAt(q, n))
<1> DEFINE a == SubSeq(q, 1, n - 1)
           b == SubSeq(q, n + 1, Len(q))
           r == a \o b
<1>0. Len(q) \in Nat /\ n \in Nat /\ 1 <= n /\ n <= Len(q)
  BY LenProperties
<1>1. a \in Seq(S) /\ Len(a) = n - 1 /\ \A i \in 1 .. n - 1 : a[i] = q[i]
  BY <1>0, CutFacts
<1>2. b \in Seq(S) /\ Len(b) = Len(q) - n /\ \A i \in 1 .. Len(q) - n : b[i] = q[n + i]
  BY <1>0, CutFacts
<1>3. RemoveAt(q, n) = r
  BY DEF RemoveAt
<1> HIDE DEF a, b
<1>4. /\ r \in Seq(S) /\ Len(r) = Len(a) + Len(b)
      /\ \A i \in 1 .. Len(a) + Len(b) :
           r[i] = IF i <= Len(a) THEN a[i] ELSE b[i - Len(a)]
  BY <1>1, <1>2, CatFacts
<1> HIDE DEF r
<1>5. r \in Seq(S) /\ Len(r) = Len(q) - 1
  BY <1>0, <1>1, <1>2, <1>4
<1>6. ASSUME NEW i \in 1 .. Len(q) - 1
      PROVE r[i] = IF i < n THEN q[i] ELSE q[i + 1]
  <2>1. r[i] = IF i < n THEN a[i] ELSE b[i - (n - 1)]
    <3>1. i \in 1 .. Len(a) + Len(b) /\ Len(a) = n - 1 /\ (i < n <=> i <= Len(a))
      BY <1>0, <1>1, <1>2
    <3>2. r[i] = IF i <= Len(a) THEN a[i] ELSE b[i - Len(a)]
      BY <3>1, <1>4
    <3> QED  BY <3>1, <3>2
  <2>2. CASE i < n
    BY <2>1, <2>2, <1>0, <1>1
  <2>3. CASE i >= n
    <3>1. i - (n - 1) \in 1 .. Len(q) - n /\ n + (i - (n - 1)) = i + 1
      BY <2>3, <1>0
    <3>2. b[i - (n - 1)] = q[i + 1]
      BY <3>1, <1>2
    <3> QED  BY <3>2, <2>1, <2>3, <1>0
  <2> QED  BY <2>2, <2>3, <1>0
<1> QED  BY <1>3, <1>5, <1>6 DEF IsRemoved

(***************************************************************************)
(* A download that moves towards the head goes from the index from to the  *)
(* index to + 1; one that moves towards the end goes from the index        *)
(* from + 1 to the index to.  The downloads in between shift by one.       *)
(***************************************************************************)
IsForward(S, q, to, from, r) ==
  /\ r \in Seq(S) /\ Len(r) = Len(q)
  /\ \A i \in 1 .. Len(q) :
       r[i] = IF i <= to THEN q[i] ELSE IF i = to + 1 THEN q[from]
              ELSE IF i <= from THEN q[i - 1] ELSE q[i]

IsBackward(S, q, to, from, r) ==
  /\ r \in Seq(S) /\ Len(r) = Len(q)
  /\ \A i \in 1 .. Len(q) :
       r[i] = IF i <= from THEN q[i] ELSE IF i < to THEN q[i + 1]
              ELSE IF i = to THEN q[from + 1] ELSE q[i]

LEMMA ForwardFacts ==
  ASSUME NEW S, NEW q \in Seq(S), NEW to \in Nat, NEW from \in to + 1 .. Len(q)
  PROVE  IsForward(S, q, to, from, RemoveAt(InsertAt(q, to + 1, q[from]), from + 1))
<1> DEFINE d == q[from]
           p == InsertAt(q, to + 1, d)
           r == RemoveAt(p, from + 1)
<1>1. Len(q) \in Nat /\ from \in Nat /\ to < from /\ from <= Len(q)
  BY LenProperties
<1>2. d \in S /\ to + 1 \in 1 .. Len(q) + 1
  BY <1>1, LenProperties
<1>3. IsInserted(S, q, to + 1, d, p)
  BY <1>2, InsertFacts, Zenon
<1> HIDE DEF p
<1>4. p \in Seq(S) /\ from + 1 \in 1 .. Len(p)
  BY <1>1, <1>3 DEF IsInserted
<1>5. IsRemoved(S, p, from + 1, r)
  BY <1>4, RemoveFacts, Zenon
<1> HIDE DEF r
<1>6. IsForward(S, q, to, from, r)
  BY <1>1, <1>3, <1>5 DEF IsInserted, IsRemoved, IsForward
<1> QED  BY <1>6 DEF p, r

LEMMA BackwardFacts ==
  ASSUME NEW S, NEW q \in Seq(S), NEW to \in 1 .. Len(q), NEW from \in 0 .. to - 1
  PROVE  IsBackward(S, q, to, from, RemoveAt(InsertAt(q, to + 1, q[from + 1]), from + 1))
<1> DEFINE d == q[from + 1]
           p == InsertAt(q, to + 1, d)
           r == RemoveAt(p, from + 1)
<1>1. Len(q) \in Nat /\ from \in Nat /\ to \in Nat /\ from < to /\ to <= Len(q)
  BY LenProperties
<1>2. d \in S /\ to + 1 \in 1 .. Len(q) + 1
  BY <1>1, LenProperties
<1>3. IsInserted(S, q, to + 1, d, p)
  BY <1>2, InsertFacts, Zenon
<1> HIDE DEF p
<1>4. p \in Seq(S) /\ from + 1 \in 1 .. Len(p)
  BY <1>1, <1>3 DEF IsInserted
<1>5. IsRemoved(S, p, from + 1, r)
  BY <1>4, RemoveFacts, Zenon
<1> HIDE DEF r
<1>6. IsBackward(S, q, to, from, r)
  BY <1>1, <1>3, <1>5 DEF IsInserted, IsRemoved, IsBackward
<1> QED  BY <1>6 DEF p, r

\* The same downloads, each as often, perhaps in another order.
SameDownloads(r, q) ==
  /\ r \in Seq(Downloads) /\ Len(r) = Len(q) /\ ToSet(r) = ToSet(q)
  /\ NoRepeat(q) => NoRepeat(r)

(***************************************************************************)
(* A move changes the order only: each index of the new list comes from an *)
(* index of the old one, and no two from the same.                         *)
(***************************************************************************)
LEMMA ReorderedIsSame ==
  ASSUME NEW q \in Seq(Downloads), NEW r \in Seq(Downloads), Len(r) = Len(q),
         NEW f \in [1 .. Len(q) -> 1 .. Len(q)],
         NEW g \in [1 .. Len(q) -> 1 .. Len(q)],
         \A i \in 1 .. Len(q) : r[i] = q[f[i]] /\ g[f[i]] = i /\ f[g[i]] = i
  PROVE  SameDownloads(r, q)
<1>1. DOMAIN q = 1 .. Len(q) /\ DOMAIN r = 1 .. Len(q)
  BY LenProperties
<1>2. \A x \in ToSet(r) : x \in ToSet(q)
  BY <1>1 DEF ToSet
<1>3. ASSUME NEW x \in ToSet(q) PROVE x \in ToSet(r)
  <2>1. PICK i \in 1 .. Len(q) : x = q[i]
    BY <1>1 DEF ToSet
  <2>2. g[i] \in 1 .. Len(q) /\ r[g[i]] = x
    BY <2>1
  <2> QED  BY <1>1, <2>2 DEF ToSet
<1>4. ASSUME NoRepeat(q), NEW i \in 1 .. Len(q), NEW j \in 1 .. Len(q), r[i] = r[j]
      PROVE  i = j
  <2>1. f[i] \in 1 .. Len(q) /\ f[j] \in 1 .. Len(q) /\ q[f[i]] = q[f[j]]
    BY <1>4
  <2>2. f[i] = f[j]
    BY <1>1, <1>4, <2>1 DEF NoRepeat
  <2> QED  BY <2>2
<1>5. NoRepeat(q) => NoRepeat(r)
  BY <1>1, <1>4 DEF NoRepeat
<1> QED  BY <1>2, <1>3, <1>5 DEF SameDownloads

LEMMA ForwardIsSame ==
  ASSUME NEW q \in Seq(Downloads), NEW to \in Nat, NEW from \in to + 1 .. Len(q),
         NEW r, IsForward(Downloads, q, to, from, r)
  PROVE  SameDownloads(r, q)
<1>1. Len(q) \in Nat /\ from \in Nat /\ to < from /\ from <= Len(q)
  BY LenProperties
<1> DEFINE f == [i \in 1 .. Len(q) |->
                   IF i <= to THEN i ELSE IF i = to + 1 THEN from
                   ELSE IF i <= from THEN i - 1 ELSE i]
           g == [i \in 1 .. Len(q) |->
                   IF i <= to THEN i ELSE IF i < from THEN i + 1
                   ELSE IF i = from THEN to + 1 ELSE i]
<1>2. f \in [1 .. Len(q) -> 1 .. Len(q)] /\ g \in [1 .. Len(q) -> 1 .. Len(q)]
  BY <1>1
<1>3. ASSUME NEW i \in 1 .. Len(q)
      PROVE  r[i] = q[f[i]] /\ g[f[i]] = i /\ f[g[i]] = i
  <2>1. f[i] \in 1 .. Len(q) /\ g[i] \in 1 .. Len(q)
    BY <1>2
  <2>2. r[i] = q[f[i]]
    BY <1>1 DEF IsForward
  <2>3. g[f[i]] = i
    BY <1>1, <2>1
  <2>4. f[g[i]] = i
    BY <1>1, <2>1
  <2> QED  BY <2>2, <2>3, <2>4
<1>4. r \in Seq(Downloads) /\ Len(r) = Len(q)
  BY DEF IsForward
<1> HIDE DEF f, g
<1> QED  BY <1>2, <1>3, <1>4, ReorderedIsSame

LEMMA BackwardIsSame ==
  ASSUME NEW q \in Seq(Downloads), NEW to \in 1 .. Len(q), NEW from \in 0 .. to - 1,
         NEW r, IsBackward(Downloads, q, to, from, r)
  PROVE  SameDownloads(r, q)
<1>1. Len(q) \in Nat /\ from \in Nat /\ to \in Nat /\ from < to /\ to <= Len(q)
  BY LenProperties
<1> DEFINE f == [i \in 1 .. Len(q) |->
                   IF i <= from THEN i ELSE IF i < to THEN i + 1
                   ELSE IF i = to THEN from + 1 ELSE i]
           g == [i \in 1 .. Len(q) |->
                   IF i <= from THEN i ELSE IF i = from + 1 THEN to
                   ELSE IF i <= to THEN i - 1 ELSE i]
<1>2. f \in [1 .. Len(q) -> 1 .. Len(q)] /\ g \in [1 .. Len(q) -> 1 .. Len(q)]
  BY <1>1
<1>3. ASSUME NEW i \in 1 .. Len(q)
      PROVE  r[i] = q[f[i]] /\ g[f[i]] = i /\ f[g[i]] = i
  <2>1. f[i] \in 1 .. Len(q) /\ g[i] \in 1 .. Len(q)
    BY <1>2
  <2>2. r[i] = q[f[i]]
    BY <1>1 DEF IsBackward
  <2>3. g[f[i]] = i
    BY <1>1, <2>1
  <2>4. f[g[i]] = i
    BY <1>1, <2>1
  <2> QED  BY <2>2, <2>3, <2>4
<1>4. r \in Seq(Downloads) /\ Len(r) = Len(q)
  BY DEF IsBackward
<1> HIDE DEF f, g
<1> QED  BY <1>2, <1>3, <1>4, ReorderedIsSame

-----------------------------------------------------------------------------
(* The markers.                                                            *)

\* Nothing before the position p of the list is in S.
FineAt(q, p, S) ==
  /\ p \in Nat \cup {NoMarker} /\ p <= Len(q)
  /\ \A i \in 1 .. Len(q) : i <= p => q[i] \notin S

Fine(q, m, match) ==
  /\ m \in [Predicates -> Nat \cup {NoMarker}]
  /\ \A P \in Predicates : FineAt(q, m[P], match[P])

(***************************************************************************)
(* The markers stay fine when a download moves, whether it matches or not. *)
(***************************************************************************)
LEMMA ForwardShifts ==
  ASSUME NEW q \in Seq(Downloads), NEW to \in Nat, NEW from \in to + 1 .. Len(q),
         NEW r, IsForward(Downloads, q, to, from, r),
         NEW p, NEW S, FineAt(q, p, S)
  PROVE  FineAt(r, IF q[from] \notin S THEN ShiftedByMove(p, to, from)
                                       ELSE PulledByMove(p, to, from), S)
<1>1. /\ Len(q) \in Nat /\ from \in Nat /\ to < from /\ from <= Len(q)
      /\ Len(r) = Len(q) /\ p \in Int /\ p <= Len(q) /\ -1 <= p
  BY LenProperties DEF FineAt, NoMarker, IsForward
<1>2. CASE q[from] \notin S
  <2> DEFINE n == IF to <= p /\ p < from THEN p + 1 ELSE p
  <2>1. ShiftedByMove(p, to, from) = n
    BY <1>1 DEF ShiftedByMove
  <2>2. n \in Nat \cup {NoMarker} /\ n <= Len(r)
    BY <1>1 DEF FineAt, NoMarker
  <2>3. ASSUME NEW i \in 1 .. Len(q), i <= n PROVE r[i] \notin S
    <3>1. CASE i <= to
      BY <1>1, <2>3, <3>1 DEF IsForward, FineAt
    <3>2. CASE i = to + 1
      BY <1>1, <1>2, <3>2 DEF IsForward
    <3>3. CASE i > to + 1 /\ i <= from
      <4>1. i - 1 \in 1 .. Len(q) /\ i - 1 <= p /\ r[i] = q[i - 1]
        BY <1>1, <2>3, <3>3 DEF IsForward
      <4> QED  BY <4>1 DEF FineAt
    <3>4. CASE i > from
      <4>1. i <= p /\ r[i] = q[i]
        BY <1>1, <2>3, <3>4 DEF IsForward
      <4> QED  BY <4>1 DEF FineAt
    <3> QED  BY <1>1, <3>1, <3>2, <3>3, <3>4
  <2> HIDE DEF n
  <2> QED  BY <1>1, <1>2, <2>1, <2>2, <2>3 DEF FineAt
<1>3. CASE q[from] \in S
  <2> DEFINE n == IF to < p THEN to ELSE p
  <2>1. p < from
    BY <1>1, <1>3 DEF FineAt
  <2>2. PulledByMove(p, to, from) = n
    BY <1>1, <2>1 DEF PulledByMove
  <2>3. n \in Nat \cup {NoMarker} /\ n <= Len(r)
    BY <1>1 DEF FineAt, NoMarker
  <2>4. ASSUME NEW i \in 1 .. Len(q), i <= n PROVE r[i] \notin S
    <3>1. i <= to /\ i <= p
      BY <1>1, <2>4
    <3> QED  BY <3>1 DEF IsForward, FineAt
  <2> HIDE DEF n
  <2> QED  BY <1>1, <1>3, <2>2, <2>3, <2>4 DEF FineAt
<1> QED  BY <1>2, <1>3

LEMMA BackwardShifts ==
  ASSUME NEW q \in Seq(Downloads), NEW to \in 1 .. Len(q), NEW from \in 0 .. to - 1,
         NEW r, IsBackward(Downloads, q, to, from, r),
         NEW p, NEW S, FineAt(q, p, S)
  PROVE  FineAt(r, IF q[from + 1] \notin S THEN ShiftedByMove(p, to, from)
                                           ELSE PulledByMove(p, to, from), S)
<1>1. /\ Len(q) \in Nat /\ from \in Nat /\ to \in Nat /\ from < to /\ to <= Len(q)
      /\ Len(r) = Len(q) /\ p \in Int /\ p <= Len(q) /\ -1 <= p
  BY LenProperties DEF FineAt, NoMarker, IsBackward
<1>2. CASE q[from + 1] \notin S
  <2> DEFINE n == IF from < p /\ p < to THEN p - 1 ELSE p
  <2>1. ShiftedByMove(p, to, from) = n
    BY <1>1 DEF ShiftedByMove
  <2>2. n \in Nat \cup {NoMarker} /\ n <= Len(r)
    BY <1>1 DEF FineAt, NoMarker
  <2>3. ASSUME NEW i \in 1 .. Len(q), i <= n PROVE r[i] \notin S
    <3>1. CASE i <= from
      BY <1>1, <2>3, <3>1 DEF IsBackward, FineAt
    <3>2. CASE i > from /\ i < to
      <4>1. i + 1 \in 1 .. Len(q) /\ i + 1 <= p /\ r[i] = q[i + 1]
        BY <1>1, <2>3, <3>2 DEF IsBackward
      <4> QED  BY <4>1 DEF FineAt
    <3>3. CASE i = to
      BY <1>1, <1>2, <3>3 DEF IsBackward
    <3>4. CASE i > to
      <4>1. i <= p /\ r[i] = q[i]
        BY <1>1, <2>3, <3>4 DEF IsBackward
      <4> QED  BY <4>1 DEF FineAt
    <3> QED  BY <1>1, <3>1, <3>2, <3>3, <3>4
  <2> HIDE DEF n
  <2> QED  BY <1>1, <1>2, <2>1, <2>2, <2>3 DEF FineAt
<1>3. CASE q[from + 1] \in S
  <2>1. p <= from
    BY <1>1, <1>3 DEF FineAt
  <2>2. PulledByMove(p, to, from) = p
    BY <1>1, <2>1 DEF PulledByMove
  <2>3. ASSUME NEW i \in 1 .. Len(q), i <= p PROVE r[i] \notin S
    BY <1>1, <2>1, <2>3 DEF IsBackward, FineAt
  <2> QED  BY <1>1, <1>3, <2>2, <2>3 DEF FineAt
<1> QED  BY <1>2, <1>3

-----------------------------------------------------------------------------
(* One download moves, with the markers.                                   *)

\* The variables of the loop of moveDownloads.
MoveState ==
  [q : Seq(Downloads), m : [Predicates -> Nat \cup {NoMarker}],
   ids : SUBSET Downloads, refs : SUBSET Downloads, ref : Downloads \cup {NoDir},
   at : Int, waiting : Seq(Nat), shift : Int]

\* What a move of one download leaves as it is.
SameLoop(r, s) ==
  /\ r.ids = s.ids /\ r.refs = s.refs /\ r.ref = s.ref
  /\ r.at = s.at /\ r.waiting = s.waiting /\ r.shift = s.shift

\* The loop has neither lost nor doubled a download of q, and the markers follow.
Sound(s, q, match) ==
  s \in MoveState /\ SameDownloads(s.q, q) /\ Fine(s.q, s.m, match)

LEMMA MoveOneFields ==
  ASSUME NEW s \in MoveState, NEW match, NEW d, NEW to, NEW from
  PROVE  LET r == MoveOne(s, match, d, to, from)
         IN /\ r.q = RemoveAt(InsertAt(s.q, to + 1, d), from + 1)
            /\ r.m = MarkersMove(s.m, match, to, from, d)
            /\ SameLoop(r, s)
            /\ r.q \in Seq(Downloads) /\ r.m \in [Predicates -> Nat \cup {NoMarker}]
               => r \in MoveState
BY DEF MoveState, MoveOne, SameLoop

LEMMA MarkersMoved ==
  ASSUME NEW q, NEW r, NEW m, NEW match, NEW to, NEW from, NEW d,
         \A P \in Predicates :
           FineAt(r, IF d \notin match[P] THEN ShiftedByMove(m[P], to, from)
                                          ELSE PulledByMove(m[P], to, from), match[P])
  PROVE  Fine(r, MarkersMove(m, match, to, from, d), match)
<1> DEFINE new == MarkersMove(m, match, to, from, d)
<1>1. /\ new = [P \in Predicates |-> new[P]]
      /\ \A P \in Predicates :
           new[P] = IF d \notin match[P] THEN ShiftedByMove(m[P], to, from)
                                         ELSE PulledByMove(m[P], to, from)
  BY DEF MarkersMove
<1> HIDE DEF new
<1>2. \A P \in Predicates : FineAt(r, new[P], match[P])
  BY <1>1
<1>3. \A P \in Predicates : new[P] \in Nat \cup {NoMarker}
  BY <1>2 DEF FineAt
<1>4. new \in [Predicates -> Nat \cup {NoMarker}]
  BY <1>1, <1>3
<1>5. Fine(r, new, match)
  BY <1>2, <1>4 DEF Fine
<1> QED  BY <1>5 DEF new

(***************************************************************************)
(* A move towards the head, and a move towards the end, inside the loop.   *)
(***************************************************************************)
LEMMA MoveForward ==
  ASSUME NEW q0, NEW match, NEW s, Sound(s, q0, match),
         NEW to \in Nat, NEW from \in to + 1 .. Len(s.q)
  PROVE  LET r == MoveOne(s, match, s.q[from], to, from)
         IN Sound(r, q0, match) /\ SameLoop(r, s) /\ IsForward(Downloads, s.q, to, from, r.q)
<1> DEFINE d == s.q[from]
           r == MoveOne(s, match, d, to, from)
<1>1. /\ s \in MoveState /\ s.q \in Seq(Downloads)
      /\ SameDownloads(s.q, q0) /\ Fine(s.q, s.m, match)
  BY DEF Sound, MoveState
<1>2. /\ r.q = RemoveAt(InsertAt(s.q, to + 1, d), from + 1)
      /\ r.m = MarkersMove(s.m, match, to, from, d)
      /\ SameLoop(r, s)
      /\ r.q \in Seq(Downloads) /\ r.m \in [Predicates -> Nat \cup {NoMarker}]
         => r \in MoveState
  BY <1>1, MoveOneFields
<1> HIDE DEF r
<1>3. IsForward(Downloads, s.q, to, from, r.q)
  BY <1>1, <1>2, ForwardFacts
<1>4. SameDownloads(r.q, s.q)
  BY <1>1, <1>3, ForwardIsSame
<1>5. \A P \in Predicates :
        FineAt(r.q, IF d \notin match[P] THEN ShiftedByMove(s.m[P], to, from)
                                         ELSE PulledByMove(s.m[P], to, from), match[P])
  <2> SUFFICES ASSUME NEW P \in Predicates
               PROVE FineAt(r.q, IF d \notin match[P] THEN ShiftedByMove(s.m[P], to, from)
                                 ELSE PulledByMove(s.m[P], to, from), match[P])
    OBVIOUS
  <2>1. FineAt(s.q, s.m[P], match[P])
    BY <1>1 DEF Fine
  <2> QED  BY <1>1, <1>3, <2>1, ForwardShifts
<1>6. Fine(r.q, r.m, match)
  BY <1>2, <1>5, MarkersMoved
<1>7. r \in MoveState
  BY <1>2, <1>4, <1>6 DEF Fine, SameDownloads
<1>8. SameDownloads(r.q, q0)
  BY <1>1, <1>4 DEF SameDownloads
<1> QED  BY <1>2, <1>3, <1>6, <1>7, <1>8 DEF r, d, Sound

LEMMA MoveBackward ==
  ASSUME NEW q0, NEW match, NEW s, Sound(s, q0, match),
         NEW to \in 1 .. Len(s.q), NEW from \in 0 .. to - 1
  PROVE  LET r == MoveOne(s, match, s.q[from + 1], to, from)
         IN Sound(r, q0, match) /\ SameLoop(r, s) /\ IsBackward(Downloads, s.q, to, from, r.q)
<1> DEFINE d == s.q[from + 1]
           r == MoveOne(s, match, d, to, from)
<1>1. /\ s \in MoveState /\ s.q \in Seq(Downloads)
      /\ SameDownloads(s.q, q0) /\ Fine(s.q, s.m, match)
  BY DEF Sound, MoveState
<1>2. /\ r.q = RemoveAt(InsertAt(s.q, to + 1, d), from + 1)
      /\ r.m = MarkersMove(s.m, match, to, from, d)
      /\ SameLoop(r, s)
      /\ r.q \in Seq(Downloads) /\ r.m \in [Predicates -> Nat \cup {NoMarker}]
         => r \in MoveState
  BY <1>1, MoveOneFields
<1> HIDE DEF r
<1>3. IsBackward(Downloads, s.q, to, from, r.q)
  BY <1>1, <1>2, BackwardFacts
<1>4. SameDownloads(r.q, s.q)
  BY <1>1, <1>3, BackwardIsSame
<1>5. \A P \in Predicates :
        FineAt(r.q, IF d \notin match[P] THEN ShiftedByMove(s.m[P], to, from)
                                         ELSE PulledByMove(s.m[P], to, from), match[P])
  <2> SUFFICES ASSUME NEW P \in Predicates
               PROVE FineAt(r.q, IF d \notin match[P] THEN ShiftedByMove(s.m[P], to, from)
                                 ELSE PulledByMove(s.m[P], to, from), match[P])
    OBVIOUS
  <2>1. FineAt(s.q, s.m[P], match[P])
    BY <1>1 DEF Fine
  <2> QED  BY <1>1, <1>3, <2>1, BackwardShifts
<1>6. Fine(r.q, r.m, match)
  BY <1>2, <1>5, MarkersMoved
<1>7. r \in MoveState
  BY <1>2, <1>4, <1>6 DEF Fine, SameDownloads
<1>8. SameDownloads(r.q, q0)
  BY <1>1, <1>4 DEF SameDownloads
<1> QED  BY <1>2, <1>3, <1>6, <1>7, <1>8 DEF r, d, Sound

-----------------------------------------------------------------------------
(* The downloads of a list that are in a set.                              *)

IsThose(list, S, n, those) ==
  those = [k \in 0 .. n |->
    IF k = 0 THEN <<>>
    ELSE IF list[k] \in S THEN Append(those[k - 1], list[k]) ELSE those[k - 1]]

LEMMA ThoseExists ==
  ASSUME NEW list, NEW S, NEW n \in Nat
  PROVE  \E those : IsThose(list, S, n, those)
<1> DEFINE Bad == {k \in Nat : ~ \E those : IsThose(list, S, k, those)}
<1> SUFFICES ASSUME Bad # {} PROVE FALSE
  OBVIOUS
<1>1. PICK k \in Bad : \A l \in Bad : k <= l
  BY LeastNumber
<1>2. CASE k = 0
  <2> DEFINE g == [l \in 0 .. 0 |-> <<>>]
  <2>1. IsThose(list, S, 0, g)
    BY DEF IsThose
  <2> QED  BY <1>2, <2>1
<1>3. CASE k # 0
  <2>1. k \in Nat /\ k - 1 \in Nat /\ k - 1 \notin Bad
    BY <1>1, <1>3
  <2>2. PICK h : IsThose(list, S, k - 1, h)
    BY <2>1
  <2> DEFINE last == IF list[k] \in S THEN Append(h[k - 1], list[k]) ELSE h[k - 1]
             g == [l \in 0 .. k |-> IF l = k THEN last ELSE h[l]]
  <2>3. \A l \in 0 .. k - 1 : g[l] = h[l]
    BY <2>1
  <2>4. \A l \in 0 .. k : g[l] = IF l = 0 THEN <<>>
                                ELSE IF list[l] \in S THEN Append(g[l - 1], list[l]) ELSE g[l - 1]
    <3> SUFFICES ASSUME NEW l \in 0 .. k
                 PROVE g[l] = IF l = 0 THEN <<>>
                              ELSE IF list[l] \in S THEN Append(g[l - 1], list[l]) ELSE g[l - 1]
      OBVIOUS
    <3>1. CASE l = k
      <4>1. g[l] = last /\ k - 1 \in 0 .. k - 1 /\ l # 0
        BY <2>1, <3>1, <1>3
      <4>2. g[k - 1] = h[k - 1]
        BY <2>3, <4>1
      <4> QED  BY <3>1, <4>1, <4>2
    <3>2. CASE l # k
      <4>1. l \in 0 .. k - 1
        BY <2>1, <3>2
      <4>2. h[l] = IF l = 0 THEN <<>>
                   ELSE IF list[l] \in S THEN Append(h[l - 1], list[l]) ELSE h[l - 1]
        BY <2>2, <4>1 DEF IsThose
      <4>3. l # 0 => l - 1 \in 0 .. k - 1
        BY <2>1, <4>1
      <4>4. l # 0 => g[l - 1] = h[l - 1]
        BY <2>3, <4>3
      <4> QED  BY <2>3, <4>1, <4>2, <4>4
    <3> QED  BY <3>1, <3>2
  <2>5. g = [l \in 0 .. k |-> g[l]]
    OBVIOUS
  <2> HIDE DEF g
  <2>6. IsThose(list, S, k, g)
    BY <2>4, <2>5 DEF IsThose
  <2> QED  BY <2>6
<1> QED  BY <1>2, <1>3

LEMMA ThoseIs ==
  ASSUME NEW list, NEW S, Len(list) \in Nat
  PROVE  \E those : IsThose(list, S, Len(list), those) /\ Those(list, S) = those[Len(list)]
<1> DEFINE those == CHOOSE t : IsThose(list, S, Len(list), t)
<1>1. IsThose(list, S, Len(list), those)
  BY ThoseExists, Zenon
<1>2. Those(list, S) = those[Len(list)]
  BY Zenon DEF Those, IsThose
<1> QED  BY <1>1, <1>2

(***************************************************************************)
(* Two lists that agree on their first elements have there the same ones   *)
(* of a set.                                                               *)
(***************************************************************************)
Agree(s, t, n) == \A i \in 1 .. n : s[i] = t[i]

LEMMA ThoseAgree ==
  ASSUME NEW s, NEW t, NEW S, NEW n \in Nat, NEW p \in Nat, n <= p, Agree(s, t, n),
         NEW f, IsThose(s, S, n, f), NEW g, IsThose(t, S, p, g)
  PROVE  f[n] = g[n]
<1> DEFINE Bad == {k \in 0 .. n : f[k] # g[k]}
<1> SUFFICES ASSUME Bad # {} PROVE FALSE
  <2>1. n \in 0 .. n
    OBVIOUS
  <2> QED  BY <2>1
<1>0. Bad \in SUBSET Nat
  OBVIOUS
<1>1. PICK k \in Bad : \A l \in Bad : k <= l
  BY <1>0, LeastNumber
<1>2. k \in 0 .. n /\ k \in 0 .. p /\ f[k] # g[k]
  BY <1>1
<1>3. /\ f[k] = IF k = 0 THEN <<>>
                ELSE IF s[k] \in S THEN Append(f[k - 1], s[k]) ELSE f[k - 1]
      /\ g[k] = IF k = 0 THEN <<>>
                ELSE IF t[k] \in S THEN Append(g[k - 1], t[k]) ELSE g[k - 1]
  BY <1>2 DEF IsThose
<1>4. k # 0
  BY <1>2, <1>3
<1>5. k - 1 \in 0 .. n /\ ~(k <= k - 1) /\ k \in 1 .. n
  BY <1>2, <1>4
<1>6. f[k - 1] = g[k - 1]
  BY <1>1, <1>5
<1> QED  BY <1>2, <1>3, <1>4, <1>5, <1>6 DEF Agree

LEMMA ThoseEmpty ==
  ASSUME NEW S
  PROVE  Those(<<>>, S) = <<>>
<1>1. Len(<<>>) = 0
  BY EmptySeq
<1>2. PICK t : IsThose(<<>>, S, 0, t) /\ Those(<<>>, S) = t[0]
  BY <1>1, ThoseIs
<1> QED  BY <1>2 DEF IsThose

\* A list of downloads once the loop has met x.
IsLonger(new, old, x, S) == new = IF x \in S THEN Append(old, x) ELSE old

LEMMA ThoseAppend ==
  ASSUME NEW T, NEW list \in Seq(T), NEW x \in T, NEW S
  PROVE  IsLonger(Those(Append(list, x), S), Those(list, S), x, S)
<1> DEFINE n == Len(list)
           longer == Append(list, x)
<1>1. n \in Nat /\ Len(longer) = n + 1 /\ longer[n + 1] = x /\ \A i \in 1 .. n : list[i] = longer[i]
  BY LenProperties, AppendProperties
<1>2. PICK f : IsThose(list, S, n, f) /\ Those(list, S) = f[n]
  BY <1>1, ThoseIs
<1>3. Len(longer) \in Nat
  BY <1>1
<1> HIDE DEF n, longer
<1>4. PICK g : IsThose(longer, S, n + 1, g) /\ Those(longer, S) = g[n + 1]
  BY <1>1, <1>3, ThoseIs
<1>5. f[n] = g[n]
  <2>1. n + 1 \in Nat /\ n <= n + 1 /\ n \in 0 .. n
    BY <1>1
  <2>2. Agree(list, longer, n)
    BY <1>1 DEF Agree
  <2> DEFINE p == n + 1
  <2>3. p \in Nat /\ n \in Nat /\ n <= p /\ IsThose(longer, S, p, g)
    BY <1>1, <1>4, <2>1
  <2> HIDE DEF p
  <2> QED  BY <1>2, <2>2, <2>3, ThoseAgree
<1>6. g[n + 1] = IF longer[n + 1] \in S THEN Append(g[n], longer[n + 1]) ELSE g[n]
  <2>1. n + 1 \in 0 .. n + 1 /\ n + 1 # 0 /\ (n + 1) - 1 = n
    BY <1>1
  <2> QED  BY <1>4, <2>1 DEF IsThose
<1> QED  BY <1>1, <1>2, <1>4, <1>5, <1>6 DEF longer, IsLonger

(***************************************************************************)
(* The downloads in S of the elements of q from a + 1 to n.                *)
(***************************************************************************)
Kept(q, a, n, S) == Those(SubSeq(q, a + 1, n), S)

LEMMA KeptNone ==
  ASSUME NEW q \in Seq(Downloads), NEW a \in 0 .. Len(q), NEW S
  PROVE  Kept(q, a, a, S) = <<>>
<1>1. SubSeq(q, a + 1, a) = <<>>
  BY SubSeqEmpty
<1> QED  BY <1>1, ThoseEmpty DEF Kept

LEMMA KeptNext ==
  ASSUME NEW q \in Seq(Downloads), NEW a \in Nat, NEW n \in a .. Len(q),
         NEW v \in 1 .. Len(q), v = n + 1, NEW S
  PROVE  IsLonger(Kept(q, a, v, S), Kept(q, a, n, S), q[v], S)
<1>1. Len(q) \in Nat /\ n \in Nat /\ a <= n /\ v <= Len(q) /\ q[v] \in Downloads
  BY LenProperties
<1>2. /\ a + 1 \in 1 .. Len(q) + 1 /\ n \in (a + 1) - 1 .. Len(q)
      /\ a + 1 \in 1 .. Len(q) /\ v \in a + 1 .. Len(q) /\ v - 1 = n
  BY <1>1
<1>3. SubSeq(q, a + 1, n) \in Seq(Downloads)
  BY <1>2, CutFacts
<1>4. SubSeq(q, a + 1, v) = SubSeq(q, a + 1, n) \o <<q[v]>>
  BY <1>2, SubSeqRecursiveSecond
<1>5. SubSeq(q, a + 1, v) = Append(SubSeq(q, a + 1, n), q[v])
  BY <1>1, <1>3, <1>4, AppendIsConcat
<1>6. IsLonger(Those(Append(SubSeq(q, a + 1, n), q[v]), S), Those(SubSeq(q, a + 1, n), S), q[v], S)
  BY <1>1, <1>3, ThoseAppend
<1> QED  BY <1>5, <1>6, Zenon DEF Kept

LEMMA KeptTyped ==
  ASSUME NEW q \in Seq(Downloads), NEW a \in Nat, NEW n \in a .. Len(q), NEW S
  PROVE  Kept(q, a, n, S) \in Seq(Downloads) /\ Len(Kept(q, a, n, S)) \in Nat
<1> DEFINE Bad == {k \in a .. Len(q) : Kept(q, a, k, S) \notin Seq(Downloads)}
<1>1. Len(q) \in Nat /\ n \in Nat /\ a <= Len(q)
  BY LenProperties
<1>2. ASSUME Bad # {} PROVE FALSE
  <2>1. Bad \in SUBSET Nat
    BY <1>1
  <2>2. PICK k \in Bad : \A l \in Bad : k <= l
    BY <1>2, <2>1, LeastNumber
  <2>3. k # a
    <3>1. <<>> \in Seq(Downloads)
      OBVIOUS
    <3>2. Kept(q, a, a, S) = <<>>
      BY <1>1, KeptNone
    <3> QED  BY <2>2, <3>1, <3>2
  <2>4. k - 1 \in a .. Len(q) /\ k - 1 \notin Bad /\ k = (k - 1) + 1 /\ k \in 1 .. Len(q)
    BY <1>1, <2>2, <2>3
  <2>5. Kept(q, a, k - 1, S) \in Seq(Downloads) /\ q[k] \in Downloads
    BY <1>1, <2>4, LenProperties
  <2>6. IsLonger(Kept(q, a, k, S), Kept(q, a, k - 1, S), q[k], S)
    BY <2>4, KeptNext
  <2>7. Append(Kept(q, a, k - 1, S), q[k]) \in Seq(Downloads)
    BY <2>5, AppendProperties
  <2>8. Kept(q, a, k, S) \in Seq(Downloads)
    BY <2>5, <2>6, <2>7 DEF IsLonger
  <2> QED  BY <2>2, <2>8
<1>3. Kept(q, a, n, S) \in Seq(Downloads)
  BY <1>2
<1> QED  BY <1>3, LenProperties

-----------------------------------------------------------------------------
(* A list made of four parts.                                              *)

Parts(r, a, b, c, d) ==
  /\ r \in Seq(Downloads) /\ a \in Seq(Downloads) /\ b \in Seq(Downloads)
  /\ c \in Seq(Downloads) /\ d \in Seq(Downloads)
  /\ Len(r) = Len(a) + Len(b) + Len(c) + Len(d)
  /\ \A i \in 1 .. Len(a) : r[i] = a[i]
  /\ \A i \in 1 .. Len(b) : r[Len(a) + i] = b[i]
  /\ \A i \in 1 .. Len(c) : r[Len(a) + Len(b) + i] = c[i]
  /\ \A i \in 1 .. Len(d) : r[Len(a) + Len(b) + Len(c) + i] = d[i]

IsTail(t, s) ==
  /\ t \in Seq(Downloads) /\ Len(s) = Len(t) + 1
  /\ \A i \in 1 .. Len(t) : t[i] = s[i + 1]

LEMMA PartsLengths ==
  ASSUME NEW r, NEW a, NEW b, NEW c, NEW d, Parts(r, a, b, c, d)
  PROVE  /\ Len(r) \in Nat /\ Len(a) \in Nat /\ Len(b) \in Nat
         /\ Len(c) \in Nat /\ Len(d) \in Nat
BY LenProperties DEF Parts

LEMMA TailLengths ==
  ASSUME NEW s, NEW t, s \in Seq(Downloads), IsTail(t, s)
  PROVE  Len(t) \in Nat /\ Len(s) = Len(t) + 1 /\ s[1] \in Downloads
BY LenProperties DEF IsTail

LEMMA AppendElements ==
  ASSUME NEW s \in Seq(Downloads), NEW x \in Downloads
  PROVE  /\ Append(s, x) \in Seq(Downloads) /\ Len(Append(s, x)) = Len(s) + 1
         /\ Len(s) \in Nat
         /\ \A i \in 1 .. Len(s) : Append(s, x)[i] = s[i]
         /\ Append(s, x)[Len(s) + 1] = x
BY LenProperties, AppendProperties

(***************************************************************************)
(* The first of the fourth part goes to the end of the second or, if it    *)
(* does not move, of the third.                                            *)
(***************************************************************************)
LEMMA PartsForward ==
  ASSUME NEW q, NEW a, NEW b, NEW c, NEW d, Parts(q, a, b, c, d),
         NEW t, IsTail(t, d), NEW to, to = Len(a) + Len(b),
         NEW from, from = Len(a) + Len(b) + Len(c) + 1,
         NEW r, IsForward(Downloads, q, to, from, r)
  PROVE  Parts(r, a, Append(b, d[1]), c, t)
<1> DEFINE x == d[1]
           e == Append(b, x)
<1>1. /\ Len(q) \in Nat /\ Len(a) \in Nat /\ Len(b) \in Nat
      /\ Len(c) \in Nat /\ Len(d) \in Nat
  BY PartsLengths
<1>2. Len(t) \in Nat /\ Len(d) = Len(t) + 1 /\ x \in Downloads
  BY TailLengths DEF Parts
<1>3. /\ e \in Seq(Downloads) /\ Len(e) = Len(b) + 1
      /\ \A i \in 1 .. Len(b) : e[i] = b[i]
      /\ e[Len(b) + 1] = x
  BY <1>2, AppendElements DEF Parts
<1>4. x = q[from]
  BY <1>1, <1>2 DEF Parts
<1> HIDE DEF e, x
<1>5. /\ r \in Seq(Downloads) /\ Len(r) = Len(q)
      /\ Len(q) = Len(a) + Len(e) + Len(c) + Len(t)
  BY <1>1, <1>2, <1>3 DEF Parts, IsForward
<1>6. ASSUME NEW i \in 1 .. Len(a) PROVE r[i] = a[i]
  BY <1>1, <1>2 DEF Parts, IsForward
<1>7. ASSUME NEW i \in 1 .. Len(e) PROVE r[Len(a) + i] = e[i]
  <2>1. CASE i \in 1 .. Len(b)
    <3>1. e[i] = b[i] /\ q[Len(a) + i] = b[i]
      BY <2>1, <1>3 DEF Parts
    <3>2. Len(a) + i \in 1 .. Len(q) /\ Len(a) + i <= to
      BY <2>1, <1>1, <1>2 DEF Parts
    <3>3. r[Len(a) + i] = q[Len(a) + i]
      BY <3>2 DEF IsForward
    <3> QED  BY <3>1, <3>3
  <2>2. CASE i = Len(b) + 1
    <3>1. Len(a) + i = to + 1 /\ to + 1 \in 1 .. Len(q) /\ ~(to + 1 <= to)
      BY <2>2, <1>1, <1>2 DEF Parts
    <3>2. r[to + 1] = q[from]
      BY <3>1 DEF IsForward
    <3> QED  BY <2>2, <1>3, <1>4, <3>1, <3>2
  <2> QED  BY <2>1, <2>2, <1>1, <1>3
<1>8. ASSUME NEW i \in 1 .. Len(c) PROVE r[Len(a) + Len(e) + i] = c[i]
  <2>1. q[Len(a) + Len(b) + i] = c[i]
    BY DEF Parts
  <2>2. r[Len(a) + Len(e) + i] = q[Len(a) + Len(b) + i]
    <3>1. Len(a) + Len(e) + i \in 1 .. Len(q)
      BY <1>1, <1>2, <1>3 DEF Parts
    <3>2. r[Len(a) + Len(e) + i] = q[(Len(a) + Len(e) + i) - 1]
      BY <3>1, <1>1, <1>2, <1>3 DEF IsForward
    <3>3. (Len(a) + Len(e) + i) - 1 = Len(a) + Len(b) + i
      BY <1>1, <1>3
    <3> QED  BY <3>2, <3>3
  <2> QED  BY <2>1, <2>2
<1>9. ASSUME NEW i \in 1 .. Len(t) PROVE r[Len(a) + Len(e) + Len(c) + i] = t[i]
  <2>1. t[i] = d[i + 1] /\ i + 1 \in 1 .. Len(d)
    BY <1>2 DEF IsTail
  <2>2. q[Len(a) + Len(b) + Len(c) + (i + 1)] = d[i + 1]
    BY <2>1 DEF Parts
  <2>3. Len(a) + Len(e) + Len(c) + i = Len(a) + Len(b) + Len(c) + (i + 1)
    BY <1>1, <1>3
  <2> DEFINE j == Len(a) + Len(b) + Len(c) + (i + 1)
  <2>4. j \in 1 .. Len(q) /\ ~(j <= to) /\ j # to + 1 /\ ~(j <= from)
    BY <1>1, <1>2, <2>1 DEF Parts
  <2> HIDE DEF j
  <2>5. r[j] = q[j]
    BY <2>4 DEF IsForward
  <2> USE DEF j
  <2> QED  BY <2>1, <2>2, <2>3, <2>5
<1>10. Parts(r, a, e, c, t)
  BY <1>3, <1>5, <1>6, <1>7, <1>8, <1>9 DEF Parts, IsTail
<1> QED  BY <1>10 DEF e, x

LEMMA PartsStay ==
  ASSUME NEW q, NEW a, NEW b, NEW c, NEW d, Parts(q, a, b, c, d),
         NEW t, IsTail(t, d)
  PROVE  Parts(q, a, b, Append(c, d[1]), t)
<1> DEFINE x == d[1]
           e == Append(c, x)
<1>1. /\ Len(q) \in Nat /\ Len(a) \in Nat /\ Len(b) \in Nat
      /\ Len(c) \in Nat /\ Len(d) \in Nat
  BY PartsLengths
<1>2. Len(t) \in Nat /\ Len(d) = Len(t) + 1 /\ x \in Downloads
  BY TailLengths DEF Parts
<1>3. /\ e \in Seq(Downloads) /\ Len(e) = Len(c) + 1
      /\ \A i \in 1 .. Len(c) : e[i] = c[i]
      /\ e[Len(c) + 1] = x
  BY <1>2, AppendElements DEF Parts
<1>4. 1 \in 1 .. Len(d) /\ q[Len(a) + Len(b) + Len(c) + 1] = x
  BY <1>1, <1>2 DEF Parts
<1> HIDE DEF e, x
<1>5. ASSUME NEW i \in 1 .. Len(e) PROVE q[Len(a) + Len(b) + i] = e[i]
  <2>1. CASE i \in 1 .. Len(c)
    BY <2>1, <1>3 DEF Parts
  <2>2. CASE i = Len(c) + 1
    <3>1. Len(a) + Len(b) + i = Len(a) + Len(b) + Len(c) + 1
      BY <2>2, <1>1
    <3> QED  BY <3>1, <2>2, <1>3, <1>4
  <2> QED  BY <2>1, <2>2, <1>1, <1>3
<1>6. ASSUME NEW i \in 1 .. Len(t) PROVE q[Len(a) + Len(b) + Len(e) + i] = t[i]
  <2>1. t[i] = d[i + 1] /\ i + 1 \in 1 .. Len(d)
    BY <1>2 DEF IsTail
  <2>2. q[Len(a) + Len(b) + Len(c) + (i + 1)] = d[i + 1]
    BY <2>1 DEF Parts
  <2>3. Len(a) + Len(b) + Len(e) + i = Len(a) + Len(b) + Len(c) + (i + 1)
    BY <1>1, <1>3
  <2> QED  BY <2>1, <2>2, <2>3
<1>7. Len(q) = Len(a) + Len(b) + Len(e) + Len(t)
  BY <1>1, <1>2, <1>3 DEF Parts
<1>8. Parts(q, a, b, e, t)
  BY <1>3, <1>5, <1>6, <1>7 DEF Parts, IsTail
<1> QED  BY <1>8 DEF e, x

(***************************************************************************)
(* The first of the second part goes to the end of the third or, if it     *)
(* does not move, of the first.                                            *)
(***************************************************************************)
LEMMA PartsBackward ==
  ASSUME NEW q, NEW a, NEW b, NEW c, NEW d, Parts(q, a, b, c, d),
         NEW t, IsTail(t, b), NEW to, to = Len(a) + Len(b) + Len(c),
         NEW from, from = Len(a),
         NEW r, IsBackward(Downloads, q, to, from, r)
  PROVE  Parts(r, a, t, Append(c, b[1]), d)
<1> DEFINE x == b[1]
           e == Append(c, x)
<1>1. /\ Len(q) \in Nat /\ Len(a) \in Nat /\ Len(b) \in Nat
      /\ Len(c) \in Nat /\ Len(d) \in Nat
  BY PartsLengths
<1>2. Len(t) \in Nat /\ Len(b) = Len(t) + 1 /\ x \in Downloads
  BY TailLengths DEF Parts
<1>3. /\ e \in Seq(Downloads) /\ Len(e) = Len(c) + 1
      /\ \A i \in 1 .. Len(c) : e[i] = c[i]
      /\ e[Len(c) + 1] = x
  BY <1>2, AppendElements DEF Parts
<1>4. 1 \in 1 .. Len(b) /\ x = q[from + 1]
  BY <1>1, <1>2 DEF Parts
<1> HIDE DEF e, x
<1>5. /\ r \in Seq(Downloads) /\ Len(r) = Len(q)
      /\ Len(q) = Len(a) + Len(t) + Len(e) + Len(d)
  BY <1>1, <1>2, <1>3 DEF Parts, IsBackward
<1>6. ASSUME NEW i \in 1 .. Len(a) PROVE r[i] = a[i]
  BY <1>1, <1>2 DEF Parts, IsBackward
<1>7. ASSUME NEW i \in 1 .. Len(t) PROVE r[Len(a) + i] = t[i]
  <2>1. t[i] = b[i + 1] /\ i + 1 \in 1 .. Len(b)
    BY <1>2 DEF IsTail
  <2>2. q[Len(a) + (i + 1)] = b[i + 1]
    BY <2>1 DEF Parts
  <2>3. /\ Len(a) + (i + 1) = (Len(a) + i) + 1 /\ Len(a) + i \in 1 .. Len(q)
        /\ ~(Len(a) + i <= from) /\ Len(a) + i < to
    BY <1>1, <1>2 DEF Parts
  <2>4. r[Len(a) + i] = q[(Len(a) + i) + 1]
    BY <2>3 DEF IsBackward
  <2> QED  BY <2>1, <2>2, <2>3, <2>4
<1>8. ASSUME NEW i \in 1 .. Len(e) PROVE r[Len(a) + Len(t) + i] = e[i]
  <2>1. CASE i \in 1 .. Len(c)
    <3>1. e[i] = c[i] /\ q[Len(a) + Len(b) + i] = c[i]
      BY <2>1, <1>3 DEF Parts
    <3>2. Len(a) + Len(b) + i = (Len(a) + Len(t) + i) + 1 /\ Len(a) + Len(t) + i \in 1 .. Len(q)
      BY <2>1, <1>1, <1>2 DEF Parts
    <3>4. ~(Len(a) + Len(t) + i <= from) /\ Len(a) + Len(t) + i < to
      BY <2>1, <1>1, <1>2
    <3>3. r[Len(a) + Len(t) + i] = q[(Len(a) + Len(t) + i) + 1]
      BY <3>2, <3>4 DEF IsBackward
    <3> QED  BY <3>1, <3>2, <3>3
  <2>2. CASE i = Len(c) + 1
    <3>1. Len(a) + Len(t) + i = to /\ to \in 1 .. Len(q) /\ ~(to <= from)
      BY <2>2, <1>1, <1>2 DEF Parts
    <3>2. r[to] = q[from + 1]
      BY <3>1, <1>1 DEF IsBackward
    <3> QED  BY <3>1, <3>2, <2>2, <1>3, <1>4
  <2> QED  BY <2>1, <2>2, <1>1, <1>3
<1>9. ASSUME NEW i \in 1 .. Len(d) PROVE r[Len(a) + Len(t) + Len(e) + i] = d[i]
  <2>1. q[Len(a) + Len(b) + Len(c) + i] = d[i]
    BY DEF Parts
  <2>2. Len(a) + Len(t) + Len(e) + i = Len(a) + Len(b) + Len(c) + i
    BY <1>1, <1>2, <1>3
  <2>3. Len(a) + Len(b) + Len(c) + i \in 1 .. Len(q)
    BY <1>1 DEF Parts
  <2>4. r[Len(a) + Len(b) + Len(c) + i] = q[Len(a) + Len(b) + Len(c) + i]
    BY <1>1, <1>2, <2>3 DEF IsBackward
  <2> QED  BY <2>1, <2>2, <2>4
<1>10. Parts(r, a, t, e, d)
  BY <1>3, <1>5, <1>6, <1>7, <1>8, <1>9 DEF Parts, IsTail
<1> QED  BY <1>10 DEF e, x

LEMMA PartsSkip ==
  ASSUME NEW q, NEW a, NEW b, NEW c, NEW d, Parts(q, a, b, c, d),
         NEW t, IsTail(t, b)
  PROVE  Parts(q, Append(a, b[1]), t, c, d)
<1> DEFINE x == b[1]
           e == Append(a, x)
<1>1. /\ Len(q) \in Nat /\ Len(a) \in Nat /\ Len(b) \in Nat
      /\ Len(c) \in Nat /\ Len(d) \in Nat
  BY PartsLengths
<1>2. Len(t) \in Nat /\ Len(b) = Len(t) + 1 /\ x \in Downloads
  BY TailLengths DEF Parts
<1>3. /\ e \in Seq(Downloads) /\ Len(e) = Len(a) + 1
      /\ \A i \in 1 .. Len(a) : e[i] = a[i]
      /\ e[Len(a) + 1] = x
  BY <1>2, AppendElements DEF Parts
<1>4. 1 \in 1 .. Len(b) /\ q[Len(a) + 1] = x
  BY <1>1, <1>2 DEF Parts
<1> HIDE DEF e, x
<1>5. ASSUME NEW i \in 1 .. Len(e) PROVE q[i] = e[i]
  <2>1. CASE i \in 1 .. Len(a)
    BY <2>1, <1>3 DEF Parts
  <2>2. CASE i = Len(a) + 1
    BY <2>2, <1>3, <1>4
  <2> QED  BY <2>1, <2>2, <1>1, <1>3
<1>6. ASSUME NEW i \in 1 .. Len(t) PROVE q[Len(e) + i] = t[i]
  <2>1. t[i] = b[i + 1] /\ i + 1 \in 1 .. Len(b)
    BY <1>2 DEF IsTail
  <2>2. q[Len(a) + (i + 1)] = b[i + 1]
    BY <2>1 DEF Parts
  <2>3. Len(e) + i = Len(a) + (i + 1)
    BY <1>1, <1>3
  <2> QED  BY <2>1, <2>2, <2>3
<1>7. Len(e) + Len(t) = Len(a) + Len(b)
  BY <1>1, <1>2, <1>3
<1>8. Parts(q, e, t, c, d)
  BY <1>3, <1>5, <1>6, <1>7 DEF Parts, IsTail
<1> QED  BY <1>8 DEF e, x

\* With no second part, the third may be seen as the second.
LEMMA PartsShift ==
  ASSUME NEW q, NEW a, NEW c, NEW d, Parts(q, a, <<>>, c, d)
  PROVE  Parts(q, a, c, <<>>, d)
<1>1. /\ Len(q) \in Nat /\ Len(a) \in Nat /\ Len(c) \in Nat /\ Len(d) \in Nat
      /\ Len(<<>>) = 0
  BY PartsLengths, EmptySeq
<1>2. \A i : i \notin 1 .. Len(<<>>)
  BY <1>1
<1>3. /\ Len(a) + Len(<<>>) = Len(a)
      /\ Len(a) + Len(c) + Len(<<>>) = Len(a) + Len(c)
      /\ Len(q) = Len(a) + Len(c) + Len(<<>>) + Len(d)
  BY <1>1 DEF Parts
<1> QED  BY <1>1, <1>2, <1>3 DEF Parts

LEMMA PartsUnshift ==
  ASSUME NEW q, NEW a, NEW b, NEW d, Parts(q, a, b, <<>>, d)
  PROVE  Parts(q, a, <<>>, b, d)
<1>1. /\ Len(q) \in Nat /\ Len(a) \in Nat /\ Len(b) \in Nat /\ Len(d) \in Nat
      /\ Len(<<>>) = 0
  BY PartsLengths, EmptySeq
<1>2. \A i : i \notin 1 .. Len(<<>>)
  BY <1>1
<1>3. /\ Len(a) + Len(<<>>) = Len(a)
      /\ Len(a) + Len(b) + Len(<<>>) = Len(a) + Len(b)
      /\ Len(q) = Len(a) + Len(<<>>) + Len(b) + Len(d)
  BY <1>1 DEF Parts
<1> QED  BY <1>1, <1>2, <1>3 DEF Parts

LEMMA PartsGrow ==
  ASSUME NEW q, NEW a, NEW b, NEW d, Parts(q, a, b, <<>>, d), NEW t, IsTail(t, d)
  PROVE  Parts(q, a, Append(b, d[1]), <<>>, t)
<1>1. Parts(q, a, <<>>, b, d)
  BY PartsUnshift
<1>2. Parts(q, a, <<>>, Append(b, d[1]), t)
  BY <1>1, PartsStay
<1> QED  BY <1>2, PartsShift

LEMMA PartsEqual ==
  ASSUME NEW q, NEW a, NEW b, NEW c, NEW d, d = <<>>, Parts(q, a, b, c, d)
  PROVE  q = a \o b \o c
<1> DEFINE ab == a \o b
           r == ab \o c
<1>1. /\ Len(q) \in Nat /\ Len(a) \in Nat /\ Len(b) \in Nat /\ Len(c) \in Nat
      /\ Len(d) = 0
      /\ q \in Seq(Downloads) /\ a \in Seq(Downloads) /\ b \in Seq(Downloads)
      /\ c \in Seq(Downloads)
  BY PartsLengths, EmptySeq DEF Parts
<1>2. /\ ab \in Seq(Downloads) /\ Len(ab) = Len(a) + Len(b)
      /\ \A i \in 1 .. Len(a) + Len(b) : ab[i] = IF i <= Len(a) THEN a[i] ELSE b[i - Len(a)]
  BY <1>1, CatFacts
<1> HIDE DEF ab
<1>d. ab \in Seq(Downloads) /\ c \in Seq(Downloads)
  BY <1>1, <1>2
<1>3. /\ r \in Seq(Downloads) /\ Len(r) = Len(ab) + Len(c)
      /\ \A i \in 1 .. Len(ab) + Len(c) :
           r[i] = IF i <= Len(ab) THEN ab[i] ELSE c[i - Len(ab)]
  BY <1>d, CatFacts, Zenon
<1> HIDE DEF r
<1>4. Len(q) = Len(r) /\ Len(q) = Len(a) + Len(b) + Len(c)
  BY <1>1, <1>2, <1>3 DEF Parts
<1>5. ASSUME NEW i \in 1 .. Len(q) PROVE q[i] = r[i]
  <2>1. CASE i <= Len(a)
    <3>1. i \in 1 .. Len(a) /\ i \in 1 .. Len(ab) /\ i \in 1 .. Len(ab) + Len(c)
      BY <2>1, <1>1, <1>2, <1>4
    <3>2. q[i] = a[i]
      BY <3>1 DEF Parts
    <3>3. r[i] = ab[i]
      BY <3>1, <1>3, <1>1, <1>2
    <3>4. ab[i] = a[i]
      BY <3>1, <1>2, <1>1
    <3> QED  BY <3>2, <3>3, <3>4
  <2>2. CASE Len(a) < i /\ i <= Len(a) + Len(b)
    <3>1. i - Len(a) \in 1 .. Len(b) /\ Len(a) + (i - Len(a)) = i
      BY <2>2, <1>1, <1>4
    <3>2. q[i] = b[i - Len(a)]
      BY <3>1 DEF Parts
    <3>3. r[i] = b[i - Len(a)]
      BY <2>2, <1>1, <1>2, <1>3, <1>4
    <3> QED  BY <3>2, <3>3
  <2>3. CASE Len(a) + Len(b) < i
    <3>1. /\ i - (Len(a) + Len(b)) \in 1 .. Len(c)
          /\ Len(a) + Len(b) + (i - (Len(a) + Len(b))) = i
      BY <2>3, <1>1, <1>4
    <3>2. q[i] = c[i - (Len(a) + Len(b))]
      BY <3>1 DEF Parts
    <3>3. r[i] = c[i - (Len(a) + Len(b))]
      BY <2>3, <1>1, <1>2, <1>3, <1>4
    <3> QED  BY <3>2, <3>3
  <2> QED  BY <2>1, <2>2, <2>3, <1>1, <1>4
<1>6. q = r
  BY <1>1, <1>3, <1>4, <1>5, SeqEqual
<1> QED  BY <1>6 DEF r, ab

-----------------------------------------------------------------------------
(* The reference is reached: the downloads that were waiting join it.      *)

\* What is left of a list after its n first elements, up to e.
LEMMA RestFacts ==
  ASSUME NEW q \in Seq(Downloads), NEW n \in Nat, NEW e \in n .. Len(q)
  PROVE  /\ SubSeq(q, n + 1, e) \in Seq(Downloads) /\ Len(SubSeq(q, n + 1, e)) = e - n
         /\ \A i \in 1 .. e - n : SubSeq(q, n + 1, e)[i] = q[n + i]
<1>1. Len(q) \in Nat /\ e \in Nat /\ n <= e /\ e <= Len(q)
  BY LenProperties
<1>2. n + 1 \in 1 .. Len(q) + 1 /\ e \in (n + 1) - 1 .. Len(q)
  BY <1>1
<1>3. /\ SubSeq(q, n + 1, e) \in Seq(Downloads)
      /\ Len(SubSeq(q, n + 1, e)) = (e - (n + 1)) + 1
      /\ \A i \in 1 .. (e - (n + 1)) + 1 : SubSeq(q, n + 1, e)[i] = q[((n + 1) + i) - 1]
  BY <1>2, CutFacts
<1> QED  BY <1>1, <1>3

LEMMA RestNext ==
  ASSUME NEW q \in Seq(Downloads), NEW n \in Nat, NEW e \in n + 1 .. Len(q),
         NEW v, v = n + 1
  PROVE  /\ IsTail(SubSeq(q, v + 1, e), SubSeq(q, n + 1, e))
         /\ SubSeq(q, n + 1, e)[1] = q[v] /\ q[v] \in Downloads
<1>1. Len(q) \in Nat /\ e \in Nat /\ n + 1 <= e /\ e <= Len(q) /\ v \in Nat
  BY LenProperties
<1> DEFINE s == SubSeq(q, n + 1, e)
           t == SubSeq(q, v + 1, e)
<1>2. /\ s \in Seq(Downloads) /\ Len(s) = e - n
      /\ \A i \in 1 .. e - n : s[i] = q[n + i]
  BY <1>1, RestFacts
<1>3. /\ t \in Seq(Downloads) /\ Len(t) = e - v
      /\ \A i \in 1 .. e - v : t[i] = q[v + i]
  BY <1>1, RestFacts
<1> HIDE DEF s, t
<1>4. IsTail(t, s)
  <2>1. Len(s) = Len(t) + 1
    BY <1>1, <1>2, <1>3
  <2>2. ASSUME NEW i \in 1 .. Len(t) PROVE t[i] = s[i + 1]
    <3>1. t[i] = q[v + i] /\ i + 1 \in 1 .. e - n
      BY <1>1, <1>3
    <3>2. s[i + 1] = q[n + (i + 1)] /\ n + (i + 1) = v + i
      BY <1>1, <1>2, <3>1
    <3> QED  BY <3>1, <3>2
  <2> QED  BY <1>3, <2>1, <2>2 DEF IsTail
<1>5. s[1] = q[v] /\ q[v] \in Downloads
  BY <1>1, <1>2, LenProperties
<1> QED  BY <1>4, <1>5 DEF s, t

\* The downloads to move among the v first have joined the reference at sp.
JoinedTo(r, q, ids, sp, v) ==
  Parts(r, Kept(q, 0, v, Downloads \ ids), SubSeq(q, v + 1, sp),
        Kept(q, 0, v, ids), SubSeq(q, sp + 1, Len(q)))

JoinedSizes(q, ids, sp, v) ==
  /\ Len(Kept(q, 0, v, Downloads \ ids)) \in Nat /\ Len(Kept(q, 0, v, ids)) \in Nat
  /\ Len(Kept(q, 0, v, Downloads \ ids)) + Len(Kept(q, 0, v, ids)) = v
  /\ Len(SubSeq(q, v + 1, sp)) = sp - v

LEMMA JoinedLengths ==
  ASSUME NEW q \in Seq(Downloads), NEW ids \in SUBSET Downloads,
         NEW sp \in 0 .. Len(q), NEW v \in 0 .. sp,
         NEW r, JoinedTo(r, q, ids, sp, v), Len(r) = Len(q)
  PROVE  JoinedSizes(q, ids, sp, v)
<1> DEFINE a == Kept(q, 0, v, Downloads \ ids)
           b == SubSeq(q, v + 1, sp)
           c == Kept(q, 0, v, ids)
           d == SubSeq(q, sp + 1, Len(q))
<1>1. Len(q) \in Nat /\ sp \in Nat /\ v \in Nat /\ v <= sp /\ sp <= Len(q)
  BY LenProperties
<1>2. Len(b) = sp - v /\ Len(d) = Len(q) - sp
  BY <1>1, RestFacts
<1>3. Parts(r, a, b, c, d)
  BY DEF JoinedTo
<1> HIDE DEF a, b, c, d
<1>4. Len(a) \in Nat /\ Len(c) \in Nat
  BY <1>3, PartsLengths
<1>5. Len(r) = Len(a) + Len(b) + Len(c) + Len(d)
  BY <1>3 DEF Parts
<1>6. Len(a) + Len(c) = v
  BY <1>1, <1>2, <1>4, <1>5
<1> QED  BY <1>2, <1>4, <1>6 DEF a, b, c, JoinedSizes

LEMMA JoinedSkips ==
  ASSUME NEW q \in Seq(Downloads), NEW ids \in SUBSET Downloads,
         NEW sp \in 0 .. Len(q), NEW v \in Nat, NEW w \in 1 .. sp, w = v + 1,
         NEW r, JoinedTo(r, q, ids, sp, v), q[w] \notin ids
  PROVE  JoinedTo(r, q, ids, sp, w) /\ Kept(q, 0, w, ids) = Kept(q, 0, v, ids)
<1>1. /\ Len(q) \in Nat /\ sp \in Nat /\ w <= sp /\ sp <= Len(q)
      /\ 0 \in Nat /\ v \in 0 .. Len(q) /\ w \in 1 .. Len(q) /\ sp \in v + 1 .. Len(q)
  BY LenProperties
<1> DEFINE a == Kept(q, 0, v, Downloads \ ids)
           b == SubSeq(q, v + 1, sp)
           c == Kept(q, 0, v, ids)
           d == SubSeq(q, sp + 1, Len(q))
           t == SubSeq(q, w + 1, sp)
<1>2. IsTail(t, b) /\ b[1] = q[w] /\ q[w] \in Downloads
  BY <1>1, RestNext
<1>3. /\ IsLonger(Kept(q, 0, w, Downloads \ ids), a, q[w], Downloads \ ids)
      /\ IsLonger(Kept(q, 0, w, ids), c, q[w], ids)
  BY <1>1, KeptNext
<1>4. Kept(q, 0, w, Downloads \ ids) = Append(a, q[w]) /\ Kept(q, 0, w, ids) = c
  BY <1>2, <1>3 DEF IsLonger
<1>5. Parts(r, a, b, c, d)
  BY DEF JoinedTo
<1>6. Parts(r, Append(a, b[1]), t, c, d)
  BY <1>2, <1>5, PartsSkip
<1> QED  BY <1>2, <1>4, <1>6 DEF JoinedTo

\* The number of downloads to move only grows along the list.
LEMMA KeptGrows ==
  ASSUME NEW q \in Seq(Downloads), NEW S, NEW v \in 0 .. Len(q), NEW w \in v .. Len(q)
  PROVE  Len(Kept(q, 0, v, S)) <= Len(Kept(q, 0, w, S))
<1>1. Len(q) \in Nat /\ v \in Nat /\ w \in Nat /\ v <= w /\ w <= Len(q)
  BY LenProperties
<1> DEFINE L(n) == Len(Kept(q, 0, n, S))
           Bad == {n \in v .. Len(q) : ~(L(v) <= L(n))}
<1>2. \A n \in 0 .. Len(q) : L(n) \in Nat
  BY <1>1, KeptTyped
<1>3. ASSUME Bad # {} PROVE FALSE
  <2>1. Bad \in SUBSET Nat
    BY <1>1
  <2>2. PICK n \in Bad : \A l \in Bad : n <= l
    BY <1>3, <2>1, LeastNumber
  <2>3. n # v
    BY <1>1, <1>2, <2>2
  <2>4. /\ n - 1 \in v .. Len(q) /\ n - 1 \notin Bad /\ n - 1 \in 0 .. Len(q)
        /\ n = (n - 1) + 1 /\ n \in 1 .. Len(q)
    BY <1>1, <2>2, <2>3
  <2>5. IsLonger(Kept(q, 0, n, S), Kept(q, 0, n - 1, S), q[n], S)
    BY <2>4, KeptNext
  <2>6. Kept(q, 0, n - 1, S) \in Seq(Downloads) /\ q[n] \in Downloads
    BY <1>1, <2>4, KeptTyped, LenProperties
  <2>7. L(n - 1) <= L(n)
    BY <1>2, <2>4, <2>5, <2>6, AppendElements DEF IsLonger
  <2>8. L(v) <= L(n - 1)
    BY <2>4
  <2> QED  BY <1>1, <1>2, <2>2, <2>4, <2>7, <2>8
<1> QED  BY <1>1, <1>3

(***************************************************************************)
(* With no download to move between the indexes v and w, all those before  *)
(* w have joined the reference as soon as those before v have.             *)
(***************************************************************************)
LEMMA JoinedStretch ==
  ASSUME NEW q \in Seq(Downloads), NEW ids \in SUBSET Downloads,
         NEW sp \in 0 .. Len(q), NEW v \in 0 .. sp, NEW w \in v .. sp,
         Len(Kept(q, 0, v, ids)) = Len(Kept(q, 0, w, ids)),
         NEW r, JoinedTo(r, q, ids, sp, v)
  PROVE  JoinedTo(r, q, ids, sp, w)
<1>1. /\ Len(q) \in Nat /\ sp \in Nat /\ v \in Nat /\ w \in Nat
      /\ v <= w /\ w <= sp /\ sp <= Len(q)
  BY LenProperties
<1> DEFINE L(n) == Len(Kept(q, 0, n, ids))
           Bad == {n \in v .. w : ~JoinedTo(r, q, ids, sp, n)}
<1>2. \A n \in 0 .. Len(q) : L(n) \in Nat
  BY <1>1, KeptTyped
<1>3. ASSUME Bad # {} PROVE FALSE
  <2>1. Bad \in SUBSET Nat
    BY <1>1
  <2>2. PICK n \in Bad : \A l \in Bad : n <= l
    BY <1>3, <2>1, LeastNumber
  <2>3. n # v
    BY <1>1, <2>2
  <2>4. /\ n - 1 \in v .. w /\ n - 1 \notin Bad /\ n - 1 \in 0 .. Len(q) /\ n - 1 \in Nat
        /\ n = (n - 1) + 1 /\ n \in 1 .. Len(q) /\ n \in 1 .. sp /\ n \in v .. w
        /\ v \in 0 .. Len(q) /\ n - 1 \in v .. Len(q) /\ n \in 0 .. Len(q) /\ w \in n .. Len(q)
    BY <1>1, <2>2, <2>3
  <2>5. L(v) <= L(n - 1) /\ L(n) <= L(w)
    BY <2>4, KeptGrows
  <2>6. q[n] \notin ids
    <3> SUFFICES ASSUME q[n] \in ids PROVE FALSE
      OBVIOUS
    <3>1. IsLonger(Kept(q, 0, n, ids), Kept(q, 0, n - 1, ids), q[n], ids)
      BY <2>4, KeptNext
    <3>2. Kept(q, 0, n - 1, ids) \in Seq(Downloads) /\ q[n] \in Downloads
      BY <1>1, <2>4, KeptTyped, LenProperties
    <3>3. L(n) = L(n - 1) + 1
      BY <3>1, <3>2, AppendElements DEF IsLonger
    <3> HIDE DEF L
    <3>4. L(n - 1) \in Nat /\ L(v) = L(w)
      BY <1>2, <2>4 DEF L
    <3> QED  BY <2>5, <3>3, <3>4, <1>2, <2>4
  <2>7. JoinedTo(r, q, ids, sp, n - 1)
    BY <2>4
  <2> QED  BY <2>2, <2>4, <2>6, <2>7, JoinedSkips
<1> QED  BY <1>1, <1>3

\* The k first of the downloads that were waiting in s have joined the reference.
JoinTurn(r, s, q, match, ids, sp, k, v) ==
  /\ Sound(r, q, match) /\ JoinedTo(r.q, q, ids, sp, v)
  /\ r.shift = 0 - k /\ r.at = s.at /\ r.waiting = s.waiting
  /\ r.ids = s.ids /\ r.refs = s.refs /\ r.ref = s.ref

\* The downloads joins the reference at the position sp.
JoinsAt(s, sp, where) ==
  IF where = "AFTER" THEN s.at = sp - 1 ELSE s.at = sp

LEMMA JoinStep ==
  ASSUME NEW q \in Seq(Downloads), NEW ids \in SUBSET Downloads, NEW match,
         NEW where \in {"BEFORE", "AFTER"}, NEW sp \in 0 .. Len(q),
         NEW s, s.at \in Int, JoinsAt(s, sp, where),
         NEW k \in Nat, NEW l \in Nat, k = l + 1,
         NEW v \in Nat, NEW w \in 1 .. sp, w = v + 1, q[w] \in ids,
         Len(Kept(q, 0, v, ids)) = l, s.waiting[k] = v,
         NEW r, JoinTurn(r, s, q, match, ids, sp, l, v)
  PROVE  JoinTurn(JoinReference(r, match, k, where), s, q, match, ids, sp, k, w)
<1> DEFINE a == Kept(q, 0, v, Downloads \ ids)
           b == SubSeq(q, v + 1, sp)
           c == Kept(q, 0, v, ids)
           d == SubSeq(q, sp + 1, Len(q))
           t == SubSeq(q, w + 1, sp)
<1>1. /\ Len(q) \in Nat /\ sp \in Nat /\ w <= sp /\ sp <= Len(q) /\ v < sp
      /\ 0 \in Nat /\ v \in 0 .. Len(q) /\ w \in 1 .. Len(q) /\ sp \in v + 1 .. Len(q)
      /\ v \in 0 .. sp
  BY LenProperties
<1>2. /\ Sound(r, q, match) /\ r \in MoveState /\ JoinedTo(r.q, q, ids, sp, v)
      /\ r.shift = 0 - l /\ r.at = s.at /\ r.waiting = s.waiting
      /\ Len(r.q) = Len(q)
  BY DEF JoinTurn, Sound, SameDownloads
<1>j. sp \in 0 .. Len(q) /\ JoinedTo(r.q, q, ids, sp, v) /\ Len(r.q) = Len(q)
  BY <1>2
<1>3. Len(a) \in Nat /\ Len(c) = l /\ Len(a) + Len(c) = v /\ Len(b) = sp - v
  <2>1. JoinedSizes(q, ids, sp, v)
    BY <1>1, <1>j, JoinedLengths
  <2> QED  BY <2>1 DEF JoinedSizes
<1>4. IsTail(t, b) /\ b[1] = q[w] /\ q[w] \in Downloads
  BY <1>1, RestNext
<1>5. /\ IsLonger(Kept(q, 0, w, Downloads \ ids), a, q[w], Downloads \ ids)
      /\ IsLonger(Kept(q, 0, w, ids), c, q[w], ids)
  BY <1>1, KeptNext
<1>6. Kept(q, 0, w, Downloads \ ids) = a /\ Kept(q, 0, w, ids) = Append(c, q[w])
  BY <1>4, <1>5 DEF IsLonger
<1>7. Parts(r.q, a, b, c, d)
  BY <1>2 DEF JoinedTo
<1> HIDE DEF a, b, c, d, t
<1> DEFINE from == Len(a)
           n == MoveOne(r, match, r.q[from + 1], sp, from)
<1>8. r.waiting[k] + r.shift = from
  <2>1. r.waiting[k] = v /\ r.shift = 0 - l
    BY <1>2
  <2> QED  BY <1>3, <2>1
<1>9. ~(r.waiting[k] = r.at /\ where = "BEFORE")
  BY <1>1, <1>2 DEF JoinsAt
<1>10. (IF where = "AFTER" THEN r.at + 1 ELSE r.at) = sp
  BY <1>1, <1>2 DEF JoinsAt
<1>11. JoinReference(r, match, k, where) = [n EXCEPT !.shift = @ - 1]
  BY <1>8, <1>9, <1>10 DEF JoinReference
<1>12. sp \in 1 .. Len(r.q) /\ from \in 0 .. sp - 1
  BY <1>1, <1>2, <1>3
<1>13. /\ Sound(n, q, match) /\ SameLoop(n, r)
       /\ IsBackward(Downloads, r.q, sp, from, n.q)
  BY <1>2, <1>12, MoveBackward
<1>14. Parts(n.q, a, t, Append(c, b[1]), d)
  <2>1. sp = Len(a) + Len(b) + Len(c)
    BY <1>1, <1>3
  <2> QED  BY <1>4, <1>7, <1>13, <2>1, PartsBackward
<1>15. JoinedTo(n.q, q, ids, sp, w)
  BY <1>4, <1>6, <1>14 DEF JoinedTo, d, t
<1> HIDE DEF n
<1> DEFINE e == [n EXCEPT !.shift = @ - 1]
<1>16. n \in MoveState /\ n.shift = 0 - l
  BY <1>2, <1>13 DEF Sound, SameLoop
<1>17. /\ e \in MoveState /\ e.q = n.q /\ e.m = n.m /\ e.shift = 0 - k
       /\ e.at = n.at /\ e.waiting = n.waiting /\ e.ids = n.ids /\ e.refs = n.refs /\ e.ref = n.ref
  <2>1. n.shift - 1 = 0 - k /\ n.shift - 1 \in Int
    BY <1>16
  <2> QED  BY <1>16, <2>1 DEF MoveState
<1> HIDE DEF e
<1>18. JoinTurn(e, s, q, match, ids, sp, k, w)
  BY <1>2, <1>13, <1>15, <1>17 DEF JoinTurn, Sound, SameLoop
<1> QED  BY <1>11, <1>18 DEF e

IsJoin(s, match, where, n, join) ==
  join = [k \in 0 .. n |-> IF k = 0 THEN s
                           ELSE JoinReference(join[k - 1], match, k, where)]

LEMMA JoinExists ==
  ASSUME NEW s, NEW match, NEW where, NEW n \in Nat
  PROVE  \E join : IsJoin(s, match, where, n, join)
<1> DEFINE Bad == {k \in Nat : ~ \E join : IsJoin(s, match, where, k, join)}
<1> SUFFICES ASSUME Bad # {} PROVE FALSE
  OBVIOUS
<1>1. PICK k \in Bad : \A l \in Bad : k <= l
  BY LeastNumber
<1>2. CASE k = 0
  <2> DEFINE g == [l \in 0 .. 0 |-> s]
  <2>1. IsJoin(s, match, where, 0, g)
    BY DEF IsJoin
  <2> QED  BY <1>2, <2>1
<1>3. CASE k # 0
  <2>1. k \in Nat /\ k - 1 \in Nat /\ k - 1 \notin Bad
    BY <1>1, <1>3
  <2>2. PICK h : IsJoin(s, match, where, k - 1, h)
    BY <2>1
  <2> DEFINE last == JoinReference(h[k - 1], match, k, where)
             g == [l \in 0 .. k |-> IF l = k THEN last ELSE h[l]]
  <2>3. \A l \in 0 .. k - 1 : g[l] = h[l]
    BY <2>1
  <2>4. \A l \in 0 .. k : g[l] = IF l = 0 THEN s ELSE JoinReference(g[l - 1], match, l, where)
    <3> SUFFICES ASSUME NEW l \in 0 .. k
                 PROVE g[l] = IF l = 0 THEN s ELSE JoinReference(g[l - 1], match, l, where)
      OBVIOUS
    <3>1. CASE l = k
      <4>1. g[l] = last /\ k - 1 \in 0 .. k - 1 /\ l # 0
        BY <2>1, <3>1, <1>3
      <4>2. g[k - 1] = h[k - 1]
        BY <2>3, <4>1
      <4> QED  BY <3>1, <4>1, <4>2
    <3>2. CASE l # k
      <4>1. l \in 0 .. k - 1
        BY <2>1, <3>2
      <4>2. h[l] = IF l = 0 THEN s ELSE JoinReference(h[l - 1], match, l, where)
        BY <2>2, <4>1 DEF IsJoin
      <4>3. l # 0 => l - 1 \in 0 .. k - 1
        BY <2>1, <4>1
      <4>4. l # 0 => g[l - 1] = h[l - 1]
        BY <2>3, <4>3
      <4> QED  BY <2>3, <4>1, <4>2, <4>4
    <3> QED  BY <3>1, <3>2
  <2>5. g = [l \in 0 .. k |-> g[l]]
    OBVIOUS
  <2> HIDE DEF g
  <2>6. IsJoin(s, match, where, k, g)
    BY <2>4, <2>5 DEF IsJoin
  <2> QED  BY <2>6
<1> QED  BY <1>2, <1>3

ReachedBy(s, match, i, where, join) ==
  /\ IsJoin([s EXCEPT !.at = i, !.shift = 0], match, where, Len(s.waiting), join)
  /\ ReferenceReached(s, match, i, where)
       = [join[Len(s.waiting)] EXCEPT !.waiting = <<>>]

LEMMA ReferenceReachedIs ==
  ASSUME NEW s, NEW match, NEW i, NEW where, Len(s.waiting) \in Nat
  PROVE  \E join : ReachedBy(s, match, i, where, join)
<1> DEFINE start == [s EXCEPT !.at = i, !.shift = 0]
           join == CHOOSE j : IsJoin(start, match, where, Len(s.waiting), j)
<1>1. IsJoin(start, match, where, Len(s.waiting), join)
  BY JoinExists, Zenon
<1>2. ReferenceReached(s, match, i, where) = [join[Len(s.waiting)] EXCEPT !.waiting = <<>>]
  BY Zenon DEF ReferenceReached, IsJoin
<1>3. ReachedBy(s, match, i, where, join)
  BY <1>1, <1>2, Zenon DEF ReachedBy
<1> QED  BY <1>3

\* The positions of the downloads to move among the n first of q, in order.
Waits(waiting, q, n, ids) ==
  /\ waiting \in Seq(Nat) /\ Len(waiting) = Len(Kept(q, 0, n, ids))
  /\ \A k \in 1 .. Len(waiting) :
       /\ waiting[k] \in 0 .. n - 1 /\ q[waiting[k] + 1] \in ids
       /\ Len(Kept(q, 0, waiting[k], ids)) = k - 1

\* The list once the reference at the position sp and n downloads are met.
Arranged(r, q, ids, sp, n) ==
  Parts(r, Kept(q, 0, sp, Downloads \ ids), Kept(q, 0, n, ids),
        Kept(q, sp, n, Downloads \ ids), SubSeq(q, n + 1, Len(q)))

\* The loop once the reference is reached.
Reached(r, q, match, ids, sp, n, where) ==
  /\ Sound(r, q, match) /\ Arranged(r.q, q, ids, sp, n)
  /\ r.waiting = <<>> /\ r.at \in Nat
  /\ JoinsAt(r, Len(Kept(q, 0, sp, Downloads \ ids)) + Len(Kept(q, 0, n, ids)), where)

JoinTurns(r, s, q, match, ids, sp, k) ==
  \A v \in 0 .. sp : Len(Kept(q, 0, v, ids)) = k => JoinTurn(r, s, q, match, ids, sp, k, v)

LEMMA JoinStart ==
  ASSUME NEW q \in Seq(Downloads), NEW ids \in SUBSET Downloads, NEW match,
         NEW sp \in 0 .. Len(q),
         NEW s, Sound(s, q, match), s.q = q, s.shift = 0
  PROVE  JoinTurns(s, s, q, match, ids, sp, 0)
<1>1. Len(q) \in Nat /\ sp \in Nat /\ sp <= Len(q) /\ 0 \in 0 .. Len(q) /\ 0 \in 0 .. sp
  BY LenProperties
<1>2. Kept(q, 0, 0, Downloads \ ids) = <<>> /\ Kept(q, 0, 0, ids) = <<>>
  BY <1>1, KeptNone
<1>3. Len(<<>>) = 0 /\ <<>> \in Seq(Downloads)
  BY EmptySeq
<1> DEFINE b == SubSeq(q, 1, sp)
           d == SubSeq(q, sp + 1, Len(q))
<1>4. b = SubSeq(q, 0 + 1, sp)
  OBVIOUS
<1>5. /\ b \in Seq(Downloads) /\ Len(b) = sp /\ \A i \in 1 .. sp : b[i] = q[i]
  BY <1>1, <1>4, RestFacts
<1>6. /\ d \in Seq(Downloads) /\ Len(d) = Len(q) - sp
      /\ \A i \in 1 .. Len(q) - sp : d[i] = q[sp + i]
  BY <1>1, RestFacts
<1> HIDE DEF b, d
<1>7. Parts(q, <<>>, b, <<>>, d)
  BY <1>1, <1>3, <1>5, <1>6 DEF Parts
<1>8. JoinedTo(s.q, q, ids, sp, 0)
  BY <1>2, <1>4, <1>7 DEF JoinedTo, d
<1>9. JoinTurn(s, s, q, match, ids, sp, 0, 0)
  <2>1. 0 - 0 = 0
    OBVIOUS
  <2> QED  BY <1>8, <2>1, Zenon DEF JoinTurn
<1>10. ASSUME NEW v \in 0 .. sp, Len(Kept(q, 0, v, ids)) = 0
       PROVE  JoinTurn(s, s, q, match, ids, sp, 0, v)
  <2>1. Len(Kept(q, 0, 0, ids)) = Len(Kept(q, 0, v, ids))
    BY <1>2, <1>3, <1>10
  <2>2. JoinedTo(s.q, q, ids, sp, v)
    BY <1>1, <1>8, <2>1, JoinedStretch
  <2> QED  BY <1>9, <2>2 DEF JoinTurn
<1> QED  BY <1>10 DEF JoinTurns

LEMMA JoinNext ==
  ASSUME NEW q \in Seq(Downloads), NEW ids \in SUBSET Downloads, NEW match,
         NEW where \in {"BEFORE", "AFTER"}, NEW sp \in 0 .. Len(q),
         NEW n \in 0 .. Len(q), NEW s, s.at \in Int, JoinsAt(s, sp, where),
         Waits(s.waiting, q, n, ids),
         NEW k \in 1 .. Len(s.waiting), NEW l \in Nat, k = l + 1,
         NEW r, JoinTurns(r, s, q, match, ids, sp, l)
  PROVE  JoinTurns(JoinReference(r, match, k, where), s, q, match, ids, sp, k)
<1> DEFINE j == JoinReference(r, match, k, where)
<1>1. Len(q) \in Nat /\ sp \in Nat /\ sp <= Len(q) /\ n \in Nat /\ n <= Len(q) /\ k \in Nat
  BY LenProperties
<1> SUFFICES ASSUME NEW v \in 0 .. sp, Len(Kept(q, 0, v, ids)) = k
             PROVE  JoinTurn(j, s, q, match, ids, sp, k, v)
  BY DEF JoinTurns
<1> DEFINE u == s.waiting[k]
           w == u + 1
<1>2. u \in Nat /\ u < n /\ q[w] \in ids /\ Len(Kept(q, 0, u, ids)) = l
  <2>1. u \in 0 .. n - 1 /\ q[w] \in ids /\ Len(Kept(q, 0, u, ids)) = k - 1
    BY Zenon DEF Waits
  <2> QED  BY <1>1, <2>1
<1> HIDE DEF j, u
<1>3. ~(v <= u)
  <2> SUFFICES ASSUME v <= u PROVE FALSE
    OBVIOUS
  <2>1. v \in 0 .. Len(q) /\ u \in v .. Len(q)
    BY <1>1, <1>2
  <2>2. Len(Kept(q, 0, v, ids)) <= Len(Kept(q, 0, u, ids))
    BY <2>1, KeptGrows
  <2> QED  BY <1>1, <1>2, <2>2
<1>4. u \in 0 .. sp /\ w \in 1 .. sp /\ w \in 0 .. sp /\ v \in w .. sp
  BY <1>1, <1>2, <1>3
<1>5. JoinTurn(r, s, q, match, ids, sp, l, u)
  BY <1>2, <1>4 DEF JoinTurns
<1>w. w = u + 1 /\ s.waiting[k] = u
  BY DEF u
<1> HIDE DEF w
<1>6. JoinTurn(j, s, q, match, ids, sp, k, w)
  BY <1>1, <1>2, <1>4, <1>5, <1>w, JoinStep DEF j
<1>7. Len(Kept(q, 0, w, ids)) = Len(Kept(q, 0, v, ids))
  <2>1. u \in 0 .. Len(q) /\ w \in 1 .. Len(q) /\ 0 \in Nat /\ q[w] \in Downloads
    BY <1>1, <1>4, LenProperties
  <2>2. IsLonger(Kept(q, 0, w, ids), Kept(q, 0, u, ids), q[w], ids)
    BY <2>1, <1>w, KeptNext
  <2>3. Kept(q, 0, u, ids) \in Seq(Downloads)
    BY <2>1, KeptTyped
  <2>4. Len(Kept(q, 0, w, ids)) = Len(Kept(q, 0, u, ids)) + 1
    BY <1>2, <2>1, <2>2, <2>3, AppendElements DEF IsLonger
  <2> QED  BY <1>2, <2>4
<1>8. JoinedTo(j.q, q, ids, sp, v)
  BY <1>4, <1>6, <1>7, JoinedStretch DEF JoinTurn
<1> QED  BY <1>6, <1>8 DEF JoinTurn

LEMMA JoinAll ==
  ASSUME NEW q \in Seq(Downloads), NEW ids \in SUBSET Downloads, NEW match,
         NEW where \in {"BEFORE", "AFTER"}, NEW sp \in 0 .. Len(q),
         NEW n \in 0 .. Len(q), NEW s, s.at \in Int, JoinsAt(s, sp, where),
         Waits(s.waiting, q, n, ids), Sound(s, q, match), s.q = q, s.shift = 0,
         NEW join, IsJoin(s, match, where, Len(s.waiting), join)
  PROVE  \A k \in 0 .. Len(s.waiting) : JoinTurns(join[k], s, q, match, ids, sp, k)
<1> DEFINE Bad == {k \in 0 .. Len(s.waiting) : ~JoinTurns(join[k], s, q, match, ids, sp, k)}
<1> SUFFICES ASSUME Bad # {} PROVE FALSE
  OBVIOUS
<1>1. Len(s.waiting) \in Nat /\ Bad \in SUBSET Nat
  BY LenProperties DEF Waits
<1>2. PICK k \in Bad : \A l \in Bad : k <= l
  BY <1>1, LeastNumber
<1>3. k \in 0 .. Len(s.waiting) /\ ~JoinTurns(join[k], s, q, match, ids, sp, k)
  BY <1>2
<1>4. k # 0
  <2>1. 0 \in 0 .. Len(s.waiting)
    BY <1>1
  <2>2. join[0] = s
    BY <2>1 DEF IsJoin
  <2>3. JoinTurns(s, s, q, match, ids, sp, 0)
    BY JoinStart
  <2> QED  BY <1>3, <2>2, <2>3
<1>5. /\ k - 1 \in 0 .. Len(s.waiting) /\ k - 1 \in Nat /\ ~(k <= k - 1)
      /\ k = (k - 1) + 1 /\ k \in 1 .. Len(s.waiting)
  BY <1>1, <1>3, <1>4
<1>6. JoinTurns(join[k - 1], s, q, match, ids, sp, k - 1)
  BY <1>2, <1>5
<1>7. join[k] = JoinReference(join[k - 1], match, k, where)
  BY <1>3, <1>4 DEF IsJoin
<1>8. JoinTurns(JoinReference(join[k - 1], match, k, where), s, q, match, ids, sp, k)
  BY <1>5, <1>6, JoinNext
<1> QED  BY <1>3, <1>7, <1>8

LEMMA SpecialJoinFields ==
  ASSUME NEW r \in MoveState, NEW match, NEW k, r.waiting[k] = r.at
  PROVE  LET n == JoinReference(r, match, k, "BEFORE")
         IN /\ n \in MoveState /\ n.at = r.at + 1 /\ n.q = r.q /\ n.m = r.m
            /\ n.ids = r.ids /\ n.refs = r.refs /\ n.ref = r.ref /\ n.waiting = r.waiting
<1>1. JoinReference(r, match, k, "BEFORE") = [r EXCEPT !.at = @ + 1]
  BY DEF JoinReference
<1>2. r.at + 1 \in Int
  BY DEF MoveState
<1> QED  BY <1>1, <1>2 DEF MoveState

LEMMA ReachedFields ==
  ASSUME NEW e \in MoveState
  PROVE  LET r == [e EXCEPT !.waiting = <<>>]
         IN /\ r \in MoveState /\ r.waiting = <<>> /\ r.at = e.at /\ r.q = e.q /\ r.m = e.m
            /\ r.ids = e.ids /\ r.refs = e.refs /\ r.ref = e.ref
<1>1. <<>> \in Seq(Nat)
  OBVIOUS
<1> QED  BY <1>1 DEF MoveState

LEMMA StartFields ==
  ASSUME NEW s \in MoveState, NEW i \in Int
  PROVE  LET r == [s EXCEPT !.at = i, !.shift = 0]
         IN /\ r \in MoveState /\ r.waiting = s.waiting /\ r.at = i /\ r.q = s.q /\ r.m = s.m
            /\ r.ids = s.ids /\ r.refs = s.refs /\ r.ref = s.ref /\ r.shift = 0
<1>1. 0 \in Int
  OBVIOUS
<1> DEFINE r == [s EXCEPT !.at = i, !.shift = 0]
<1>2. r \in MoveState
  BY <1>1 DEF MoveState
<1>3. /\ r.waiting = s.waiting /\ r.at = i /\ r.q = s.q /\ r.m = s.m
      /\ r.ids = s.ids /\ r.refs = s.refs /\ r.ref = s.ref /\ r.shift = 0
  BY DEF MoveState
<1> QED  BY <1>2, <1>3

\* What the loop keeps when it reaches the reference.
SameNames(r, s) == r.ids = s.ids /\ r.refs = s.refs /\ r.ref = s.ref

(***************************************************************************)
(* When the reference is met, at the index n, the downloads to move among  *)
(* the n first are all next to it, and the next ones will go after them.   *)
(***************************************************************************)
LEMMA ReferenceReachedStep ==
  ASSUME NEW q \in Seq(Downloads), NEW ids \in SUBSET Downloads, NEW match,
         NEW where \in {"BEFORE", "AFTER"},
         NEW n \in 1 .. Len(q), NEW i \in Nat, n = i + 1,
         NEW sp, sp = (IF where = "BEFORE" THEN i ELSE n),
         NEW s, Sound(s, q, match), s.q = q, Waits(s.waiting, q, n, ids)
  PROVE  /\ Reached(ReferenceReached(s, match, i, where), q, match, ids, sp, n, where)
         /\ SameNames(ReferenceReached(s, match, i, where), s)
<1>0. /\ Len(q) \in Nat /\ n \in Nat /\ 1 <= n /\ n <= Len(q) /\ i < n /\ 0 \in Nat
      /\ sp \in Nat /\ sp \in 0 .. Len(q) /\ sp <= n /\ n - 1 <= sp /\ i \in Int
      /\ n \in 0 .. Len(q) /\ sp \in 0 .. sp
  BY LenProperties
<1> DEFINE start == [s EXCEPT !.at = i, !.shift = 0]
           L == Len(s.waiting)
           a == Kept(q, 0, sp, Downloads \ ids)
           c == Kept(q, 0, sp, ids)
           d == SubSeq(q, sp + 1, Len(q))
<1>1. /\ start \in MoveState /\ start.waiting = s.waiting /\ start.at = i
      /\ start.q = q /\ start.m = s.m /\ SameNames(start, s) /\ start.shift = 0
  BY <1>0, StartFields DEF Sound, SameNames
<1> HIDE DEF start
<1>2. Sound(start, q, match)
  BY <1>1 DEF Sound
<1>3. JoinsAt(start, sp, where)
  BY <1>0, <1>1 DEF JoinsAt
<1>4. L \in Nat
  BY LenProperties DEF Waits
<1>5. PICK join : /\ IsJoin(start, match, where, L, join)
                  /\ ReferenceReached(s, match, i, where) = [join[L] EXCEPT !.waiting = <<>>]
  <2>1. PICK j : ReachedBy(s, match, i, where, j)
    BY <1>4, ReferenceReachedIs
  <2> QED  BY <2>1, Zenon DEF start, ReachedBy
<1>6. \A k \in 0 .. L : JoinTurns(join[k], start, q, match, ids, sp, k)
  BY <1>0, <1>1, <1>2, <1>3, <1>5, JoinAll, ZenonT(60)
<1>7. L = Len(Kept(q, 0, n, ids))
  BY DEF Waits
<1>8. SubSeq(q, sp + 1, sp) = <<>>
  BY <1>0, SubSeqEmpty
<1>9. c \in Seq(Downloads) /\ Len(c) \in Nat
  BY <1>0, KeptTyped
<1>r. ASSUME NEW l \in 0 .. L, Len(c) = l
      PROVE  /\ JoinTurn(join[l], start, q, match, ids, sp, l, sp)
             /\ Parts(join[l].q, a, c, <<>>, d) /\ Len(a) + Len(c) = sp
             /\ join[l] \in MoveState
  <2>1. JoinTurn(join[l], start, q, match, ids, sp, l, sp)
    BY <1>0, <1>6, <1>r DEF JoinTurns
  <2>2. Sound(join[l], q, match) /\ JoinedTo(join[l].q, q, ids, sp, sp)
    BY <2>1 DEF JoinTurn
  <2>3. Len(join[l].q) = Len(q) /\ join[l] \in MoveState
    BY <2>2 DEF Sound, SameDownloads
  <2>4. JoinedSizes(q, ids, sp, sp)
    BY <1>0, <2>2, <2>3, JoinedLengths
  <2>5. Parts(join[l].q, a, <<>>, c, d)
    BY <1>8, <2>2 DEF JoinedTo
  <2>6. Parts(join[l].q, a, c, <<>>, d)
    BY <2>5, PartsShift
  <2> QED  BY <2>1, <2>3, <2>4, <2>6 DEF JoinedSizes
<1> DEFINE e == join[L]
<1>e. SUFFICES /\ Sound(e, q, match) /\ SameNames(e, s)
               /\ Arranged(e.q, q, ids, sp, n) /\ e.at \in Nat
               /\ JoinsAt(e, Len(a) + Len(Kept(q, 0, n, ids)), where)
  <2> DEFINE r == [e EXCEPT !.waiting = <<>>]
  <2> HIDE DEF e
  <2>1. e \in MoveState
    BY <1>e DEF Sound
  <2>2. /\ r \in MoveState /\ r.waiting = <<>> /\ r.at = e.at /\ r.q = e.q /\ r.m = e.m
        /\ SameNames(r, e)
    BY <2>1, ReachedFields DEF SameNames
  <2>3. ReferenceReached(s, match, i, where) = r
    BY <1>5 DEF e
  <2> HIDE DEF r
  <2>4. Sound(r, q, match) /\ SameNames(r, s)
    BY <1>e, <2>2 DEF Sound, SameNames
  <2>5. JoinsAt(r, Len(a) + Len(Kept(q, 0, n, ids)), where)
    BY <1>e, <2>2 DEF JoinsAt
  <2> QED  BY <1>e, <2>2, <2>3, <2>4, <2>5 DEF Reached
<1> HIDE DEF e
<1>10. CASE where = "AFTER"
  <2>1. sp = n /\ L \in 0 .. L /\ Len(c) = L /\ c = Kept(q, 0, n, ids)
    BY <1>0, <1>4, <1>7, <1>10
  <2>2. /\ JoinTurn(e, start, q, match, ids, sp, L, sp)
        /\ Parts(e.q, a, c, <<>>, d) /\ Len(a) + Len(c) = sp
    BY <2>1, <1>r DEF e
  <2>3. Kept(q, sp, n, Downloads \ ids) = <<>>
    BY <1>0, <2>1, KeptNone
  <2>4. Arranged(e.q, q, ids, sp, n)
    BY <2>1, <2>2, <2>3 DEF Arranged
  <2>5. Sound(e, q, match) /\ e.at = i /\ SameNames(e, s)
    BY <1>1, <2>2 DEF JoinTurn, SameNames
  <2>6. JoinsAt(e, Len(a) + Len(Kept(q, 0, n, ids)), where)
    BY <1>0, <1>10, <2>1, <2>2, <2>5 DEF JoinsAt
  <2> QED  BY <2>4, <2>5, <2>6
<1>11. CASE where = "BEFORE"
  <2>1. /\ sp = i /\ sp \in 0 .. Len(q) /\ n = sp + 1 /\ n \in 1 .. Len(q)
        /\ Len(q) \in sp + 1 .. Len(q)
    BY <1>0, <1>11
  <2> DEFINE t == SubSeq(q, n + 1, Len(q))
  <2>2. IsTail(t, d) /\ d[1] = q[n] /\ q[n] \in Downloads
    BY <1>0, <2>1, RestNext
  <2>3. /\ IsLonger(Kept(q, 0, n, ids), c, q[n], ids)
        /\ IsLonger(Kept(q, sp, n, Downloads \ ids), Kept(q, sp, sp, Downloads \ ids), q[n],
                    Downloads \ ids)
    <3>1. sp \in 0 .. Len(q) /\ sp \in sp .. Len(q) /\ sp \in Nat
      BY <1>0
    <3> QED  BY <2>1, <3>1, <1>0, KeptNext
  <2>4. Kept(q, sp, sp, Downloads \ ids) = <<>>
    BY <1>0, KeptNone
  <2>5. CASE q[n] \notin ids
    <3>1. Kept(q, 0, n, ids) = c /\ Kept(q, sp, n, Downloads \ ids) = Append(<<>>, q[n])
      BY <2>2, <2>3, <2>4, <2>5 DEF IsLonger
    <3>2. L \in 0 .. L /\ Len(c) = L
      BY <1>4, <1>7, <3>1
    <3>3. /\ JoinTurn(e, start, q, match, ids, sp, L, sp)
          /\ Parts(e.q, a, c, <<>>, d) /\ Len(a) + Len(c) = sp
      BY <3>2, <1>r DEF e
    <3>4. Parts(e.q, a, c, Append(<<>>, d[1]), t)
      BY <2>2, <3>3, PartsStay
    <3>5. Arranged(e.q, q, ids, sp, n)
      BY <2>2, <3>1, <3>4 DEF Arranged
    <3>6. Sound(e, q, match) /\ e.at = i /\ SameNames(e, s)
      BY <1>1, <3>3 DEF JoinTurn, SameNames
    <3>7. JoinsAt(e, Len(a) + Len(Kept(q, 0, n, ids)), where)
      BY <1>0, <1>11, <2>1, <3>1, <3>3, <3>6 DEF JoinsAt
    <3> QED  BY <3>5, <3>6, <3>7
  <2>6. CASE q[n] \in ids
    <3>1. Kept(q, 0, n, ids) = Append(c, q[n]) /\ Kept(q, sp, n, Downloads \ ids) = <<>>
      BY <2>3, <2>4, <2>6 DEF IsLonger
    <3>2. L = Len(c) + 1
      BY <1>7, <1>9, <2>2, <3>1, AppendElements
    <3> DEFINE l == L - 1
               u == s.waiting[L]
    <3>3. l \in 0 .. L /\ Len(c) = l /\ L \in 1 .. L /\ L # 0
      BY <1>4, <1>9, <3>2
    <3>4. u \in 0 .. n - 1 /\ q[u + 1] \in ids /\ Len(Kept(q, 0, u, ids)) = L - 1
      BY <3>3, Zenon DEF Waits
    <3> HIDE DEF u, l
    <3>5. u = sp
      <4> SUFFICES ASSUME u < sp PROVE FALSE
        BY <1>0, <2>1, <3>4
      <4> DEFINE w == u + 1
      <4>w. w = u + 1
        OBVIOUS
      <4>1. /\ u \in Nat /\ w \in 1 .. Len(q) /\ u \in 0 .. Len(q) /\ w \in 0 .. Len(q)
            /\ sp \in w .. Len(q) /\ q[w] \in Downloads
        BY <1>0, <2>1, <3>4, LenProperties
      <4>2. q[w] \in ids
        BY <3>4
      <4> HIDE DEF w
      <4>3. IsLonger(Kept(q, 0, w, ids), Kept(q, 0, u, ids), q[w], ids)
        BY <1>0, <4>w, <4>1, KeptNext
      <4>4. Kept(q, 0, u, ids) \in Seq(Downloads)
        BY <1>0, <4>1, KeptTyped
      <4>5. Len(Kept(q, 0, w, ids)) = Len(Kept(q, 0, u, ids)) + 1
        BY <4>1, <4>2, <4>3, <4>4, AppendElements DEF IsLonger
      <4>6. Len(Kept(q, 0, w, ids)) <= Len(c)
        BY <4>1, KeptGrows
      <4> QED  BY <1>4, <1>9, <3>2, <3>4, <4>5, <4>6
    <3>6. /\ JoinTurn(join[l], start, q, match, ids, sp, l, sp)
          /\ Parts(join[l].q, a, c, <<>>, d) /\ Len(a) + Len(c) = sp
          /\ join[l] \in MoveState
      BY <3>3, <1>r
    <3>7. e = JoinReference(join[l], match, L, "BEFORE")
      <4>1. L \in 0 .. L
        BY <1>4
      <4> QED  BY <1>5, <1>11, <3>3, <4>1 DEF IsJoin, e, l
    <3> DEFINE p == join[l]
    <3>8. Sound(p, q, match) /\ SameNames(p, start) /\ p.at = start.at /\ p.waiting = start.waiting
      BY <3>6 DEF JoinTurn, SameNames
    <3>9. p.waiting[L] = p.at
      BY <1>1, <2>1, <3>5, <3>8 DEF u
    <3>p. p \in MoveState /\ e = JoinReference(p, match, L, "BEFORE")
          /\ Parts(p.q, a, c, <<>>, d)
      BY <3>6, <3>7
    <3> HIDE DEF p
    <3>10. /\ e \in MoveState /\ e.at = p.at + 1 /\ e.q = p.q /\ e.m = p.m /\ SameNames(e, p)
      BY <3>p, <3>9, SpecialJoinFields DEF SameNames
    <3>11. Sound(e, q, match) /\ SameNames(e, s) /\ e.at = i + 1
      BY <1>1, <3>8, <3>10 DEF Sound, SameNames
    <3>12. Arranged(e.q, q, ids, sp, n)
      <4>1. Parts(e.q, a, c, <<>>, d)
        BY <3>p, <3>10
      <4>2. Parts(e.q, a, Append(c, d[1]), <<>>, t)
        BY <2>2, <4>1, PartsGrow
      <4> QED  BY <2>2, <3>1, <4>2 DEF Arranged
    <3>13. JoinsAt(e, Len(a) + Len(Kept(q, 0, n, ids)), where)
      BY <1>0, <1>7, <1>11, <2>1, <3>2, <3>6, <3>11 DEF JoinsAt
    <3> QED  BY <1>0, <3>11, <3>12, <3>13
  <2> QED  BY <2>5, <2>6
<1> QED  BY <1>10, <1>11

-----------------------------------------------------------------------------
(* One turn of the loop.                                                   *)

LEMMA WaitsNext ==
  ASSUME NEW q \in Seq(Downloads), NEW ids \in SUBSET Downloads,
         NEW n \in Nat, NEW w \in 1 .. Len(q), w = n + 1,
         NEW waiting, Waits(waiting, q, n, ids)
  PROVE  Waits(IF q[w] \in ids THEN Append(waiting, n) ELSE waiting, q, w, ids)
<1>1. Len(q) \in Nat /\ n \in 0 .. Len(q) /\ 0 \in Nat /\ q[w] \in Downloads /\ w \in Nat
  BY LenProperties
<1>2. IsLonger(Kept(q, 0, w, ids), Kept(q, 0, n, ids), q[w], ids)
  BY <1>1, KeptNext
<1>3. Kept(q, 0, n, ids) \in Seq(Downloads) /\ Len(Kept(q, 0, n, ids)) \in Nat
  BY <1>1, KeptTyped
<1>4. /\ waiting \in Seq(Nat) /\ Len(waiting) = Len(Kept(q, 0, n, ids))
      /\ \A k \in 1 .. Len(waiting) :
           /\ waiting[k] \in 0 .. n - 1 /\ q[waiting[k] + 1] \in ids
           /\ Len(Kept(q, 0, waiting[k], ids)) = k - 1
  BY DEF Waits
<1>5. CASE q[w] \notin ids
  <2>1. Kept(q, 0, w, ids) = Kept(q, 0, n, ids)
    BY <1>2, <1>5 DEF IsLonger
  <2>2. \A k \in 1 .. Len(waiting) : waiting[k] \in 0 .. w - 1
    BY <1>1, <1>4
  <2> QED  BY <1>4, <1>5, <2>1, <2>2, Zenon DEF Waits
<1>6. CASE q[w] \in ids
  <2> DEFINE long == Append(waiting, n)
  <2>1. Len(Kept(q, 0, w, ids)) = Len(Kept(q, 0, n, ids)) + 1
    BY <1>1, <1>2, <1>3, <1>6, AppendElements DEF IsLonger
  <2>2. /\ long \in Seq(Nat) /\ Len(long) = Len(waiting) + 1
        /\ \A k \in 1 .. Len(waiting) : long[k] = waiting[k]
        /\ long[Len(waiting) + 1] = n
    BY <1>4, AppendProperties
  <2> HIDE DEF long
  <2>3. ASSUME NEW k \in 1 .. Len(long)
        PROVE  /\ long[k] \in 0 .. w - 1 /\ q[long[k] + 1] \in ids
               /\ Len(Kept(q, 0, long[k], ids)) = k - 1
    <3>1. CASE k \in 1 .. Len(waiting)
      <4>1. long[k] = waiting[k] /\ waiting[k] \in 0 .. n - 1
        BY <1>4, <2>2, <3>1
      <4>2. q[waiting[k] + 1] \in ids /\ Len(Kept(q, 0, waiting[k], ids)) = k - 1
        BY <1>4, <3>1, Zenon
      <4>3. waiting[k] \in 0 .. w - 1
        BY <1>1, <4>1
      <4> QED  BY <4>1, <4>2, <4>3
    <3>2. CASE k = Len(waiting) + 1
      <4>1. long[k] = n /\ n \in 0 .. w - 1 /\ n + 1 = w /\ k - 1 = Len(waiting)
        BY <1>1, <1>3, <1>4, <2>2, <3>2
      <4> QED  BY <1>4, <1>6, <4>1
    <3> QED  BY <1>3, <1>4, <2>2, <3>1, <3>2
  <2>4. Waits(long, q, w, ids)
    BY <1>4, <2>1, <2>2, <2>3 DEF Waits
  <2> QED  BY <1>6, <2>4 DEF long
<1> QED  BY <1>5, <1>6

LEMMA ArrangedLengths ==
  ASSUME NEW q \in Seq(Downloads), NEW ids, NEW sp, NEW n \in 0 .. Len(q),
         NEW r, Arranged(r, q, ids, sp, n), Len(r) = Len(q)
  PROVE  /\ Len(Kept(q, 0, sp, Downloads \ ids)) + Len(Kept(q, 0, n, ids))
              + Len(Kept(q, sp, n, Downloads \ ids)) = n
         /\ Len(Kept(q, 0, sp, Downloads \ ids)) \in Nat /\ Len(Kept(q, 0, n, ids)) \in Nat
         /\ Len(Kept(q, sp, n, Downloads \ ids)) \in Nat
<1> DEFINE a == Kept(q, 0, sp, Downloads \ ids)
           b == Kept(q, 0, n, ids)
           c == Kept(q, sp, n, Downloads \ ids)
           d == SubSeq(q, n + 1, Len(q))
<1>1. Len(q) \in Nat /\ n \in Nat /\ n <= Len(q) /\ Len(q) \in n .. Len(q)
  BY LenProperties
<1>2. Len(d) = Len(q) - n
  BY <1>1, RestFacts
<1>3. Parts(r, a, b, c, d)
  BY DEF Arranged
<1> HIDE DEF a, b, c, d
<1>4. Len(a) \in Nat /\ Len(b) \in Nat /\ Len(c) \in Nat
  BY <1>3, PartsLengths
<1>5. Len(r) = Len(a) + Len(b) + Len(c) + Len(d)
  BY <1>3 DEF Parts
<1>6. Len(a) + Len(b) + Len(c) = n
  BY <1>1, <1>2, <1>4, <1>5
<1> QED  BY <1>4, <1>6 DEF a, b, c

LEMMA MoveToFields ==
  ASSUME NEW e \in MoveState
  PROVE  LET r == [e EXCEPT !.at = @ + 1]
         IN /\ r \in MoveState /\ r.waiting = e.waiting /\ r.at = e.at + 1 /\ r.q = e.q
            /\ r.m = e.m /\ r.ids = e.ids /\ r.refs = e.refs /\ r.ref = e.ref
<1>1. e.at + 1 \in Int
  BY DEF MoveState
<1> QED  BY <1>1 DEF MoveState

(***************************************************************************)
(* Once the reference is met, a download to move goes next to it and the   *)
(* others stay where they are.                                             *)
(***************************************************************************)
LEMMA MetStep ==
  ASSUME NEW q \in Seq(Downloads), NEW ids \in SUBSET Downloads, NEW match,
         NEW where \in {"BEFORE", "AFTER"},
         NEW sp \in Nat, NEW n \in sp .. Len(q), NEW w \in 1 .. Len(q), w = n + 1,
         NEW s, Reached(s, q, match, ids, sp, n, where),
         q[w] \in s.ids <=> q[w] \in ids, s.ref # NoDir, s.ref # q[w]
  PROVE  /\ Reached(MoveTurn(s, match, n, where), q, match, ids, sp, w, where)
         /\ SameNames(MoveTurn(s, match, n, where), s)
<1> DEFINE a == Kept(q, 0, sp, Downloads \ ids)
           b == Kept(q, 0, n, ids)
           c == Kept(q, sp, n, Downloads \ ids)
           d == SubSeq(q, n + 1, Len(q))
           t == SubSeq(q, w + 1, Len(q))
           x == q[w]
<1>1. /\ Len(q) \in Nat /\ n \in Nat /\ n <= Len(q) /\ Len(q) \in n + 1 .. Len(q)
      /\ 0 \in Nat /\ n \in 0 .. Len(q) /\ sp \in 0 .. Len(q)
  BY LenProperties
<1>2. /\ Sound(s, q, match) /\ Parts(s.q, a, b, c, d) /\ s.waiting = <<>> /\ s.at \in Nat
      /\ JoinsAt(s, Len(a) + Len(b), where)
      /\ s \in MoveState /\ Len(s.q) = Len(q)
  BY DEF Reached, Arranged, Sound, SameDownloads
<1>3. /\ Len(a) + Len(b) + Len(c) = n
      /\ Len(a) \in Nat /\ Len(b) \in Nat /\ Len(c) \in Nat
  <2>1. Arranged(s.q, q, ids, sp, n) /\ Len(s.q) = Len(q)
    BY <1>2 DEF Reached
  <2> QED  BY <1>1, <2>1, ArrangedLengths
<1>4. IsTail(t, d) /\ d[1] = x /\ x \in Downloads
  BY <1>1, RestNext, ZenonT(60)
<1>5. /\ IsLonger(Kept(q, 0, w, ids), b, x, ids)
      /\ IsLonger(Kept(q, sp, w, Downloads \ ids), c, x, Downloads \ ids)
  BY <1>1, KeptNext
<1>6. s.q[n + 1] = x
  <2>1. 1 \in 1 .. Len(d) /\ Len(a) + Len(b) + Len(c) + 1 = n + 1
    <3>1. Len(d) = Len(q) - n
      BY <1>1, RestFacts
    <3> QED  BY <1>1, <1>3, <3>1
  <2> HIDE DEF a, b, c, d, x
  <2> QED  BY <1>2, <1>4, <2>1 DEF Parts
<1> HIDE DEF a, b, c, d, t
<1>7. CASE x \in ids
  <2> DEFINE to == Len(a) + Len(b)
             e == MoveOne(s, match, s.q[w], to, w)
             r == [e EXCEPT !.at = @ + 1]
  <2>1. MoveTurn(s, match, n, where) = MoveToReference(s, match, x, n, where)
    BY <1>2, <1>6, <1>7 DEF MoveTurn
  <2>2. (IF where = "BEFORE" THEN s.at ELSE s.at + 1) = to
    BY <1>2, <1>3 DEF JoinsAt
  <2>3. MoveToReference(s, match, x, n, where) = r
    BY <1>6, <2>2 DEF MoveToReference
  <2>4. to \in Nat /\ w \in to + 1 .. Len(s.q)
    BY <1>1, <1>2, <1>3
  <2>5. Sound(e, q, match) /\ SameLoop(e, s) /\ IsForward(Downloads, s.q, to, w, e.q)
    BY <1>2, <2>4, MoveForward
  <2>6. Parts(e.q, a, Append(b, d[1]), c, t)
    <3>1. w = Len(a) + Len(b) + Len(c) + 1
      BY <1>3
    <3> QED  BY <1>2, <1>4, <2>5, <3>1, PartsForward
  <2> HIDE DEF e
  <2>7. e \in MoveState
    BY <2>5 DEF Sound
  <2>8. /\ r \in MoveState /\ r.waiting = e.waiting /\ r.at = e.at + 1 /\ r.q = e.q
        /\ r.m = e.m /\ SameNames(r, e)
    BY <2>7, MoveToFields DEF SameNames
  <2> HIDE DEF r
  <2>9. Kept(q, 0, w, ids) = Append(b, x) /\ Kept(q, sp, w, Downloads \ ids) = c
    BY <1>5, <1>7 DEF IsLonger
  <2>10. Arranged(r.q, q, ids, sp, w)
    BY <1>4, <2>6, <2>8, <2>9 DEF Arranged, a, t
  <2>11. Len(Append(b, x)) = Len(b) + 1
    <3>1. b \in Seq(Downloads)
      BY <1>2 DEF Parts
    <3> QED  BY <1>4, <3>1, AppendElements
  <2>12. JoinsAt(r, Len(a) + Len(Kept(q, 0, w, ids)), where)
    BY <1>2, <1>3, <2>5, <2>8, <2>9, <2>11 DEF JoinsAt, SameLoop
  <2>13. Sound(r, q, match) /\ SameNames(r, s) /\ r.waiting = <<>> /\ r.at \in Nat
    BY <1>2, <2>5, <2>8 DEF Sound, SameLoop, SameNames
  <2>14. Reached(r, q, match, ids, sp, w, where)
    BY <2>10, <2>12, <2>13 DEF Reached, a
  <2> QED  BY <2>1, <2>3, <2>13, <2>14
<1>8. CASE x \notin ids
  <2>1. MoveTurn(s, match, n, where) = s
    BY <1>6, <1>8 DEF MoveTurn, ChooseReference
  <2>2. Kept(q, 0, w, ids) = b /\ Kept(q, sp, w, Downloads \ ids) = Append(c, x)
    BY <1>4, <1>5, <1>8 DEF IsLonger
  <2>3. Parts(s.q, a, b, Append(c, d[1]), t)
    BY <1>2, <1>4, PartsStay
  <2>4. Arranged(s.q, q, ids, sp, w)
    BY <1>4, <2>2, <2>3 DEF Arranged, a, t
  <2>5. Reached(s, q, match, ids, sp, w, where)
    BY <1>2, <2>2, <2>4 DEF Reached, a
  <2> QED  BY <2>1, <2>5 DEF SameNames
<1> QED  BY <1>7, <1>8

\* The downloads to move among those the loop has still to meet.
IdsAhead(s, q, n, ids) ==
  \A i \in 1 .. Len(q) : i > n => (q[i] \in s.ids <=> q[i] \in ids)

\* The reference is not met: none of several is, or one at least is missing.
Unmet(s, q, refs, where, n) ==
  IF Cardinality(refs) = 1
  THEN refs = {s.ref} /\ \A i \in 1 .. Len(q) : i <= n => q[i] \notin refs
  ELSE /\ s.ref = NoDir /\ s.refs # {}
       /\ IF where = "BEFORE"
          THEN s.refs = refs /\ \A i \in 1 .. Len(q) : i <= n => q[i] \notin refs
          ELSE s.refs = {x \in refs : \A i \in 1 .. Len(q) : i <= n => q[i] # x}

Waiting(s, q, match, ids, refs, where, n) ==
  /\ Sound(s, q, match) /\ s.q = q /\ s.at = -1
  /\ Waits(s.waiting, q, n, ids) /\ IdsAhead(s, q, n, ids) /\ Unmet(s, q, refs, where, n)

\* The place of the reference: before the first, after the last of them.
Split(q, refs, where, sp) ==
  IF where = "BEFORE"
  THEN sp + 1 \in 1 .. Len(q) /\ q[sp + 1] \in refs /\ \A i \in 1 .. sp : q[i] \notin refs
  ELSE /\ sp \in 1 .. Len(q) /\ q[sp] \in refs
       /\ \A x \in refs : \E i \in 1 .. sp : q[i] = x

Met(s, q, match, ids, refs, where, n) ==
  \E sp \in 0 .. n :
    /\ Split(q, refs, where, sp) /\ Reached(s, q, match, ids, sp, n, where)
    /\ IdsAhead(s, q, n, ids) /\ s.ref # NoDir
    /\ \A i \in 1 .. Len(q) : i > n => q[i] # s.ref

LEMMA MetTurn ==
  ASSUME NEW q \in Seq(Downloads), NEW ids \in SUBSET Downloads, NEW match,
         NEW refs \in SUBSET Downloads, NEW where \in {"BEFORE", "AFTER"},
         NEW n \in Nat, NEW w \in 1 .. Len(q), w = n + 1,
         NEW s, Met(s, q, match, ids, refs, where, n)
  PROVE  Met(MoveTurn(s, match, n, where), q, match, ids, refs, where, w)
<1> DEFINE r == MoveTurn(s, match, n, where)
<1>1. Len(q) \in Nat /\ w > n /\ w \in Nat /\ n <= Len(q)
  BY LenProperties
<1>2. PICK sp \in 0 .. n :
        /\ Split(q, refs, where, sp) /\ Reached(s, q, match, ids, sp, n, where)
        /\ IdsAhead(s, q, n, ids) /\ s.ref # NoDir
        /\ \A i \in 1 .. Len(q) : i > n => q[i] # s.ref
  BY DEF Met
<1>3. (q[w] \in s.ids <=> q[w] \in ids) /\ s.ref # q[w]
  BY <1>1, <1>2 DEF IdsAhead
<1>4. sp \in Nat /\ n \in sp .. Len(q) /\ sp \in 0 .. w
  BY <1>1
<1>5. Reached(r, q, match, ids, sp, w, where) /\ SameNames(r, s)
  BY <1>2, <1>3, <1>4, MetStep
<1> HIDE DEF r
<1>6. IdsAhead(r, q, w, ids)
  BY <1>1, <1>2, <1>5 DEF IdsAhead, SameNames
<1>7. r.ref # NoDir /\ \A i \in 1 .. Len(q) : i > w => q[i] # r.ref
  BY <1>1, <1>2, <1>5 DEF SameNames
<1>8. Met(r, q, match, ids, refs, where, w)
  BY <1>2, <1>4, <1>5, <1>6, <1>7 DEF Met
<1> QED  BY <1>8 DEF r

HasWaited(r, s, n, d) ==
  /\ r \in MoveState /\ r.q = s.q /\ r.m = s.m /\ r.at = s.at
  /\ r.refs = s.refs /\ r.ref = s.ref
  /\ r.waiting = Append(s.waiting, n) /\ r.ids = s.ids \ {d}

LEMMA WaitFields ==
  ASSUME NEW s \in MoveState, NEW n \in Nat, NEW d
  PROVE  HasWaited([s EXCEPT !.waiting = Append(@, n), !.ids = @ \ {d}], s, n, d)
<1>1. Append(s.waiting, n) \in Seq(Nat) /\ s.ids \ {d} \in SUBSET Downloads
  BY AppendProperties DEF MoveState
<1> QED  BY <1>1 DEF MoveState, HasWaited

HasChosen(r, s, d, where) ==
  /\ r \in MoveState /\ r.q = s.q /\ r.m = s.m /\ r.at = s.at
  /\ r.waiting = s.waiting /\ r.ids = s.ids
  /\ r.ref = IF s.ref = NoDir /\ d \in s.refs
                  /\ (where = "BEFORE" \/ s.refs = {d}) THEN d ELSE s.ref
  /\ r.refs = IF s.ref = NoDir /\ d \in s.refs
                   /\ ~(where = "BEFORE" \/ s.refs = {d})
              THEN s.refs \ {d} ELSE s.refs

LEMMA ChooseFields ==
  ASSUME NEW s \in MoveState, NEW d \in Downloads, NEW where
  PROVE  HasChosen(ChooseReference(s, d, where), s, d, where)
<1> DEFINE chosen == [s EXCEPT !.ref = d]
           less == [s EXCEPT !.refs = @ \ {d}]
<1>1. /\ chosen \in MoveState /\ chosen.q = s.q /\ chosen.m = s.m /\ chosen.at = s.at
      /\ chosen.waiting = s.waiting /\ chosen.ids = s.ids
      /\ chosen.ref = d /\ chosen.refs = s.refs
  BY DEF MoveState
<1>2. /\ less \in MoveState /\ less.q = s.q /\ less.m = s.m /\ less.at = s.at
      /\ less.waiting = s.waiting /\ less.ids = s.ids
      /\ less.ref = s.ref /\ less.refs = s.refs \ {d}
  BY DEF MoveState
<1>3. ChooseReference(s, d, where)
        = IF s.ref # NoDir \/ d \notin s.refs THEN s
          ELSE IF where = "BEFORE" \/ s.refs = {d} THEN chosen ELSE less
  BY DEF ChooseReference
<1> HIDE DEF chosen, less
<1>4. CASE s.ref # NoDir \/ d \notin s.refs
  BY <1>3, <1>4 DEF HasChosen
<1>5. CASE s.ref = NoDir /\ d \in s.refs /\ (where = "BEFORE" \/ s.refs = {d})
  BY <1>1, <1>3, <1>5 DEF HasChosen
<1>6. CASE s.ref = NoDir /\ d \in s.refs /\ ~(where = "BEFORE" \/ s.refs = {d})
  BY <1>2, <1>3, <1>6 DEF HasChosen
<1> QED  BY <1>4, <1>5, <1>6

LEMMA WaitingTurn ==
  ASSUME NEW q \in Seq(Downloads), NoRepeat(q), NEW ids \in SUBSET Downloads, NEW match,
         NEW refs \in SUBSET Downloads, NEW where \in {"BEFORE", "AFTER"},
         NEW n \in Nat, NEW w \in 1 .. Len(q), w = n + 1,
         NEW s, Waiting(s, q, match, ids, refs, where, n)
  PROVE  \/ Waiting(MoveTurn(s, match, n, where), q, match, ids, refs, where, w)
         \/ Met(MoveTurn(s, match, n, where), q, match, ids, refs, where, w)
<1> DEFINE x == q[w]
           u == IF x \in s.ids THEN [s EXCEPT !.waiting = Append(@, n), !.ids = @ \ {x}] ELSE s
           c == ChooseReference(u, x, where)
           r == MoveTurn(s, match, n, where)
<1>1. /\ Len(q) \in Nat /\ n < w /\ w \in Nat /\ n <= Len(q) /\ x \in Downloads
      /\ DOMAIN q = 1 .. Len(q) /\ \A i \in 1 .. Len(q) : i <= w <=> i <= n \/ i = w
      /\ \A i \in 1 .. Len(q) : i > w => i > n
  BY LenProperties
<1>2. NoDir \notin Downloads
  BY QueueAssumption
<1>3. /\ s \in MoveState /\ SameDownloads(s.q, q) /\ Fine(s.q, s.m, match)
      /\ s.q = q /\ s.at = -1 /\ Waits(s.waiting, q, n, ids)
      /\ IdsAhead(s, q, n, ids) /\ Unmet(s, q, refs, where, n)
  BY DEF Waiting, Sound
<1>4. x \in s.ids <=> x \in ids
  BY <1>1, <1>3 DEF IdsAhead
<1>5. \A i \in 1 .. Len(q) : i > w => q[i] # x
  BY <1>1 DEF NoRepeat
<1>6. r = IF x = c.ref THEN ReferenceReached(c, match, n, where) ELSE c
  <2>1. s.q[n + 1] = x /\ ~(x \in s.ids /\ s.at # -1)
    BY <1>3
  <2> QED  BY <2>1 DEF MoveTurn
<1> HIDE DEF r
<1>7. /\ u \in MoveState /\ u.q = q /\ u.m = s.m /\ u.at = -1
      /\ u.refs = s.refs /\ u.ref = s.ref
      /\ u.waiting = IF x \in ids THEN Append(s.waiting, n) ELSE s.waiting
      /\ \A y \in Downloads : y # x => (y \in u.ids <=> y \in s.ids)
  <2>1. CASE x \in s.ids
    <3> DEFINE e == [s EXCEPT !.waiting = Append(@, n), !.ids = @ \ {x}]
    <3>1. HasWaited(e, s, n, x)
      BY <1>3, WaitFields
    <3>2. u = e
      BY <2>1
    <3> HIDE DEF e, u
    <3> QED  BY <1>3, <1>4, <2>1, <3>1, <3>2 DEF HasWaited
  <2>2. CASE x \notin s.ids
    BY <1>3, <1>4, <2>2
  <2> QED  BY <2>1, <2>2
<1> HIDE DEF u
<1>8. /\ c \in MoveState /\ c.q = q /\ c.m = s.m /\ c.at = -1
      /\ c.waiting = (IF x \in ids THEN Append(s.waiting, n) ELSE s.waiting) /\ c.ids = u.ids
      /\ c.ref = IF s.ref = NoDir /\ x \in s.refs
                      /\ (where = "BEFORE" \/ s.refs = {x}) THEN x ELSE s.ref
      /\ c.refs = IF s.ref = NoDir /\ x \in s.refs
                       /\ ~(where = "BEFORE" \/ s.refs = {x})
                  THEN s.refs \ {x} ELSE s.refs
  <2>1. HasChosen(c, u, x, where)
    BY <1>1, <1>7, ChooseFields
  <2> HIDE DEF c
  <2> QED  BY <1>7, <2>1 DEF HasChosen
<1> HIDE DEF c
<1>9. Sound(c, q, match)
  BY <1>3, <1>8 DEF Sound
<1>10. Waits(c.waiting, q, w, ids)
  <2>1. Waits(IF x \in ids THEN Append(s.waiting, n) ELSE s.waiting, q, w, ids)
    BY <1>3, WaitsNext
  <2> QED  BY <1>8, <2>1, Zenon
<1>11. IdsAhead(c, q, w, ids)
  <2> SUFFICES ASSUME NEW i \in 1 .. Len(q), i > w
               PROVE  q[i] \in c.ids <=> q[i] \in ids
    BY DEF IdsAhead
  <2>1. q[i] \in Downloads /\ i > n /\ q[i] # x
    BY <1>1, <1>5, LenProperties
  <2>2. q[i] \in s.ids <=> q[i] \in ids
    BY <1>3, <2>1 DEF IdsAhead
  <2> QED  BY <1>7, <1>8, <2>1, <2>2
<1> HIDE DEF x
<1>x. x = q[w]
  BY DEF x
<1>12. CASE x = c.ref
  <2> DEFINE sp == IF where = "BEFORE" THEN n ELSE w
  <2>1. /\ Reached(r, q, match, ids, sp, w, where) /\ SameNames(r, c)
    BY <1>6, <1>8, <1>9, <1>10, <1>12, ReferenceReachedStep, ZenonT(60)
  <2>2. Split(q, refs, where, sp)
    <3>1. CASE Cardinality(refs) = 1
      <4>1. refs = {s.ref} /\ \A i \in 1 .. Len(q) : i <= n => q[i] \notin refs
        BY <1>3, <3>1 DEF Unmet
      <4>2. s.ref # NoDir /\ x = s.ref /\ x \in refs
        BY <1>2, <1>8, <1>12, <4>1
      <4>3. CASE where = "BEFORE"
        <5>1. \A i \in 1 .. n : i \in 1 .. Len(q) /\ i <= n
          BY <1>1
        <5> QED  BY <1>x, <4>1, <4>2, <4>3, <5>1 DEF Split
      <4>4. CASE where = "AFTER"
        <5>1. w \in 1 .. w
          BY <1>1
        <5> QED  BY <1>x, <4>1, <4>2, <4>4, <5>1 DEF Split
      <4> QED  BY <4>3, <4>4
    <3>2. CASE Cardinality(refs) # 1
      <4>1. /\ s.ref = NoDir
            /\ IF where = "BEFORE"
               THEN s.refs = refs /\ \A i \in 1 .. Len(q) : i <= n => q[i] \notin refs
               ELSE s.refs = {y \in refs : \A i \in 1 .. Len(q) : i <= n => q[i] # y}
        BY <1>3, <3>2 DEF Unmet
      <4>2. x \in s.refs /\ (where = "BEFORE" \/ s.refs = {x})
        BY <1>1, <1>2, <1>8, <1>12, <4>1
      <4>3. CASE where = "BEFORE"
        <5>1. \A i \in 1 .. n : i \in 1 .. Len(q) /\ i <= n
          BY <1>1
        <5> QED  BY <1>x, <4>1, <4>2, <4>3, <5>1 DEF Split
      <4>4. CASE where = "AFTER"
        <5>1. s.refs = {x} /\ x \in refs
          BY <4>1, <4>2, <4>4
        <5>2. ASSUME NEW y \in refs PROVE \E i \in 1 .. w : q[i] = y
          <6>1. CASE y = x
            <7>1. w \in 1 .. w
              BY <1>1
            <7> QED  BY <1>x, <6>1, <7>1
          <6>2. CASE y # x
            <7>1. PICK i \in 1 .. Len(q) : i <= n /\ q[i] = y
              BY <4>1, <4>4, <5>1, <6>2
            <7>2. i \in 1 .. w
              BY <1>1, <7>1
            <7> QED  BY <7>1, <7>2
          <6> QED  BY <6>1, <6>2
        <5> QED  BY <1>x, <4>4, <5>1, <5>2 DEF Split
      <4> QED  BY <4>3, <4>4
    <3> QED  BY <3>1, <3>2
  <2>3. sp \in 0 .. w
    BY <1>1
  <2> HIDE DEF sp
  <2>4. IdsAhead(r, q, w, ids)
    BY <1>11, <2>1 DEF IdsAhead, SameNames
  <2>5. r.ref # NoDir /\ \A i \in 1 .. Len(q) : i > w => q[i] # r.ref
    BY <1>1, <1>2, <1>5, <1>12, <2>1 DEF SameNames, x
  <2>6. Met(r, q, match, ids, refs, where, w)
    BY <2>1, <2>2, <2>3, <2>4, <2>5 DEF Met
  <2> QED  BY <2>6 DEF r
<1>13. CASE x # c.ref
  <2>1. r = c
    BY <1>6, <1>13
  <2>2. Unmet(c, q, refs, where, w)
    <3>1. CASE Cardinality(refs) = 1
      <4>1. refs = {s.ref} /\ \A i \in 1 .. Len(q) : i <= n => q[i] \notin refs
        BY <1>3, <3>1 DEF Unmet
      <4>2. s.ref # NoDir /\ c.ref = s.ref
        BY <1>2, <1>8, <4>1
      <4>3. \A i \in 1 .. Len(q) : i <= w => q[i] \notin refs
        BY <1>1, <1>x, <1>13, <4>1, <4>2
      <4> QED  BY <3>1, <4>1, <4>2, <4>3 DEF Unmet
    <3>2. CASE Cardinality(refs) # 1
      <4>1. /\ s.ref = NoDir /\ s.refs # {}
            /\ IF where = "BEFORE"
               THEN s.refs = refs /\ \A i \in 1 .. Len(q) : i <= n => q[i] \notin refs
               ELSE s.refs = {y \in refs : \A i \in 1 .. Len(q) : i <= n => q[i] # y}
        BY <1>3, <3>2 DEF Unmet
      <4>2. ~(x \in s.refs /\ (where = "BEFORE" \/ s.refs = {x})) /\ c.ref = NoDir
        BY <1>8, <1>13, <4>1
      <4>3. CASE where = "BEFORE"
        <5>1. x \notin refs /\ c.refs = refs
          BY <1>8, <4>1, <4>2, <4>3
        <5>2. \A i \in 1 .. Len(q) : i <= w => q[i] \notin refs
          BY <1>1, <1>x, <4>1, <4>3, <5>1
        <5> QED  BY <3>2, <4>1, <4>2, <4>3, <5>1, <5>2 DEF Unmet
      <4>4. CASE where = "AFTER"
        <5>1. c.refs = s.refs \ {x}
          BY <1>8, <4>1, <4>2, <4>4
        <5>2. c.refs # {}
          BY <4>1, <4>2, <4>4, <5>1
        <5>3. s.refs = {y \in refs : \A i \in 1 .. Len(q) : i <= n => q[i] # y}
          BY <4>1, <4>4
        <5>4. c.refs = {y \in refs : \A i \in 1 .. Len(q) : i <= w => q[i] # y}
          <6>1. ASSUME NEW y PROVE y \in c.refs <=> y \in refs /\ \A i \in 1 .. Len(q) : i <= w => q[i] # y
            BY <1>1, <1>x, <5>1, <5>3
          <6> QED  BY <6>1
        <5> QED  BY <3>2, <4>2, <4>4, <5>2, <5>4 DEF Unmet
      <4> QED  BY <4>3, <4>4
    <3> QED  BY <3>1, <3>2
  <2>3. Waiting(c, q, match, ids, refs, where, w)
    BY <1>8, <1>9, <1>10, <1>11, <2>2 DEF Waiting
  <2> QED  BY <2>1, <2>3 DEF r
<1> QED  BY <1>12, <1>13

IsMove(s, match, where, n, turn) ==
  turn = [k \in 0 .. n |-> IF k = 0 THEN s
                           ELSE MoveTurn(turn[k - 1], match, k - 1, where)]

LEMMA MoveExists ==
  ASSUME NEW s, NEW match, NEW where, NEW n \in Nat
  PROVE  \E turn : IsMove(s, match, where, n, turn)
<1> DEFINE Bad == {k \in Nat : ~ \E turn : IsMove(s, match, where, k, turn)}
<1> SUFFICES ASSUME Bad # {} PROVE FALSE
  OBVIOUS
<1>1. PICK k \in Bad : \A l \in Bad : k <= l
  BY LeastNumber
<1>2. CASE k = 0
  <2> DEFINE g == [l \in 0 .. 0 |-> s]
  <2>1. IsMove(s, match, where, 0, g)
    BY DEF IsMove
  <2> QED  BY <1>2, <2>1
<1>3. CASE k # 0
  <2>1. k \in Nat /\ k - 1 \in Nat /\ k - 1 \notin Bad
    BY <1>1, <1>3
  <2>2. PICK h : IsMove(s, match, where, k - 1, h)
    BY <2>1
  <2> DEFINE last == MoveTurn(h[k - 1], match, k - 1, where)
             g == [l \in 0 .. k |-> IF l = k THEN last ELSE h[l]]
  <2>3. \A l \in 0 .. k - 1 : g[l] = h[l]
    BY <2>1
  <2>4. \A l \in 0 .. k : g[l] = IF l = 0 THEN s ELSE MoveTurn(g[l - 1], match, l - 1, where)
    <3> SUFFICES ASSUME NEW l \in 0 .. k
                 PROVE g[l] = IF l = 0 THEN s ELSE MoveTurn(g[l - 1], match, l - 1, where)
      OBVIOUS
    <3>1. CASE l = k
      <4>1. g[l] = last /\ k - 1 \in 0 .. k - 1 /\ l # 0
        BY <2>1, <3>1, <1>3
      <4>2. g[k - 1] = h[k - 1]
        BY <2>3, <4>1
      <4> QED  BY <3>1, <4>1, <4>2
    <3>2. CASE l # k
      <4>1. l \in 0 .. k - 1
        BY <2>1, <3>2
      <4>2. h[l] = IF l = 0 THEN s ELSE MoveTurn(h[l - 1], match, l - 1, where)
        BY <2>2, <4>1 DEF IsMove
      <4>3. l # 0 => l - 1 \in 0 .. k - 1
        BY <2>1, <4>1
      <4>4. l # 0 => g[l - 1] = h[l - 1]
        BY <2>3, <4>3
      <4> QED  BY <2>3, <4>1, <4>2, <4>4
    <3> QED  BY <3>1, <3>2
  <2>5. g = [l \in 0 .. k |-> g[l]]
    OBVIOUS
  <2> HIDE DEF g
  <2>6. IsMove(s, match, where, k, g)
    BY <2>4, <2>5 DEF IsMove
  <2> QED  BY <2>6
<1> QED  BY <1>2, <1>3


MoveStart(q, m, refs, ids) ==
  [q |-> q, m |-> m, ids |-> ids, refs |-> refs,
   ref |-> IF Cardinality(refs) = 1 THEN CHOOSE r \in refs : TRUE ELSE NoDir,
   at |-> -1, waiting |-> <<>>, shift |-> 0]

MovedBy(q, m, match, refs, ids, where, turn) ==
  /\ IsMove(MoveStart(q, m, refs, ids), match, where, Len(q), turn)
  /\ Moved(q, m, match, refs, ids, where)
       = [q |-> turn[Len(q)].q, m |-> turn[Len(q)].m]

LEMMA MovedIs ==
  ASSUME NEW q, NEW m, NEW match, NEW refs, NEW ids, NEW where, Len(q) \in Nat
  PROVE  \E turn : MovedBy(q, m, match, refs, ids, where, turn)
<1> DEFINE s == MoveStart(q, m, refs, ids)
           turn == CHOOSE t : IsMove(s, match, where, Len(q), t)
<1>1. IsMove(s, match, where, Len(q), turn)
  BY MoveExists, Zenon
<1>2. Moved(q, m, match, refs, ids, where)
        = [q |-> turn[Len(q)].q, m |-> turn[Len(q)].m]
  BY Zenon DEF Moved, IsMove, MoveStart
<1> HIDE DEF turn
<1> QED  BY <1>1, <1>2 DEF MovedBy

LEMMA StartWaits ==
  ASSUME NEW q \in Seq(Downloads), NEW m, NEW match, Fine(q, m, match),
         NEW ids \in SUBSET Downloads, NEW refs \in SUBSET Downloads, refs # {},
         NEW where \in {"BEFORE", "AFTER"}
  PROVE  Waiting(MoveStart(q, m, refs, ids), q, match, ids, refs, where, 0)
<1> DEFINE s == MoveStart(q, m, refs, ids)
           ref == IF Cardinality(refs) = 1 THEN CHOOSE r \in refs : TRUE ELSE NoDir
<1>1. Len(q) \in Nat /\ m \in [Predicates -> Nat \cup {NoMarker}]
  BY LenProperties DEF Fine
<1>r. /\ ref \in Downloads \cup {NoDir}
      /\ Cardinality(refs) = 1 => refs = {ref}
      /\ Cardinality(refs) # 1 => ref = NoDir
  <2>1. CASE Cardinality(refs) = 1
    <3>1. IsFiniteSet(refs)
      BY QueueAssumption, FS_Subset
    <3>2. PICK x : refs = {x}
      BY <2>1, <3>1, FS_Singleton
    <3>3. ref = x
      BY <2>1, <3>2
    <3> QED  BY <2>1, <3>2, <3>3
  <2> QED  BY <2>1
<1> HIDE DEF ref
<1>3. <<>> \in Seq(Nat)
  OBVIOUS
<1>4. s = [q |-> q, m |-> m, ids |-> ids, refs |-> refs, ref |-> ref,
           at |-> -1, waiting |-> <<>>, shift |-> 0]
  BY DEF MoveStart, ref
<1> HIDE DEF s
<1>5. /\ s.q = q /\ s.m = m /\ s.ids = ids /\ s.refs = refs /\ s.ref = ref
      /\ s.at = -1 /\ s.waiting = <<>> /\ s.shift = 0
  BY <1>4
<1>6. s \in MoveState
  BY <1>1, <1>r, <1>3, <1>4 DEF MoveState
<1>7. Sound(s, q, match)
  BY <1>5, <1>6 DEF Sound, SameDownloads
<1>8. Waits(s.waiting, q, 0, ids)
  <2>1. Kept(q, 0, 0, ids) = <<>>
    BY <1>1, KeptNone
  <2>2. Len(<<>>) = 0
    BY EmptySeq
  <2> QED  BY <1>3, <1>5, <2>1, <2>2 DEF Waits
<1>9. IdsAhead(s, q, 0, ids)
  BY <1>5 DEF IdsAhead
<1>10. Unmet(s, q, refs, where, 0)
  <2>1. \A i \in 1 .. Len(q) : ~(i <= 0)
    OBVIOUS
  <2>2. refs = {x \in refs : \A i \in 1 .. Len(q) : i <= 0 => q[i] # x}
    BY <2>1
  <2> QED  BY <1>5, <1>r, <2>1, <2>2 DEF Unmet
<1> QED  BY <1>5, <1>7, <1>8, <1>9, <1>10 DEF s, Waiting

(***************************************************************************)
(* After every turn, the reference is not met, or what was to move is next *)
(* to it.                                                                  *)
(***************************************************************************)
LEMMA EveryTurn ==
  ASSUME NEW q \in Seq(Downloads), NoRepeat(q), NEW m, NEW match, Fine(q, m, match),
         NEW ids \in SUBSET Downloads, NEW refs \in SUBSET Downloads, refs # {},
         NEW where \in {"BEFORE", "AFTER"},
         NEW turn, IsMove(MoveStart(q, m, refs, ids), match, where, Len(q), turn)
  PROVE  \A k \in 0 .. Len(q) : \/ Waiting(turn[k], q, match, ids, refs, where, k)
                                \/ Met(turn[k], q, match, ids, refs, where, k)
<1> DEFINE Bad == {k \in 0 .. Len(q) : ~ \/ Waiting(turn[k], q, match, ids, refs, where, k)
                                         \/ Met(turn[k], q, match, ids, refs, where, k)}
<1> SUFFICES ASSUME Bad # {} PROVE FALSE
  OBVIOUS
<1>1. Len(q) \in Nat /\ Bad \in SUBSET Nat
  BY LenProperties
<1>2. PICK k \in Bad : \A l \in Bad : k <= l
  BY <1>1, LeastNumber
<1>3. \A l \in 0 .. Len(q) :
        turn[l] = IF l = 0 THEN MoveStart(q, m, refs, ids)
                           ELSE MoveTurn(turn[l - 1], match, l - 1, where)
  BY DEF IsMove
<1>4. CASE k = 0
  <2>1. turn[0] = MoveStart(q, m, refs, ids)
    BY <1>1, <1>3
  <2>2. Waiting(turn[0], q, match, ids, refs, where, 0)
    BY <2>1, StartWaits
  <2> QED  BY <1>2, <1>4, <2>2
<1>5. CASE k # 0
  <2> DEFINE n == k - 1
  <2>1. n \in Nat /\ n \in 0 .. Len(q) /\ k \in 1 .. Len(q) /\ k = n + 1 /\ ~(k <= n)
    BY <1>1, <1>2, <1>5
  <2>2. turn[k] = MoveTurn(turn[n], match, n, where)
    BY <1>3, <1>5, <2>1
  <2> HIDE DEF n
  <2>3. n \notin Bad
    BY <1>2, <2>1
  <2>4. \/ Waiting(turn[n], q, match, ids, refs, where, n)
        \/ Met(turn[n], q, match, ids, refs, where, n)
    BY <2>1, <2>3
  <2>5. CASE Waiting(turn[n], q, match, ids, refs, where, n)
    <3>1. \/ Waiting(MoveTurn(turn[n], match, n, where), q, match, ids, refs, where, k)
          \/ Met(MoveTurn(turn[n], match, n, where), q, match, ids, refs, where, k)
      BY <2>1, <2>5, WaitingTurn
    <3> QED  BY <1>2, <2>2, <3>1
  <2>6. CASE Met(turn[n], q, match, ids, refs, where, n)
    <3>1. Met(MoveTurn(turn[n], match, n, where), q, match, ids, refs, where, k)
      BY <2>1, <2>6, MetTurn
    <3> QED  BY <1>2, <2>2, <3>1
  <2> QED  BY <2>4, <2>5, <2>6
<1> QED  BY <1>4, <1>5

-----------------------------------------------------------------------------
(* The whole loop.                                                         *)

Here(q, refs) == {i \in DOMAIN q : q[i] \in refs}

LEMMA SplitIs ==
  ASSUME NEW q \in Seq(Downloads), NoRepeat(q), NEW refs \in SUBSET Downloads,
         refs # {}, NEW where \in {"BEFORE", "AFTER"}, NEW sp \in 0 .. Len(q),
         Split(q, refs, where, sp)
  PROVE  /\ Here(q, refs) # {}
         /\ where = "BEFORE" \/ refs \subseteq ToSet(q)
         /\ sp = IF where = "BEFORE" THEN Min(Here(q, refs)) - 1 ELSE Max(Here(q, refs))
<1>1. Len(q) \in Nat /\ DOMAIN q = 1 .. Len(q) /\ sp \in Nat /\ Here(q, refs) \in SUBSET Nat
  BY LenProperties DEF Here
<1>2. CASE where = "BEFORE"
  <2> DEFINE x == sp + 1
  <2>1. x \in 1 .. Len(q) /\ q[x] \in refs /\ \A i \in 1 .. sp : q[i] \notin refs
    BY <1>2 DEF Split
  <2>2. x \in Here(q, refs)
    BY <1>1, <2>1 DEF Here
  <2>3. \A y \in Here(q, refs) : x <= y
    <3> SUFFICES ASSUME NEW y \in Here(q, refs) PROVE x <= y
      OBVIOUS
    <3>1. y \in 1 .. Len(q) /\ y \notin 1 .. sp
      BY <1>1, <2>1 DEF Here
    <3> QED  BY <1>1, <3>1
  <2>4. x - 1 = sp
    BY <1>1
  <2> HIDE DEF x
  <2>5. Min(Here(q, refs)) = x
    BY <1>1, <2>2, <2>3, LeastIs
  <2> QED  BY <1>2, <2>2, <2>4, <2>5
<1>3. CASE where = "AFTER"
  <2>1. sp \in 1 .. Len(q) /\ q[sp] \in refs /\ \A x \in refs : \E i \in 1 .. sp : q[i] = x
    BY <1>3 DEF Split
  <2>2. sp \in Here(q, refs)
    BY <1>1, <2>1 DEF Here
  <2>3. \A y \in Here(q, refs) : sp >= y
    <3> SUFFICES ASSUME NEW y \in Here(q, refs) PROVE sp >= y
      OBVIOUS
    <3>1. y \in 1 .. Len(q) /\ q[y] \in refs
      BY <1>1 DEF Here
    <3>2. PICK i \in 1 .. sp : q[i] = q[y]
      BY <2>1, <3>1
    <3>3. i = y
      BY <1>1, <3>1, <3>2 DEF NoRepeat
    <3> QED  BY <1>1, <3>2, <3>3
  <2>4. Max(Here(q, refs)) = sp
    BY <1>1, <2>2, <2>3, GreatestIs
  <2>5. refs \subseteq ToSet(q)
    <3> SUFFICES ASSUME NEW x \in refs PROVE x \in ToSet(q)
      OBVIOUS
    <3>1. PICK i \in 1 .. sp : q[i] = x
      BY <2>1
    <3> QED  BY <1>1, <3>1 DEF ToSet
  <2> QED  BY <1>3, <2>2, <2>4, <2>5
<1> QED  BY <1>2, <1>3

\* The list is as documented, and the markers follow.
MovedRight(r, q, match, refs, ids, where) ==
  /\ r.q = MovedAsDocumented(q, refs, ids, where)
  /\ SameDownloads(r.q, q) /\ Fine(r.q, r.m, match)

LEMMA MovedIsRight ==
  ASSUME NEW q \in Seq(Downloads), NoRepeat(q), NEW m, NEW match, Fine(q, m, match),
         NEW ids \in SUBSET Downloads, NEW refs \in SUBSET Downloads, refs # {},
         NEW where \in {"BEFORE", "AFTER"}
  PROVE  MovedRight(Moved(q, m, match, refs, ids, where), q, match, refs, ids, where)
<1> DEFINE L == Len(q)
<1>1. L \in Nat /\ L \in 0 .. L /\ DOMAIN q = 1 .. L
  BY LenProperties
<1>2. PICK turn : MovedBy(q, m, match, refs, ids, where, turn)
  BY <1>1, MovedIs
<1> DEFINE s == turn[L]
           result == Moved(q, m, match, refs, ids, where)
           met == Here(q, refs) # {}
                  /\ (where = "BEFORE" \/ Cardinality(refs) = 1 \/ refs \subseteq ToSet(q))
           split == IF where = "BEFORE" THEN Min(Here(q, refs)) - 1 ELSE Max(Here(q, refs))
           stay == Downloads \ ids
<1>3. result = [q |-> s.q, m |-> s.m]
  BY <1>2 DEF MovedBy
<1>4. IsMove(MoveStart(q, m, refs, ids), match, where, Len(q), turn)
  BY <1>2 DEF MovedBy
<1>5. Waiting(s, q, match, ids, refs, where, L) \/ Met(s, q, match, ids, refs, where, L)
  BY <1>1, <1>4, EveryTurn
<1>6. MovedAsDocumented(q, refs, ids, where)
        = IF ~met THEN q ELSE Those(SubSeq(q, 1, split), stay) \o Those(q, ids)
                                \o Those(SubSeq(q, split + 1, Len(q)), stay)
  BY DEF MovedAsDocumented, Here
<1>7. result.q = s.q /\ result.m = s.m
  BY <1>3
<1> SUFFICES MovedRight(result, q, match, refs, ids, where)
  OBVIOUS
<1> HIDE DEF s, result, split
<1>8. CASE Waiting(s, q, match, ids, refs, where, L)
  <2>1. s.q = q /\ Sound(s, q, match) /\ Unmet(s, q, refs, where, L)
    BY <1>8 DEF Waiting
  <2>2. \A i \in 1 .. L : i <= L
    BY <1>1
  <2>3. ~met
    <3>1. CASE where = "BEFORE" \/ Cardinality(refs) = 1
      <4>1. \A i \in 1 .. L : q[i] \notin refs
        BY <2>1, <2>2, <3>1 DEF Unmet
      <4>2. Here(q, refs) = {}
        BY <1>1, <4>1 DEF Here
      <4> QED  BY <4>2
    <3>2. CASE where # "BEFORE" /\ Cardinality(refs) # 1
      <4>1. s.refs # {} /\ s.refs = {x \in refs : \A i \in 1 .. Len(q) : i <= L => q[i] # x}
        BY <2>1, <3>2 DEF Unmet
      <4>2. PICK x \in refs : \A i \in 1 .. L : q[i] # x
        BY <2>2, <4>1
      <4>3. x \notin ToSet(q)
        BY <1>1, <4>2 DEF ToSet
      <4> QED  BY <3>2, <4>3
    <3> QED  BY <3>1, <3>2
  <2>4. MovedAsDocumented(q, refs, ids, where) = q
    BY <1>6, <2>3, Zenon
  <2> QED  BY <1>7, <2>1, <2>4 DEF MovedRight, Sound
<1>9. CASE Met(s, q, match, ids, refs, where, L)
  <2>1. PICK sp \in 0 .. L :
          Split(q, refs, where, sp) /\ Reached(s, q, match, ids, sp, L, where)
    BY <1>9 DEF Met
  <2>2. met /\ sp = split
    BY <2>1, SplitIs DEF split
  <2>3. SubSeq(q, L + 1, L) = <<>>
    BY <1>1, SubSeqEmpty
  <2>4. Parts(s.q, Kept(q, 0, sp, stay), Kept(q, 0, L, ids), Kept(q, sp, L, stay), <<>>)
    BY <2>1, <2>3 DEF Reached, Arranged
  <2>5. s.q = Kept(q, 0, sp, stay) \o Kept(q, 0, L, ids) \o Kept(q, sp, L, stay)
    <3> DEFINE a == Kept(q, 0, sp, stay)
               b == Kept(q, 0, L, ids)
               c == Kept(q, sp, L, stay)
               nil == <<>>
    <3>1. Parts(s.q, a, b, c, nil) /\ nil = <<>>
      BY <2>4
    <3> HIDE DEF a, b, c, nil
    <3>2. s.q = a \o b \o c
      BY <3>1, PartsEqual
    <3> QED  BY <3>2 DEF a, b, c
  <2>6. 0 + 1 = 1 /\ SubSeq(q, 1, L) = q
    BY SubSeqFull
  <2>7. /\ Kept(q, 0, sp, stay) = Those(SubSeq(q, 1, sp), stay)
        /\ Kept(q, 0, L, ids) = Those(q, ids)
        /\ Kept(q, sp, L, stay) = Those(SubSeq(q, sp + 1, L), stay)
    BY <2>6 DEF Kept
  <2>8. MovedAsDocumented(q, refs, ids, where)
          = Those(SubSeq(q, 1, sp), stay) \o Those(q, ids) \o Those(SubSeq(q, sp + 1, L), stay)
    BY <1>6, <2>2
  <2>9. s.q = MovedAsDocumented(q, refs, ids, where)
    BY <2>5, <2>7, <2>8, Zenon
  <2> QED  BY <1>7, <2>1, <2>9 DEF MovedRight, Reached, Sound
<1> QED  BY <1>5, <1>8, <1>9
-----------------------------------------------------------------------------
(* The loop of removeDownloads.                                            *)

RemoveState ==
  [q : Seq(Downloads), m : [Predicates -> Nat \cup {NoMarker}],
   i : Nat, j : Nat, position : Nat]

(***************************************************************************)
(* The markers stay fine when one download is removed.                     *)
(***************************************************************************)
LEMMA MarkersRemoved ==
  ASSUME NEW v \in Seq(Downloads), NEW m, NEW match, Fine(v, m, match),
         NEW i \in Nat, i < Len(v), NEW n, n = i + 1,
         NEW r, IsRemoved(Downloads, v, n, r)
  PROVE  Fine(r, MarkersRemove(m, i), match)
<1> DEFINE new == MarkersRemove(m, i)
<1>1. Len(v) \in Nat /\ Len(r) = Len(v) - 1
  BY LenProperties DEF IsRemoved
<1>2. /\ new = [P \in Predicates |-> new[P]]
      /\ \A P \in Predicates : new[P] = IF i < m[P] THEN m[P] - 1 ELSE m[P]
  BY DEF MarkersRemove
<1> HIDE DEF new
<1>3. ASSUME NEW P \in Predicates PROVE FineAt(r, new[P], match[P])
  <2> DEFINE p == m[P]
  <2>1. FineAt(v, p, match[P])
    BY DEF Fine
  <2>2. p \in Nat \cup {-1} /\ p <= Len(v) /\ new[P] = IF i < p THEN p - 1 ELSE p
    BY <1>2, <2>1 DEF FineAt, NoMarker
  <2> HIDE DEF p
  <2>3. new[P] \in Nat \cup {-1} /\ new[P] <= Len(r)
    BY <1>1, <2>2
  <2>4. ASSUME NEW k \in 1 .. Len(r), k <= new[P] PROVE r[k] \notin match[P]
    <3>1. k \in 1 .. Len(v) - 1
      BY <1>1
    <3>2. r[k] = IF k < n THEN v[k] ELSE v[k + 1]
      BY <3>1 DEF IsRemoved
    <3>3. CASE k < n
      <4>1. k <= p /\ k \in 1 .. Len(v)
        BY <1>1, <2>2, <2>4, <3>1
      <4> QED  BY <2>1, <3>2, <3>3, <4>1 DEF FineAt
    <3>4. CASE ~(k < n)
      <4>1. k + 1 <= p /\ k + 1 \in 1 .. Len(v)
        BY <1>1, <2>2, <2>4, <3>1, <3>4
      <4> QED  BY <2>1, <3>2, <3>4, <4>1 DEF FineAt
    <3> QED  BY <3>3, <3>4
  <2> QED  BY <2>3, <2>4 DEF FineAt, NoMarker
<1>4. \A P \in Predicates : new[P] \in Nat \cup {NoMarker}
  BY <1>3 DEF FineAt
<1>5. new \in [Predicates -> Nat \cup {NoMarker}]
  BY <1>2, <1>4
<1>6. Fine(r, new, match)
  BY <1>3, <1>5 DEF Fine
<1> QED  BY <1>6 DEF new

(***************************************************************************)
(* Erasing the second part.                                                *)
(***************************************************************************)
LEMMA ErasedParts ==
  ASSUME NEW q, NEW a, NEW g, NEW d, Parts(q, a, g, <<>>, d),
         NEW i, i = Len(a), NEW j, j = Len(a) + Len(g)
  PROVE  Parts(Erased(q, i, j), a, <<>>, <<>>, d)
<1> DEFINE x == SubSeq(q, 1, i)
           y == SubSeq(q, j + 1, Len(q))
           r == x \o y
<1>0. /\ q \in Seq(Downloads) /\ a \in Seq(Downloads) /\ g \in Seq(Downloads)
      /\ d \in Seq(Downloads) /\ <<>> \in Seq(Downloads) /\ Len(<<>>) = 0
  BY EmptySeq DEF Parts
<1>1. /\ Len(q) \in Nat /\ Len(a) \in Nat /\ Len(g) \in Nat /\ Len(d) \in Nat
      /\ Len(q) = Len(a) + Len(g) + Len(d) /\ i \in Nat /\ j \in Nat
  BY <1>0, LenProperties DEF Parts
<1>2. /\ \A k \in 1 .. Len(a) : q[k] = a[k]
      /\ \A k \in 1 .. Len(d) : q[Len(a) + Len(g) + k] = d[k]
  BY <1>0, <1>1 DEF Parts
<1>3. x \in Seq(Downloads) /\ Len(x) = Len(a) /\ \A k \in 1 .. Len(a) : x[k] = a[k]
  <2>1. 1 \in 1 .. Len(q) + 1 /\ i \in 1 - 1 .. Len(q)
    BY <1>1
  <2>2. /\ x \in Seq(Downloads) /\ Len(x) = (i - 1) + 1
        /\ \A k \in 1 .. (i - 1) + 1 : x[k] = q[(1 + k) - 1]
    BY <1>0, <2>1, CutFacts
  <2> HIDE DEF x
  <2> QED  BY <1>1, <1>2, <2>2
<1>4. y \in Seq(Downloads) /\ Len(y) = Len(d) /\ \A k \in 1 .. Len(d) : y[k] = d[k]
  <2>1. j + 1 \in 1 .. Len(q) + 1 /\ Len(q) \in (j + 1) - 1 .. Len(q)
    BY <1>1
  <2>2. /\ y \in Seq(Downloads) /\ Len(y) = (Len(q) - (j + 1)) + 1
        /\ \A k \in 1 .. (Len(q) - (j + 1)) + 1 : y[k] = q[((j + 1) + k) - 1]
    BY <1>0, <2>1, CutFacts
  <2> HIDE DEF y
  <2>3. (Len(q) - (j + 1)) + 1 = Len(d)
    BY <1>1
  <2>4. ASSUME NEW k \in 1 .. Len(d) PROVE y[k] = d[k]
    <3>1. ((j + 1) + k) - 1 = Len(a) + Len(g) + k
      BY <1>1
    <3>2. y[k] = q[((j + 1) + k) - 1]
      BY <2>2, <2>3
    <3> QED  BY <1>2, <3>1, <3>2
  <2> QED  BY <2>2, <2>3, <2>4
<1> HIDE DEF x, y
<1>c. x \in Seq(Downloads) /\ y \in Seq(Downloads)
  BY <1>3, <1>4
<1>5. /\ r \in Seq(Downloads) /\ Len(r) = Len(x) + Len(y)
      /\ \A k \in 1 .. Len(x) + Len(y) :
           r[k] = IF k <= Len(x) THEN x[k] ELSE y[k - Len(x)]
  BY <1>c, CatFacts, Zenon
<1> HIDE DEF r
<1>6. /\ r \in Seq(Downloads) /\ Len(r) = Len(a) + Len(d)
      /\ \A k \in 1 .. Len(a) + Len(d) : r[k] = IF k <= Len(a) THEN a[k] ELSE d[k - Len(a)]
  <2> SUFFICES ASSUME NEW k \in 1 .. Len(a) + Len(d)
               PROVE  r[k] = IF k <= Len(a) THEN a[k] ELSE d[k - Len(a)]
    BY <1>3, <1>4, <1>5
  <2>1. r[k] = IF k <= Len(a) THEN x[k] ELSE y[k - Len(a)]
    BY <1>3, <1>4, <1>5
  <2>2. CASE k <= Len(a)
    <3>1. k \in 1 .. Len(a)
      BY <1>1, <2>2
    <3> QED  BY <1>3, <2>1, <2>2, <3>1
  <2>3. CASE ~(k <= Len(a))
    <3>1. k - Len(a) \in 1 .. Len(d)
      BY <1>1, <2>3
    <3> QED  BY <1>4, <2>1, <2>3, <3>1
  <2> QED  BY <2>2, <2>3
<1>7. \A k \in 1 .. Len(a) : r[k] = a[k]
  BY <1>1, <1>6
<1>8. ASSUME NEW k \in 1 .. Len(d) PROVE r[Len(a) + k] = d[k]
  <2>1. Len(a) + k \in 1 .. Len(a) + Len(d) /\ ~(Len(a) + k <= Len(a)) /\ (Len(a) + k) - Len(a) = k
    BY <1>1
  <2> QED  BY <1>6, <2>1
<1>9. Parts(r, a, <<>>, <<>>, d)
  BY <1>0, <1>1, <1>6, <1>7, <1>8 DEF Parts
<1> QED  BY <1>9 DEF r, x, y, Erased

\* A removal from the second of two parts.
LEMMA PartsRemoved ==
  ASSUME NEW v, NEW a, NEW d, Parts(v, a, <<>>, <<>>, d), NEW t, IsTail(t, d),
         NEW n, n = Len(a) + 1
  PROVE  /\ v \in Seq(Downloads) /\ n \in 1 .. Len(v)
         /\ Parts(RemoveAt(v, n), a, <<>>, <<>>, t)
         /\ IsRemoved(Downloads, v, n, RemoveAt(v, n))
<1> DEFINE r == RemoveAt(v, n)
<1>0. /\ v \in Seq(Downloads) /\ a \in Seq(Downloads) /\ d \in Seq(Downloads)
      /\ t \in Seq(Downloads) /\ <<>> \in Seq(Downloads) /\ Len(<<>>) = 0
  BY EmptySeq DEF Parts, IsTail
<1>1. /\ Len(v) \in Nat /\ Len(a) \in Nat /\ Len(d) \in Nat /\ Len(t) \in Nat
      /\ Len(v) = Len(a) + Len(d) /\ Len(d) = Len(t) + 1
  BY <1>0, LenProperties DEF Parts, IsTail
<1>2. n \in 1 .. Len(v)
  BY <1>1
<1>3. IsRemoved(Downloads, v, n, r)
  BY <1>0, <1>2, RemoveFacts
<1> HIDE DEF r
<1>4. /\ \A k \in 1 .. Len(a) : v[k] = a[k]
      /\ \A k \in 1 .. Len(d) : v[Len(a) + k] = d[k]
  BY <1>0, <1>1 DEF Parts
<1>5. \A k \in 1 .. Len(t) : t[k] = d[k + 1]
  BY DEF IsTail
<1>6. r \in Seq(Downloads) /\ Len(r) = Len(a) + Len(t)
  BY <1>1, <1>3 DEF IsRemoved
<1>7. \A k \in 1 .. Len(a) : r[k] = a[k]
  BY <1>1, <1>3, <1>4 DEF IsRemoved
<1>8. ASSUME NEW k \in 1 .. Len(t) PROVE r[Len(a) + k] = t[k]
  <2>1. Len(a) + k \in 1 .. Len(v) - 1 /\ ~(Len(a) + k < n) /\ (Len(a) + k) + 1 = Len(a) + (k + 1)
        /\ k + 1 \in 1 .. Len(d)
    BY <1>1
  <2>2. r[Len(a) + k] = v[(Len(a) + k) + 1]
    BY <1>3, <2>1 DEF IsRemoved
  <2> QED  BY <1>4, <1>5, <2>1, <2>2
<1>9. Parts(r, a, <<>>, <<>>, t)
  BY <1>0, <1>1, <1>6, <1>7, <1>8 DEF Parts
<1> QED  BY <1>0, <1>2, <1>3, <1>9 DEF r
IsRemove(s, gone, n, turn) ==
  turn = [k \in 0 .. n |-> IF k = 0 THEN s
                           ELSE RemoveTurn(turn[k - 1], gone)]

LEMMA RemoveExists ==
  ASSUME NEW s, NEW gone, NEW n \in Nat
  PROVE  \E turn : IsRemove(s, gone, n, turn)
<1> DEFINE Bad == {k \in Nat : ~ \E turn : IsRemove(s, gone, k, turn)}
<1> SUFFICES ASSUME Bad # {} PROVE FALSE
  OBVIOUS
<1>1. PICK k \in Bad : \A l \in Bad : k <= l
  BY LeastNumber
<1>2. CASE k = 0
  <2> DEFINE g == [l \in 0 .. 0 |-> s]
  <2>1. IsRemove(s, gone, 0, g)
    BY DEF IsRemove
  <2> QED  BY <1>2, <2>1
<1>3. CASE k # 0
  <2>1. k \in Nat /\ k - 1 \in Nat /\ k - 1 \notin Bad
    BY <1>1, <1>3
  <2>2. PICK h : IsRemove(s, gone, k - 1, h)
    BY <2>1
  <2> DEFINE last == RemoveTurn(h[k - 1], gone)
             g == [l \in 0 .. k |-> IF l = k THEN last ELSE h[l]]
  <2>3. \A l \in 0 .. k - 1 : g[l] = h[l]
    BY <2>1
  <2>4. \A l \in 0 .. k : g[l] = IF l = 0 THEN s ELSE RemoveTurn(g[l - 1], gone)
    <3> SUFFICES ASSUME NEW l \in 0 .. k
                 PROVE g[l] = IF l = 0 THEN s ELSE RemoveTurn(g[l - 1], gone)
      OBVIOUS
    <3>1. CASE l = k
      <4>1. g[l] = last /\ k - 1 \in 0 .. k - 1 /\ l # 0
        BY <2>1, <3>1, <1>3
      <4>2. g[k - 1] = h[k - 1]
        BY <2>3, <4>1
      <4> QED  BY <3>1, <4>1, <4>2
    <3>2. CASE l # k
      <4>1. l \in 0 .. k - 1
        BY <2>1, <3>2
      <4>2. h[l] = IF l = 0 THEN s ELSE RemoveTurn(h[l - 1], gone)
        BY <2>2, <4>1 DEF IsRemove
      <4>3. l # 0 => l - 1 \in 0 .. k - 1
        BY <2>1, <4>1
      <4>4. l # 0 => g[l - 1] = h[l - 1]
        BY <2>3, <4>3
      <4> QED  BY <2>3, <4>1, <4>2, <4>4
    <3> QED  BY <3>1, <3>2
  <2>5. g = [l \in 0 .. k |-> g[l]]
    OBVIOUS
  <2> HIDE DEF g
  <2>6. IsRemove(s, gone, k, g)
    BY <2>4, <2>5 DEF IsRemove
  <2> QED  BY <2>6
<1> QED  BY <1>2, <1>3


\* The first of the last part is kept: it goes to the end of the first.
LEMMA PartsKeep ==
  ASSUME NEW q, NEW a, NEW d, Parts(q, a, <<>>, <<>>, d), NEW t, IsTail(t, d)
  PROVE  Parts(q, Append(a, d[1]), <<>>, <<>>, t)
<1> DEFINE x == Append(a, d[1])
<1>0. /\ q \in Seq(Downloads) /\ a \in Seq(Downloads) /\ d \in Seq(Downloads)
      /\ t \in Seq(Downloads) /\ <<>> \in Seq(Downloads) /\ Len(<<>>) = 0
  BY EmptySeq DEF Parts, IsTail
<1>1. /\ Len(q) \in Nat /\ Len(a) \in Nat /\ Len(d) \in Nat /\ Len(t) \in Nat
      /\ Len(q) = Len(a) + Len(d) /\ Len(d) = Len(t) + 1 /\ d[1] \in Downloads
  BY <1>0, LenProperties DEF Parts, IsTail
<1>2. /\ \A k \in 1 .. Len(a) : q[k] = a[k]
      /\ \A k \in 1 .. Len(d) : q[Len(a) + k] = d[k]
      /\ \A k \in 1 .. Len(t) : t[k] = d[k + 1]
  BY <1>0, <1>1 DEF Parts, IsTail
<1>3. /\ x \in Seq(Downloads) /\ Len(x) = Len(a) + 1
      /\ \A i \in 1 .. Len(a) : x[i] = a[i] /\ x[Len(a) + 1] = d[1]
  BY <1>0, <1>1, AppendElements
<1>4. x[Len(a) + 1] = d[1]
  BY <1>0, <1>1, AppendElements
<1> HIDE DEF x
<1>5. \A k \in 1 .. Len(x) : q[k] = x[k]
  <2> SUFFICES ASSUME NEW k \in 1 .. Len(x) PROVE q[k] = x[k]
    OBVIOUS
  <2>1. CASE k = Len(a) + 1
    <3>1. 1 \in 1 .. Len(d)
      BY <1>1
    <3> QED  BY <1>2, <1>4, <2>1, <3>1
  <2>2. CASE k # Len(a) + 1
    <3>1. k \in 1 .. Len(a)
      BY <1>1, <1>3, <2>2
    <3> QED  BY <1>2, <1>3, <3>1
  <2> QED  BY <2>1, <2>2
<1>6. ASSUME NEW k \in 1 .. Len(t) PROVE q[Len(x) + k] = t[k]
  <2>1. k + 1 \in 1 .. Len(d) /\ Len(x) + k = Len(a) + (k + 1)
    BY <1>1, <1>3
  <2> QED  BY <1>2, <2>1
<1>7. Parts(q, x, <<>>, <<>>, t)
  BY <1>0, <1>1, <1>3, <1>5, <1>6 DEF Parts
<1> QED  BY <1>7 DEF x

(***************************************************************************)
(* The n first downloads of q are met: a, those to keep, stand at the head *)
(* of the list, then g, those still to erase.  The markers are those of v, *)
(* the list without g.                                                     *)
(***************************************************************************)
Cleared(s, q, match, stay, n, a, g, v) ==
  /\ s \in RemoveState /\ n \in 0 .. Len(q) /\ a = Kept(q, 0, n, stay)
  /\ Parts(s.q, a, g, <<>>, SubSeq(q, n + 1, Len(q)))
  /\ Parts(v, a, <<>>, <<>>, SubSeq(q, n + 1, Len(q))) /\ Fine(v, s.m, match)
  /\ s.i = Len(a) /\ s.position = Len(a) /\ s.j = Len(a) + Len(g)

Removing(s, q, match, stay, n) ==
  \E a, g, v : Cleared(s, q, match, stay, n, a, g, v)

HasSkipped(r, s) ==
  /\ r.q = s.q /\ r.m = MarkersRemove(s.m, s.position) /\ r.i = s.i /\ r.j = s.j + 1
  /\ r.position = s.position
  /\ r.m \in [Predicates -> Nat \cup {NoMarker}] => r \in RemoveState

HasErased(r, s) ==
  /\ r.q = Erased(s.q, s.i, s.j) /\ r.m = s.m /\ r.i = s.i /\ r.j = s.i
  /\ r.position = s.position /\ (r.q \in Seq(Downloads) => r \in RemoveState)

HasKept(r, s) ==
  /\ r \in RemoveState /\ r.q = s.q /\ r.m = s.m /\ r.i = s.i + 1 /\ r.j = s.j + 1
  /\ r.position = s.position + 1

LEMMA RemoveFields ==
  ASSUME NEW s \in RemoveState
  PROVE  /\ HasSkipped([s EXCEPT !.j = @ + 1, !.m = MarkersRemove(@, s.position)], s)
         /\ HasErased([s EXCEPT !.q = Erased(@, s.i, s.j), !.j = s.i], s)
         /\ HasKept([s EXCEPT !.i = @ + 1, !.j = @ + 1, !.position = @ + 1], s)
<1>1. HasSkipped([s EXCEPT !.j = @ + 1, !.m = MarkersRemove(@, s.position)], s)
  <2> DEFINE j == s.j + 1
             m == MarkersRemove(s.m, s.position)
             r == [s EXCEPT !.j = j, !.m = m]
  <2>1. j \in Nat
    BY DEF RemoveState
  <2> HIDE DEF j, m
  <2>2. /\ r.q = s.q /\ r.m = m /\ r.i = s.i /\ r.j = j /\ r.position = s.position
        /\ m \in [Predicates -> Nat \cup {NoMarker}] => r \in RemoveState
    BY <2>1 DEF RemoveState
  <2> HIDE DEF r
  <2>3. HasSkipped(r, s)
    BY <2>2 DEF HasSkipped, j, m
  <2> QED  BY <2>3 DEF r, j, m
<1>2. HasErased([s EXCEPT !.q = Erased(@, s.i, s.j), !.j = s.i], s)
  BY DEF RemoveState, HasErased
<1>3. HasKept([s EXCEPT !.i = @ + 1, !.j = @ + 1, !.position = @ + 1], s)
  <2> DEFINE i == s.i + 1
             j == s.j + 1
             p == s.position + 1
             r == [s EXCEPT !.i = i, !.j = j, !.position = p]
  <2>1. i \in Nat /\ j \in Nat /\ p \in Nat
    BY DEF RemoveState
  <2> HIDE DEF i, j, p
  <2>2. /\ r.q = s.q /\ r.m = s.m /\ r.i = i /\ r.j = j /\ r.position = p
        /\ r \in RemoveState
    BY <2>1 DEF RemoveState
  <2> HIDE DEF r
  <2>3. HasKept(r, s)
    BY <2>2 DEF HasKept, i, j, p
  <2> QED  BY <2>3 DEF r, i, j, p
<1> QED  BY <1>1, <1>2, <1>3

\* What one turn does, at the download w.
TurnOf(r, s, q, match, stay, gone, n, w) ==
  /\ q[w] \in gone \/ s.i = s.j => Removing(r, q, match, stay, w)
  /\ q[w] \notin gone /\ s.i # s.j => Removing(r, q, match, stay, n) /\ r.i = r.j

LEMMA RemoveStep ==
  ASSUME NEW q \in Seq(Downloads), NEW match, NEW gone \in SUBSET Downloads,
         NEW stay, stay = Downloads \ gone,
         NEW n \in Nat, NEW w \in 1 .. Len(q), w = n + 1,
         NEW s, Removing(s, q, match, stay, n)
  PROVE  TurnOf(RemoveTurn(s, gone), s, q, match, stay, gone, n, w)
<1> DEFINE r == RemoveTurn(s, gone)
           d == SubSeq(q, n + 1, Len(q))
           t == SubSeq(q, w + 1, Len(q))
<1>1. PICK a, g, v : Cleared(s, q, match, stay, n, a, g, v)
  BY DEF Removing
<1>2. Len(q) \in Nat /\ n \in 0 .. Len(q) /\ w \in 0 .. Len(q) /\ Len(q) \in n + 1 .. Len(q) /\ Len(q) \in n .. Len(q)
  BY LenProperties
<1>3. IsTail(t, d) /\ d[1] = q[w] /\ q[w] \in Downloads
  BY <1>2, RestNext
<1>4. /\ s \in RemoveState /\ a = Kept(q, 0, n, stay)
      /\ Parts(s.q, a, g, <<>>, d) /\ Parts(v, a, <<>>, <<>>, d) /\ Fine(v, s.m, match)
      /\ s.i = Len(a) /\ s.position = Len(a) /\ s.j = Len(a) + Len(g)
  BY <1>1 DEF Cleared
<1> HIDE DEF d, t
<1>5. /\ Len(a) \in Nat /\ Len(g) \in Nat /\ Len(d) \in Nat /\ Len(t) \in Nat
      /\ Len(d) = Len(t) + 1 /\ Len(s.q) = Len(a) + Len(g) + Len(d)
      /\ g \in Seq(Downloads) /\ d \in Seq(Downloads)
  <2>1. Len(<<>>) = 0
    BY EmptySeq
  <2> QED  BY <1>3, <1>4, <2>1, LenProperties DEF Parts, IsTail
<1>6. s.j # Len(s.q) /\ s.q[s.j + 1] = q[w]
  <2>1. Len(<<>>) = 0 /\ 1 \in 1 .. Len(d)
    BY <1>5, EmptySeq
  <2>2. s.q[Len(a) + Len(g) + Len(<<>>) + 1] = d[1]
    BY <1>4, <2>1 DEF Parts
  <2>3. Len(a) + Len(g) + Len(<<>>) + 1 = s.j + 1
    BY <1>4, <1>5, <2>1
  <2> QED  BY <1>3, <1>4, <1>5, <2>2, <2>3
<1>7. IsLonger(Kept(q, 0, w, stay), a, q[w], stay)
  <2>1. 0 \in Nat /\ n \in 0 .. Len(q)
    BY <1>2
  <2> QED  BY <1>4, <2>1, KeptNext
<1>8. CASE q[w] \in gone
  <2> DEFINE e == [s EXCEPT !.j = @ + 1, !.m = MarkersRemove(@, s.position)]
             u == RemoveAt(v, Len(a) + 1)
             h == Append(g, d[1])
  <2>1. r = e
    BY <1>6, <1>8 DEF RemoveTurn
  <2>2. HasSkipped(e, s)
    BY <1>4, RemoveFields
  <2> HIDE DEF e, r
  <2>3. Kept(q, 0, w, stay) = a
    BY <1>7, <1>8 DEF IsLonger
  <2>4. Parts(s.q, a, h, <<>>, t)
    BY <1>3, <1>4, PartsGrow
  <2>5. /\ v \in Seq(Downloads) /\ Len(a) + 1 \in 1 .. Len(v)
        /\ Parts(u, a, <<>>, <<>>, t) /\ IsRemoved(Downloads, v, Len(a) + 1, u)
    BY <1>3, <1>4, PartsRemoved
  <2> HIDE DEF u
  <2>6. Fine(u, MarkersRemove(s.m, s.position), match)
    <3>1. Len(a) < Len(v)
      BY <1>5, <2>5, LenProperties
    <3> QED  BY <1>4, <1>5, <2>5, <3>1, MarkersRemoved
  <2>7. r \in RemoveState /\ Fine(u, r.m, match)
    BY <2>1, <2>2, <2>6 DEF HasSkipped, Fine
  <2>8. Len(h) = Len(g) + 1
    BY <1>3, <1>5, AppendElements
  <2> HIDE DEF h
  <2>n. /\ r.i = Len(a) /\ r.position = Len(a) /\ r.j = Len(a) + Len(h)
        /\ r.q = s.q
    BY <1>4, <1>5, <2>1, <2>2, <2>8 DEF HasSkipped
  <2>9. Cleared(r, q, match, stay, w, a, h, u)
    BY <1>2, <2>3, <2>4, <2>5, <2>7, <2>n DEF Cleared, t
  <2>10. Removing(r, q, match, stay, w)
    BY <2>9 DEF Removing
  <2> QED  BY <1>8, <2>10 DEF TurnOf, r
<1>9. CASE q[w] \notin gone /\ s.i # s.j
  <2> DEFINE e == [s EXCEPT !.q = Erased(@, s.i, s.j), !.j = s.i]
  <2>1. r = e
    BY <1>6, <1>9 DEF RemoveTurn
  <2>2. HasErased(e, s)
    BY <1>4, RemoveFields
  <2> HIDE DEF e, r
  <2>3. Parts(Erased(s.q, s.i, s.j), a, <<>>, <<>>, d)
    BY <1>4, ErasedParts
  <2>4. r \in RemoveState
    BY <2>1, <2>2, <2>3 DEF HasErased, Parts
  <2>5. Len(<<>>) = 0 /\ Len(a) + Len(<<>>) = Len(a)
    BY <1>5, EmptySeq
  <2>6. Cleared(r, q, match, stay, n, a, <<>>, v)
    BY <1>2, <1>4, <2>1, <2>2, <2>3, <2>4, <2>5 DEF Cleared, HasErased, d
  <2>7. Removing(r, q, match, stay, n) /\ r.i = r.j
    BY <2>1, <2>2, <2>6 DEF Removing, HasErased
  <2> QED  BY <1>9, <2>7 DEF TurnOf, r
<1>10. CASE q[w] \notin gone /\ s.i = s.j
  <2> DEFINE e == [s EXCEPT !.i = @ + 1, !.j = @ + 1, !.position = @ + 1]
             b == Append(a, d[1])
  <2>1. r = e
    BY <1>6, <1>10 DEF RemoveTurn
  <2>2. HasKept(e, s)
    BY <1>4, RemoveFields
  <2> HIDE DEF e, r
  <2>3. Kept(q, 0, w, stay) = b
    BY <1>3, <1>7, <1>10 DEF IsLonger
  <2>4. g = <<>>
    <3>1. Len(g) = 0
      BY <1>4, <1>5, <1>10
    <3> QED  BY <1>5, <3>1, EmptySeq
  <2>5. Parts(s.q, b, <<>>, <<>>, t) /\ Parts(v, b, <<>>, <<>>, t)
    BY <1>3, <1>4, <2>4, PartsKeep
  <2>6. Len(b) = Len(a) + 1
    <3>1. a \in Seq(Downloads) /\ d[1] \in Downloads
      BY <1>3, <1>4 DEF Parts
    <3> QED  BY <3>1, AppendElements
  <2> HIDE DEF b
  <2>7. Len(<<>>) = 0 /\ s.j = Len(a)
    BY <1>4, <1>5, <1>10, EmptySeq
  <2>8. /\ r.i = Len(b) /\ r.position = Len(b) /\ r.j = Len(b) + Len(<<>>)
        /\ r.q = s.q /\ r.m = s.m /\ r \in RemoveState
    BY <1>4, <1>5, <2>1, <2>2, <2>6, <2>7 DEF HasKept
  <2>9. Cleared(r, q, match, stay, w, b, <<>>, v)
    BY <1>2, <1>4, <2>3, <2>5, <2>8 DEF Cleared, t
  <2>10. Removing(r, q, match, stay, w)
    BY <2>9 DEF Removing
  <2> QED  BY <1>10, <2>10 DEF TurnOf, r
<1> QED  BY <1>8, <1>9, <1>10

(***************************************************************************)
(* What is kept of a list comes from it, each download once if it was.     *)
(***************************************************************************)
PartOf(r, q, n) ==
  /\ r \in Seq(Downloads) /\ \A i \in 1 .. Len(r) : \E k \in 1 .. n : r[i] = q[k]
  /\ NoRepeat(q) => NoRepeat(r)

LEMMA PartGrows ==
  ASSUME NEW q \in Seq(Downloads), NEW n \in Nat, NEW w \in 1 .. Len(q), w = n + 1,
         NEW S, NEW old, PartOf(old, q, n), NEW new, IsLonger(new, old, q[w], S)
  PROVE  PartOf(new, q, w)
<1>1. /\ Len(q) \in Nat /\ q[w] \in Downloads /\ DOMAIN q = 1 .. Len(q)
      /\ \A k \in 1 .. n : k \in 1 .. w /\ k \in 1 .. Len(q) /\ k # w
      /\ w \in 1 .. w
  BY LenProperties
<1>2. /\ old \in Seq(Downloads) /\ \A i \in 1 .. Len(old) : \E k \in 1 .. n : old[i] = q[k]
      /\ NoRepeat(q) => NoRepeat(old)
  BY DEF PartOf
<1>3. CASE q[w] \notin S
  <2>1. new = old
    BY <1>3 DEF IsLonger
  <2>2. \A i \in 1 .. Len(old) : \E k \in 1 .. w : old[i] = q[k]
    BY <1>1, <1>2
  <2> QED  BY <1>2, <2>1, <2>2 DEF PartOf
<1>4. CASE q[w] \in S
  <2>1. new = Append(old, q[w])
    BY <1>4 DEF IsLonger
  <2>2. /\ new \in Seq(Downloads) /\ Len(new) = Len(old) + 1 /\ Len(old) \in Nat
        /\ \A i \in 1 .. Len(old) : new[i] = old[i]
        /\ new[Len(old) + 1] = q[w]
    BY <1>1, <1>2, <2>1, AppendElements
  <2>3. \A i \in 1 .. Len(new) : i \in 1 .. Len(old) \/ i = Len(old) + 1
    BY <2>2
  <2>4. \A i \in 1 .. Len(new) : \E k \in 1 .. w : new[i] = q[k]
    <3> SUFFICES ASSUME NEW i \in 1 .. Len(new) PROVE \E k \in 1 .. w : new[i] = q[k]
      OBVIOUS
    <3>1. CASE i \in 1 .. Len(old)
      <4>1. PICK k \in 1 .. n : old[i] = q[k]
        BY <1>2, <3>1
      <4> QED  BY <1>1, <2>2, <3>1, <4>1
    <3>2. CASE i = Len(old) + 1
      BY <1>1, <2>2, <3>2
    <3> QED  BY <2>3, <3>1, <3>2
  <2>5. ASSUME NoRepeat(q) PROVE NoRepeat(new)
    <3>1. DOMAIN new = 1 .. Len(new) /\ DOMAIN old = 1 .. Len(old)
      BY <1>2, <2>2, LenProperties
    <3>2. \A i \in 1 .. Len(old) : old[i] # q[w]
      <4> SUFFICES ASSUME NEW i \in 1 .. Len(old) PROVE old[i] # q[w]
        OBVIOUS
      <4>1. PICK k \in 1 .. n : old[i] = q[k]
        BY <1>2
      <4> QED  BY <1>1, <2>5, <4>1 DEF NoRepeat
    <3>3. NoRepeat(old)
      BY <1>2, <2>5
    <3> SUFFICES ASSUME NEW i \in 1 .. Len(new), NEW j \in 1 .. Len(new), new[i] = new[j]
                 PROVE  i = j
      BY <3>1 DEF NoRepeat
    <3> QED  BY <2>2, <2>3, <3>1, <3>2, <3>3 DEF NoRepeat
  <2> QED  BY <2>2, <2>4, <2>5 DEF PartOf
<1> QED  BY <1>3, <1>4

LEMMA KeptIsPart ==
  ASSUME NEW q \in Seq(Downloads), NEW S
  PROVE  PartOf(Those(q, S), q, Len(q))
<1> DEFINE Bad == {k \in 0 .. Len(q) : ~PartOf(Kept(q, 0, k, S), q, k)}
<1>1. Len(q) \in Nat /\ Bad \in SUBSET Nat /\ 0 \in 0 .. Len(q) /\ 0 + 1 = 1
  BY LenProperties
<1>2. ASSUME Bad # {} PROVE FALSE
  <2>1. PICK k \in Bad : \A l \in Bad : k <= l
    BY <1>1, <1>2, LeastNumber
  <2>2. CASE k = 0
    <3>1. Kept(q, 0, 0, S) = <<>>
      BY <1>1, KeptNone
    <3>2. <<>> \in Seq(Downloads) /\ Len(<<>>) = 0 /\ NoRepeat(<<>>)
      BY EmptySeq DEF NoRepeat
    <3>3. PartOf(<<>>, q, 0)
      BY <3>2 DEF PartOf
    <3> QED  BY <2>1, <2>2, <3>1, <3>3
  <2>3. CASE k # 0
    <3> DEFINE n == k - 1
    <3>1. n \in Nat /\ n \in 0 .. Len(q) /\ k \in 1 .. Len(q) /\ k = n + 1 /\ ~(k <= n)
      BY <1>1, <2>1, <2>3
    <3> HIDE DEF n
    <3>2. PartOf(Kept(q, 0, n, S), q, n)
      BY <2>1, <3>1
    <3>3. 0 \in Nat
      OBVIOUS
    <3>4. IsLonger(Kept(q, 0, k, S), Kept(q, 0, n, S), q[k], S)
      BY <3>1, <3>3, KeptNext
    <3>5. PartOf(Kept(q, 0, k, S), q, k)
      BY <3>1, <3>2, <3>4, PartGrows
    <3> QED  BY <2>1, <3>5
  <2> QED  BY <2>2, <2>3
<1>3. Len(q) \in 0 .. Len(q)
  BY <1>1
<1>4. PartOf(Kept(q, 0, Len(q), S), q, Len(q))
  BY <1>2, <1>3
<1>5. Kept(q, 0, Len(q), S) = Those(q, S)
  <2>1. SubSeq(q, 1, Len(q)) = q
    BY SubSeqFull
  <2> QED  BY <1>1, <2>1 DEF Kept
<1> QED  BY <1>4, <1>5

RemoveStart(q, m) == [q |-> q, m |-> m, i |-> 0, j |-> 0, position |-> 0]

LEMMA StartRemoves ==
  ASSUME NEW q \in Seq(Downloads), NEW m, NEW match, Fine(q, m, match), NEW stay
  PROVE  Removing(RemoveStart(q, m), q, match, stay, 0)
<1> DEFINE s == RemoveStart(q, m)
<1>1. Len(q) \in Nat /\ m \in [Predicates -> Nat \cup {NoMarker}] /\ 0 + 1 = 1
      /\ 0 \in 0 .. Len(q)
  BY LenProperties DEF Fine
<1>2. /\ s.q = q /\ s.m = m /\ s.i = 0 /\ s.j = 0 /\ s.position = 0 /\ s \in RemoveState
  BY <1>1 DEF RemoveStart, RemoveState
<1> HIDE DEF s
<1>3. <<>> \in Seq(Downloads) /\ Len(<<>>) = 0
  BY EmptySeq
<1>4. Kept(q, 0, 0, stay) = <<>>
  BY <1>1, KeptNone
<1>5. SubSeq(q, 0 + 1, Len(q)) = q
  BY <1>1, SubSeqFull
<1>6. Parts(q, <<>>, <<>>, <<>>, q)
  BY <1>1, <1>3 DEF Parts
<1> DEFINE nil == <<>>
<1>7. /\ Len(nil) = 0 /\ Kept(q, 0, 0, stay) = nil /\ Parts(q, nil, nil, <<>>, q)
      /\ Parts(q, nil, <<>>, <<>>, q) /\ 0 + 0 = 0
  BY <1>3, <1>4, <1>6
<1> HIDE DEF nil
<1>8. Cleared(s, q, match, stay, 0, nil, nil, q)
  BY <1>1, <1>2, <1>5, <1>7 DEF Cleared
<1> QED  BY <1>8 DEF Removing, s

(***************************************************************************)
(* A download takes one turn or, when a range is erased before it, two.    *)
(***************************************************************************)
Advanced(s, q, match, stay, gone, t) ==
  \E n \in 0 .. Len(q) :
    /\ Removing(s, q, match, stay, n)
    /\ \/ t <= 2 * n
       \/ n = Len(q)
       \/ n < Len(q) /\ s.i = s.j /\ q[n + 1] \notin gone /\ t <= 2 * n + 1

LEMMA LastTurn ==
  ASSUME NEW q \in Seq(Downloads), NEW match, NEW stay, NEW gone,
         NEW s, Removing(s, q, match, stay, Len(q))
  PROVE  RemoveTurn(s, gone) = s
<1>1. PICK a, g, v : Cleared(s, q, match, stay, Len(q), a, g, v)
  BY DEF Removing
<1>2. Len(q) \in Nat /\ SubSeq(q, Len(q) + 1, Len(q)) = <<>> /\ Len(<<>>) = 0
  BY LenProperties, SubSeqEmpty, EmptySeq
<1>3. Parts(s.q, a, g, <<>>, <<>>) /\ s.j = Len(a) + Len(g)
  BY <1>1, <1>2 DEF Cleared
<1>4. s.j = Len(s.q)
  BY <1>2, <1>3, LenProperties DEF Parts
<1> QED  BY <1>4 DEF RemoveTurn

LEMMA RemoveAdvances ==
  ASSUME NEW q \in Seq(Downloads), NEW match, NEW gone \in SUBSET Downloads,
         NEW stay, stay = Downloads \ gone,
         NEW t \in Nat, NEW u, u = t + 1,
         NEW s, Advanced(s, q, match, stay, gone, t)
  PROVE  Advanced(RemoveTurn(s, gone), q, match, stay, gone, u)
<1> DEFINE r == RemoveTurn(s, gone)
<1>1. PICK n \in 0 .. Len(q) :
        /\ Removing(s, q, match, stay, n)
        /\ \/ t <= 2 * n
           \/ n = Len(q)
           \/ n < Len(q) /\ s.i = s.j /\ q[n + 1] \notin gone /\ t <= 2 * n + 1
  BY DEF Advanced
<1>2. Len(q) \in Nat /\ n \in Nat
  BY LenProperties
<1>3. CASE n = Len(q)
  <2>1. r = s
    BY <1>1, <1>3, LastTurn
  <2> HIDE DEF r
  <2>2. Advanced(r, q, match, stay, gone, u)
    BY <1>1, <1>3, <2>1 DEF Advanced
  <2> QED  BY <2>2 DEF r
<1>4. CASE n # Len(q)
  <2> DEFINE w == n + 1
  <2>1. w \in 1 .. Len(q) /\ w \in 0 .. Len(q) /\ w = n + 1 /\ n < Len(q)
    BY <1>2, <1>4
  <2> HIDE DEF w
  <2>2. TurnOf(r, s, q, match, stay, gone, n, w)
    BY <1>1, <1>2, <2>1, RemoveStep
  <2> HIDE DEF r
  <2>3. CASE q[w] \in gone \/ s.i = s.j
    <3>1. Removing(r, q, match, stay, w)
      BY <2>2, <2>3 DEF TurnOf
    <3>2. u <= 2 * w
      BY <1>1, <1>2, <1>4, <2>1
    <3>3. Advanced(r, q, match, stay, gone, u)
      BY <2>1, <3>1, <3>2 DEF Advanced
    <3> QED  BY <3>3 DEF r
  <2>4. CASE q[w] \notin gone /\ s.i # s.j
    <3>1. Removing(r, q, match, stay, n) /\ r.i = r.j
      BY <2>2, <2>4 DEF TurnOf
    <3>2. u <= 2 * n + 1
      BY <1>1, <1>2, <1>4, <2>4
    <3>3. Advanced(r, q, match, stay, gone, u)
      BY <2>1, <2>4, <3>1, <3>2 DEF Advanced
    <3> QED  BY <3>3 DEF r
  <2> QED  BY <2>3, <2>4
<1> QED  BY <1>3, <1>4

LEMMA RemoveEnds ==
  ASSUME NEW q \in Seq(Downloads), NEW m, NEW match, Fine(q, m, match),
         NEW gone \in SUBSET Downloads, NEW stay, stay = Downloads \ gone,
         NEW N \in Nat, N = 2 * Len(q),
         NEW turn, IsRemove(RemoveStart(q, m), gone, N, turn)
  PROVE  Removing(turn[N], q, match, stay, Len(q))
<1> DEFINE Bad == {k \in 0 .. N : ~Advanced(turn[k], q, match, stay, gone, k)}
<1>1. Len(q) \in Nat /\ Bad \in SUBSET Nat /\ 0 \in 0 .. Len(q) /\ 0 \in 0 .. N /\ N \in 0 .. N
  BY LenProperties
<1>2. \A l \in 0 .. N :
        turn[l] = IF l = 0 THEN RemoveStart(q, m) ELSE RemoveTurn(turn[l - 1], gone)
  BY DEF IsRemove
<1>3. ASSUME Bad # {} PROVE FALSE
  <2>1. PICK k \in Bad : \A l \in Bad : k <= l
    BY <1>1, <1>3, LeastNumber
  <2>2. CASE k = 0
    <3>1. turn[0] = RemoveStart(q, m)
      BY <1>1, <1>2
    <3>2. Removing(turn[0], q, match, stay, 0) /\ 0 <= 2 * 0
      BY <3>1, StartRemoves
    <3>3. Advanced(turn[0], q, match, stay, gone, 0)
      BY <1>1, <3>2 DEF Advanced
    <3> QED  BY <2>1, <2>2, <3>3
  <2>3. CASE k # 0
    <3> DEFINE n == k - 1
    <3>1. n \in Nat /\ n \in 0 .. N /\ k \in 0 .. N /\ k = n + 1 /\ ~(k <= n)
      BY <1>1, <2>1, <2>3
    <3>2. turn[k] = RemoveTurn(turn[n], gone)
      BY <1>2, <2>3, <3>1
    <3> HIDE DEF n
    <3>3. Advanced(turn[n], q, match, stay, gone, n)
      BY <2>1, <3>1
    <3>4. Advanced(RemoveTurn(turn[n], gone), q, match, stay, gone, k)
      BY <3>1, <3>3, RemoveAdvances
    <3> QED  BY <2>1, <3>2, <3>4
  <2> QED  BY <2>2, <2>3
<1>4. Advanced(turn[N], q, match, stay, gone, N)
  BY <1>1, <1>3
<1>5. PICK n \in 0 .. Len(q) :
        /\ Removing(turn[N], q, match, stay, n)
        /\ N <= 2 * n \/ n = Len(q) \/ (n < Len(q) /\ N <= 2 * n + 1)
  BY <1>4 DEF Advanced
<1>6. n = Len(q)
  BY <1>1, <1>5
<1> QED  BY <1>5, <1>6

RemovedBy(q, m, gone, turn) ==
  /\ IsRemove(RemoveStart(q, m), gone, 2 * Len(q), turn)
  /\ Removed(q, m, gone) = LET end == turn[2 * Len(q)]
                           IN [q |-> Erased(end.q, end.i, end.j), m |-> end.m]

LEMMA RemovedIs ==
  ASSUME NEW q, NEW m, NEW gone, 2 * Len(q) \in Nat
  PROVE  \E turn : RemovedBy(q, m, gone, turn)
<1> DEFINE s == RemoveStart(q, m)
           turn == CHOOSE t : IsRemove(s, gone, 2 * Len(q), t)
<1>1. IsRemove(s, gone, 2 * Len(q), turn)
  BY RemoveExists, Zenon
<1>2. Removed(q, m, gone) = LET end == turn[2 * Len(q)]
                            IN [q |-> Erased(end.q, end.i, end.j), m |-> end.m]
  BY Zenon DEF Removed, IsRemove, RemoveStart
<1> HIDE DEF turn
<1> QED  BY <1>1, <1>2 DEF RemovedBy

LEMMA PartsOne ==
  ASSUME NEW q, NEW a, Parts(q, a, <<>>, <<>>, <<>>)
  PROVE  q = a
<1> DEFINE nil == <<>>
<1>1. Parts(q, a, nil, nil, nil) /\ a \in Seq(Downloads) /\ nil = <<>>
  BY DEF Parts
<1> HIDE DEF nil
<1>2. q = a \o nil \o nil
  BY <1>1, PartsEqual
<1>3. a \o nil = a
  BY <1>1, ConcatEmptySeq
<1> QED  BY <1>2, <1>3

\* The downloads gone are removed and no other, and the markers follow.
RemovedRight(r, q, match, gone) ==
  /\ r.q = Those(q, Downloads \ gone) /\ PartOf(r.q, q, Len(q)) /\ Fine(r.q, r.m, match)

LEMMA RemovedIsRight ==
  ASSUME NEW q \in Seq(Downloads), NEW m, NEW match, Fine(q, m, match),
         NEW gone \in SUBSET Downloads
  PROVE  RemovedRight(Removed(q, m, gone), q, match, gone)
<1> DEFINE N == 2 * Len(q)
           stay == Downloads \ gone
           result == Removed(q, m, gone)
<1> SUFFICES RemovedRight(result, q, match, gone)
  OBVIOUS
<1>1. Len(q) \in Nat /\ N \in Nat
  BY LenProperties
<1>2. PICK turn : RemovedBy(q, m, gone, turn)
  BY <1>1, RemovedIs
<1> DEFINE e == turn[N]
<1>3. /\ IsRemove(RemoveStart(q, m), gone, N, turn)
      /\ result = [q |-> Erased(e.q, e.i, e.j), m |-> e.m]
  BY <1>2 DEF RemovedBy
<1>4. result.q = Erased(e.q, e.i, e.j) /\ result.m = e.m
  BY <1>3
<1>5. Removing(e, q, match, stay, Len(q))
  <2>1. N = 2 * Len(q) /\ stay = Downloads \ gone
    OBVIOUS
  <2> HIDE DEF N, stay
  <2> QED  BY <1>1, <1>3, <2>1, RemoveEnds
<1> HIDE DEF e, result
<1>6. PICK a, g, v : Cleared(e, q, match, stay, Len(q), a, g, v)
  BY <1>5 DEF Removing
<1>7. SubSeq(q, Len(q) + 1, Len(q)) = <<>> /\ SubSeq(q, 1, Len(q)) = q /\ 0 + 1 = 1
  BY <1>1, SubSeqEmpty, SubSeqFull
<1>8. /\ a = Kept(q, 0, Len(q), stay) /\ Parts(e.q, a, g, <<>>, <<>>)
      /\ Parts(v, a, <<>>, <<>>, <<>>) /\ Fine(v, e.m, match)
      /\ e.i = Len(a) /\ e.j = Len(a) + Len(g)
  BY <1>6, <1>7 DEF Cleared
<1>9. a = Those(q, stay)
  BY <1>7, <1>8 DEF Kept
<1>10. Parts(result.q, a, <<>>, <<>>, <<>>)
  BY <1>4, <1>8, ErasedParts
<1>11. result.q = a /\ v = a
  BY <1>8, <1>10, PartsOne
<1>12. PartOf(a, q, Len(q))
  BY <1>9, KeptIsPart
<1> QED  BY <1>4, <1>8, <1>9, <1>11, <1>12 DEF RemovedRight

-----------------------------------------------------------------------------
(* One insertion, one removal.                                             *)

LEMMA MarkersInserted ==
  ASSUME NEW q \in Seq(Downloads), NEW m, NEW match, Fine(q, m, match),
         NEW i \in Nat, NEW n, n = (IF i < Len(q) THEN i ELSE Len(q)) + 1,
         NEW d, NEW r, IsInserted(Downloads, q, n, d, r)
  PROVE  Fine(r, MarkersInsert(m, match, i, d), match)
<1> DEFINE new == MarkersInsert(m, match, i, d)
<1>1. Len(q) \in Nat /\ Len(r) = Len(q) + 1 /\ n \in 1 .. Len(q) + 1
  BY LenProperties DEF IsInserted
<1>2. /\ new = [P \in Predicates |-> new[P]]
      /\ \A P \in Predicates : new[P] = IF d \notin match[P]
                                        THEN IF i <= m[P] THEN m[P] + 1 ELSE m[P]
                                        ELSE IF i < m[P] THEN i ELSE m[P]
  BY DEF MarkersInsert
<1> HIDE DEF new
<1>3. ASSUME NEW P \in Predicates PROVE FineAt(r, new[P], match[P])
  <2> DEFINE p == m[P]
  <2>1. FineAt(q, p, match[P])
    BY DEF Fine
  <2>2. /\ p \in Nat \cup {-1} /\ p <= Len(q)
        /\ new[P] = IF d \notin match[P] THEN IF i <= p THEN p + 1 ELSE p
                                         ELSE IF i < p THEN i ELSE p
    BY <1>2, <2>1 DEF FineAt, NoMarker
  <2> HIDE DEF p
  <2>3. new[P] \in Nat \cup {-1} /\ new[P] <= Len(r)
    BY <1>1, <2>2
  <2>4. ASSUME NEW k \in 1 .. Len(r), k <= new[P] PROVE r[k] \notin match[P]
    <3>1. r[k] = IF k < n THEN q[k] ELSE IF k = n THEN d ELSE q[k - 1]
      BY <1>1 DEF IsInserted
    <3>2. CASE k < n
      <4>1. k <= p /\ k \in 1 .. Len(q)
        BY <1>1, <2>2, <2>4, <3>2
      <4> QED  BY <2>1, <3>1, <3>2, <4>1 DEF FineAt
    <3>3. CASE k = n
      <4>1. d \notin match[P]
        BY <1>1, <2>2, <2>4, <3>3
      <4> QED  BY <3>1, <3>3, <4>1
    <3>4. CASE k > n
      <4>1. k - 1 <= p /\ k - 1 \in 1 .. Len(q)
        BY <1>1, <2>2, <2>4, <3>4
      <4> QED  BY <1>1, <2>1, <3>1, <3>4, <4>1 DEF FineAt
    <3> QED  BY <1>1, <3>2, <3>3, <3>4
  <2> QED  BY <2>3, <2>4 DEF FineAt, NoMarker
<1>4. \A P \in Predicates : new[P] \in Nat \cup {NoMarker}
  BY <1>3 DEF FineAt
<1>5. new \in [Predicates -> Nat \cup {NoMarker}]
  BY <1>2, <1>4
<1>6. Fine(r, new, match)
  BY <1>3, <1>5 DEF Fine
<1> QED  BY <1>6 DEF new

\* The same list and markers, for predicates that accept less.
LEMMA FineForLess ==
  ASSUME NEW q, NEW m, NEW old, NEW new, Fine(q, m, old),
         \A P \in Predicates : \A i \in 1 .. Len(q) : q[i] \in new[P] => q[i] \in old[P]
  PROVE  Fine(q, m, new)
BY DEF Fine, FineAt

LEMMA InsertedOnce ==
  ASSUME NEW q \in Seq(Downloads), NoRepeat(q), NEW n \in 1 .. Len(q) + 1,
         NEW d \in Downloads, \A k \in 1 .. Len(q) : q[k] # d,
         NEW r, IsInserted(Downloads, q, n, d, r)
  PROVE  /\ NoRepeat(r) /\ ToSet(r) = ToSet(q) \cup {d}
<1>1. /\ Len(q) \in Nat /\ DOMAIN q = 1 .. Len(q) /\ r \in Seq(Downloads)
      /\ DOMAIN r = 1 .. Len(q) + 1 /\ n \in Nat /\ 1 <= n /\ n <= Len(q) + 1
  BY LenProperties DEF IsInserted
<1>2. \A i \in 1 .. Len(q) + 1 :
        r[i] = IF i < n THEN q[i] ELSE IF i = n THEN d ELSE q[i - 1]
  BY DEF IsInserted
<1>3. NoRepeat(r)
  <2> SUFFICES ASSUME NEW i \in 1 .. Len(q) + 1, NEW j \in 1 .. Len(q) + 1, r[i] = r[j]
               PROVE  i = j
    BY <1>1 DEF NoRepeat
  <2> DEFINE old(k) == IF k < n THEN k ELSE k - 1
  <2>1. /\ i # n => old(i) \in 1 .. Len(q) /\ r[i] = q[old(i)]
        /\ j # n => old(j) \in 1 .. Len(q) /\ r[j] = q[old(j)]
        /\ r[n] = d
    BY <1>1, <1>2
  <2>2. i = n <=> j = n
    BY <2>1
  <2>3. i # n /\ j # n => old(i) = old(j)
    BY <1>1, <2>1 DEF NoRepeat
  <2> QED  BY <1>1, <2>2, <2>3
<1>4. ASSUME NEW x \in ToSet(r) PROVE x \in ToSet(q) \cup {d}
  <2>1. PICK i \in 1 .. Len(q) + 1 : r[i] = x
    BY <1>1 DEF ToSet
  <2>2. i < n => i \in 1 .. Len(q)
    BY <1>1
  <2>3. i > n => i - 1 \in 1 .. Len(q)
    BY <1>1
  <2> QED  BY <1>1, <1>2, <2>1, <2>2, <2>3 DEF ToSet
<1>5. ASSUME NEW x \in ToSet(q) \cup {d} PROVE x \in ToSet(r)
  <2>1. CASE x = d
    BY <1>1, <1>2, <2>1 DEF ToSet
  <2>2. CASE x \in ToSet(q)
    <3>1. PICK i \in 1 .. Len(q) : q[i] = x
      BY <1>1, <2>2 DEF ToSet
    <3>2. CASE i < n
      BY <1>1, <1>2, <3>1, <3>2 DEF ToSet
    <3>3. CASE i >= n
      <4>1. i + 1 \in 1 .. Len(q) + 1 /\ ~(i + 1 < n) /\ i + 1 # n /\ (i + 1) - 1 = i
        BY <1>1, <3>3
      <4>2. r[i + 1] = x
        BY <1>2, <3>1, <4>1
      <4> QED  BY <1>1, <4>1, <4>2 DEF ToSet
    <3> QED  BY <1>1, <3>2, <3>3
  <2> QED  BY <2>1, <2>2
<1> QED  BY <1>3, <1>4, <1>5

LEMMA RemovedOnce ==
  ASSUME NEW q \in Seq(Downloads), NoRepeat(q), NEW n \in 1 .. Len(q),
         NEW r, IsRemoved(Downloads, q, n, r)
  PROVE  NoRepeat(r) /\ ToSet(r) \subseteq ToSet(q)
<1>1. /\ Len(q) \in Nat /\ DOMAIN q = 1 .. Len(q) /\ r \in Seq(Downloads)
      /\ DOMAIN r = 1 .. Len(q) - 1 /\ n \in Nat
  BY LenProperties DEF IsRemoved
<1> DEFINE old(k) == IF k < n THEN k ELSE k + 1
<1>2. \A i \in 1 .. Len(q) - 1 : old(i) \in 1 .. Len(q) /\ r[i] = q[old(i)]
  BY <1>1 DEF IsRemoved
<1>3. ASSUME NEW i \in 1 .. Len(q) - 1, NEW j \in 1 .. Len(q) - 1, r[i] = r[j] PROVE i = j
  <2>1. old(i) = old(j)
    BY <1>1, <1>2, <1>3 DEF NoRepeat
  <2> QED  BY <1>1, <2>1
<1>4. NoRepeat(r)
  BY <1>1, <1>3 DEF NoRepeat
<1>5. ToSet(r) \subseteq ToSet(q)
  BY <1>1, <1>2 DEF ToSet
<1> QED  BY <1>4, <1>5

\* The place of d among the downloads of q.
LEMMA PlaceOf ==
  ASSUME NEW q \in Seq(Downloads), NEW d \in ToSet(q)
  PROVE  SelectInSeq(q, LAMBDA e : e = d) \in 1 .. Len(q)
<1> DEFINE I == {i \in 1 .. Len(q) : q[i] = d}
<1>1. Len(q) \in Nat /\ DOMAIN q = 1 .. Len(q) /\ I \in SUBSET Nat
  BY LenProperties
<1>2. I # {}
  BY <1>1 DEF ToSet
<1>3. PICK x \in I : \A y \in I : x <= y
  BY <1>1, <1>2, LeastNumber
<1>4. SelectInSeq(q, LAMBDA e : e = d) = IF I # {} THEN Min(I) ELSE 0
  BY DEF SelectInSeq
<1> HIDE DEF I
<1>5. Min(I) = x
  BY <1>1, <1>3, LeastIs
<1>6. x \in 1 .. Len(q)
  BY <1>3 DEF I
<1> QED  BY <1>2, <1>4, <1>5, <1>6

(***************************************************************************)
(* The lists of entries have no repetition.                                *)
(***************************************************************************)
LEMMA ListsFacts ==
  ASSUME NEW S \in SUBSET Downloads, NEW list \in Lists(S)
  PROVE  list \in Seq(Downloads) /\ NoRepeat(list) /\ ToSet(list) \subseteq S
<1>1. PICK T \in SUBSET S : list \in SetToSeqs(T)
  BY DEF Lists
<1>2. IsFiniteSet(T)
  BY QueueAssumption, FS_Subset
<1>3. Cardinality(T) \in Nat
  BY <1>2, FS_CardinalityType
<1>4. /\ list \in [1 .. Cardinality(T) -> T]
      /\ \A i, j \in 1 .. Cardinality(T) : i # j => list[i] # list[j]
  BY <1>1 DEF SetToSeqs
<1>5. list \in [1 .. Cardinality(T) -> Downloads] /\ DOMAIN list = 1 .. Cardinality(T)
  BY <1>4
<1>6. list \in Seq(Downloads)
  BY <1>3, <1>5, SeqDef
<1>7. NoRepeat(list)
  BY <1>4, <1>5 DEF NoRepeat
<1>8. ToSet(list) \subseteq S
  BY <1>4 DEF ToSet
<1> QED  BY <1>6, <1>7, <1>8

(***************************************************************************)
(* A list without repetition is as long as its set is large.               *)
(***************************************************************************)
LEMMA LengthIsCardinality ==
  ASSUME NEW q \in Seq(Downloads), NoRepeat(q)
  PROVE  Len(q) = Cardinality(ToSet(q))
<1>1. Len(q) \in Nat /\ DOMAIN q = 1 .. Len(q)
  BY LenProperties
<1>2. q \in Bijection(1 .. Len(q), ToSet(q))
  <2>1. q \in [1 .. Len(q) -> ToSet(q)]
    <3>1. q = [i \in 1 .. Len(q) |-> q[i]]
      BY <1>1
    <3>2. \A i \in 1 .. Len(q) : q[i] \in ToSet(q)
      BY <1>1 DEF ToSet
    <3> QED  BY <3>1, <3>2
  <2>2. \A i, j \in 1 .. Len(q) : q[i] = q[j] => i = j
    BY <1>1 DEF NoRepeat
  <2>3. \A x \in ToSet(q) : \E i \in 1 .. Len(q) : q[i] = x
    BY <1>1 DEF ToSet
  <2> QED  BY <2>1, <2>2, <2>3 DEF Bijection, Injection, Surjection, IsInjective
<1>3. ExistsBijection(1 .. Len(q), ToSet(q))
  BY <1>2 DEF ExistsBijection
<1>4. IsFiniteSet(1 .. Len(q)) /\ Cardinality(1 .. Len(q)) = Len(q)
  <2>1. /\ IsFiniteSet(1 .. Len(q))
        /\ Cardinality(1 .. Len(q)) = IF 1 > Len(q) THEN 0 ELSE Len(q) - 1 + 1
    BY <1>1, FS_Interval
  <2> QED  BY <1>1, <2>1
<1> QED  BY <1>3, <1>4, FS_Bijection

-----------------------------------------------------------------------------
(***************************************************************************)
(* The inductive invariant: the list holds no download twice, and none     *)
(* that was never added; nothing that matches is before a marker; what the *)
(* loop has still to add was never added; and as long as no child is       *)
(* skipped, the children added stand from the place of their directory.    *)
(***************************************************************************)
Statuses == {"NONE", "QUEUED", "COMPLETE", "DELETED"}

ListIsSound ==
  /\ downloads \in Seq(Downloads) /\ NoRepeat(downloads)
  /\ \A d \in Queued : status[d] # "NONE"

MarkersAreFine == Fine(downloads, marker, Matching)

AddingIsSound ==
  /\ adding \in Adding /\ NoRepeat(adding.list) /\ adding.done <= Len(adding.list)
  /\ \A i \in 1 .. Len(adding.list) : i > adding.done => status[adding.list[i]] = "NONE"
  /\ ~adding.active => adding = Idle

ChildrenInOrder ==
  adding.dir # NoDir /\ NoneSkipped =>
    /\ adding.first + adding.done <= Len(downloads)
    /\ \A k \in 1 .. adding.done : downloads[adding.first + k] = adding.list[k]

QueueInv ==
  /\ ListIsSound /\ MarkersAreFine /\ AddingIsSound /\ ChildrenInOrder
  /\ status \in [Downloads -> Statuses] /\ loaded \in BOOLEAN /\ stored \subseteq Downloads

LEMMA InitInv == Init => QueueInv
<1> SUFFICES ASSUME Init PROVE QueueInv
  OBVIOUS
<1>1. /\ downloads = <<>> /\ status = [d \in Downloads |-> "NONE"] /\ adding = Idle
      /\ marker = [P \in Predicates |-> NoMarker] /\ loaded = FALSE /\ stored = {}
  BY DEF Init
<1>2. <<>> \in Seq(Downloads) /\ Len(<<>>) = 0
  BY EmptySeq
<1>3. ListIsSound
  BY <1>1, <1>2 DEF ListIsSound, NoRepeat, Queued, ToSet
<1>4. MarkersAreFine
  <2>1. \A P \in Predicates : FineAt(downloads, NoMarker, Matching[P])
    BY <1>1, <1>2 DEF FineAt, NoMarker
  <2> QED  BY <1>1, <2>1 DEF MarkersAreFine, Fine
<1>5. /\ Idle \in Adding /\ Idle.list = <<>> /\ Idle.done = 0 /\ Idle.dir = NoDir
      /\ ~Idle.active
  BY <1>2 DEF Idle, Adding
<1>6. AddingIsSound
  BY <1>1, <1>2, <1>5 DEF AddingIsSound, NoRepeat
<1>7. ChildrenInOrder
  BY <1>1, <1>5 DEF ChildrenInOrder
<1> QED  BY <1>1, <1>3, <1>4, <1>6, <1>7 DEF QueueInv, Statuses

\* A download whose status does not go back to a useful one matches no more than before.
LEMMA MatchesNoMore ==
  ASSUME NEW P \in Predicates, NEW x \in Downloads,
         status'[x] = status[x] \/ status'[x] \in {"COMPLETE", "DELETED"},
         x \in Matching'[P]
  PROVE  x \in Matching[P]
BY DEF Predicates, Matching

\* Outside of the loop that adds downloads there is nothing to say of it.
LEMMA IdleIsSound ==
  ASSUME adding' = Idle
  PROVE  AddingIsSound' /\ ChildrenInOrder'
<1>1. <<>> \in Seq(Downloads) /\ Len(<<>>) = 0
  BY EmptySeq
<1>2. /\ Idle \in Adding /\ Idle.list = <<>> /\ Idle.done = 0 /\ Idle.dir = NoDir
      /\ ~Idle.active
  BY <1>1 DEF Idle, Adding
<1>3. AddingIsSound'
  BY <1>1, <1>2 DEF AddingIsSound, NoRepeat
<1>4. ChildrenInOrder'
  BY <1>2 DEF ChildrenInOrder
<1> QED  BY <1>3, <1>4

-----------------------------------------------------------------------------
(* The actions that insert.                                                *)

\* What an insertion does to the list.
Grows(d, st, i) ==
  \/ downloads' = downloads /\ status' = status
  \/ /\ status' = [status EXCEPT ![d] = st] /\ Queued' = Queued \cup {d}
     /\ IsInserted(Downloads, downloads,
                   (IF i < Len(downloads) THEN i ELSE Len(downloads)) + 1, d, downloads')

LEMMA InsertKeeps ==
  ASSUME QueueInv, NEW d \in Downloads, status[d] = "NONE",
         NEW st \in {"QUEUED", "COMPLETE"}, NEW i \in Nat, Insert(d, st, i)
  PROVE  /\ ListIsSound' /\ MarkersAreFine' /\ status' \in [Downloads -> Statuses]
         /\ Grows(d, st, i)
<1>1. /\ downloads \in Seq(Downloads) /\ NoRepeat(downloads)
      /\ \A x \in Queued : status[x] # "NONE"
      /\ Fine(downloads, marker, Matching) /\ status \in [Downloads -> Statuses]
  BY DEF QueueInv, ListIsSound, MarkersAreFine
<1>2. Len(downloads) \in Nat /\ DOMAIN downloads = 1 .. Len(downloads)
  BY <1>1, LenProperties
<1>3. CASE IsEntryAlreadyQueued(d)
  <2>1. downloads' = downloads /\ status' = status /\ marker' = marker
    BY <1>3 DEF Insert
  <2>2. Queued' = Queued /\ Matching' = Matching
    BY <2>1 DEF Queued, Matching
  <2> QED  BY <1>1, <2>1, <2>2 DEF ListIsSound, MarkersAreFine, Grows
<1>4. CASE ~IsEntryAlreadyQueued(d)
  <2> DEFINE n == (IF i < Len(downloads) THEN i ELSE Len(downloads)) + 1
  <2>1. /\ status' = [status EXCEPT ![d] = st]
        /\ marker' = MarkersInsert(marker, Matching', i, d)
        /\ downloads' = InsertAt(downloads, n, d)
    BY <1>4 DEF Insert
  <2>2. n \in 1 .. Len(downloads) + 1 /\ n = (IF i < Len(downloads) THEN i ELSE Len(downloads)) + 1
    BY <1>2
  <2> HIDE DEF n
  <2>3. IsInserted(Downloads, downloads, n, d, downloads')
    BY <1>1, <2>1, <2>2, InsertFacts
  <2>4. \A k \in 1 .. Len(downloads) : downloads[k] # d /\ downloads[k] \in Downloads
    BY <1>1, <1>2, LenProperties DEF Queued, ToSet
  <2>5. NoRepeat(downloads') /\ ToSet(downloads') = ToSet(downloads) \cup {d}
    BY <1>1, <2>2, <2>3, <2>4, InsertedOnce
  <2>6. Queued' = Queued \cup {d}
    BY <2>5 DEF Queued
  <2>7. status' \in [Downloads -> Statuses] /\ status'[d] # "NONE"
        /\ \A x \in Downloads : x # d => status'[x] = status[x]
    BY <1>1, <2>1 DEF Statuses
  <2>8. Fine(downloads, marker, Matching')
    <3>1. ASSUME NEW P \in Predicates, NEW k \in 1 .. Len(downloads),
                 downloads[k] \in Matching'[P]
          PROVE  downloads[k] \in Matching[P]
      BY <2>4, <2>7, <3>1, MatchesNoMore
    <3> QED  BY <1>1, <3>1, FineForLess
  <2>9. Fine(downloads', marker', Matching')
    BY <1>1, <2>1, <2>2, <2>3, <2>8, MarkersInserted
  <2>10. downloads' \in Seq(Downloads)
    BY <2>3 DEF IsInserted
  <2>11. \A x \in Queued' : status'[x] # "NONE"
    <3>1. Queued \subseteq Downloads
      BY <1>2, <2>4 DEF Queued, ToSet
    <3> QED  BY <1>1, <2>6, <2>7, <3>1
  <2> QED  BY <2>1, <2>2, <2>3, <2>5, <2>6, <2>7, <2>9, <2>10, <2>11
           DEF ListIsSound, MarkersAreFine, Grows
<1> QED  BY <1>3, <1>4

LEMMA AddDownloadInv ==
  ASSUME QueueInv, NEW d \in Downloads, AddDownload(d)
  PROVE  QueueInv'
<1>1. /\ status[d] = "NONE" /\ Insert(d, "QUEUED", Len(downloads)) /\ ~adding.active
      /\ adding' = adding /\ loaded' = loaded /\ stored' = stored
  BY DEF AddDownload, Unused
<1>2. Len(downloads) \in Nat
  BY LenProperties DEF QueueInv, ListIsSound
<1>3. ListIsSound' /\ MarkersAreFine' /\ status' \in [Downloads -> Statuses]
  BY <1>1, <1>2, InsertKeeps
<1>4. adding' = Idle
  BY <1>1 DEF QueueInv, AddingIsSound
<1>5. AddingIsSound' /\ ChildrenInOrder'
  BY <1>4, IdleIsSound
<1> QED  BY <1>1, <1>3, <1>5 DEF QueueInv

LEMMA AddNextInv ==
  ASSUME QueueInv, AddNext
  PROVE  QueueInv'
<1> DEFINE n == adding.done + 1
           d == adding.list[n]
<1>1. PICK st \in {"QUEUED", "COMPLETE"} : \E found \in BOOLEAN :
        /\ adding.active /\ adding.done < Len(adding.list)
        /\ Insert(d, st, NextPosition)
        /\ stored' = IF found /\ status'[d] = "COMPLETE" THEN stored \cup {d} ELSE stored
        /\ adding' = [adding EXCEPT !.done = @ + 1] /\ loaded' = loaded
  BY DEF AddNext
<1>2. /\ adding \in Adding /\ NoRepeat(adding.list)
      /\ \A i \in 1 .. Len(adding.list) : i > adding.done => status[adding.list[i]] = "NONE"
      /\ downloads \in Seq(Downloads) /\ \A x \in Queued : status[x] # "NONE"
      /\ status \in [Downloads -> Statuses]
  BY DEF QueueInv, AddingIsSound, ListIsSound
<1>3. /\ adding.list \in Seq(Downloads) /\ adding.done \in Nat /\ adding.first \in Nat
      /\ Len(adding.list) \in Nat /\ Len(downloads) \in Nat
      /\ DOMAIN adding.list = 1 .. Len(adding.list)
  BY <1>2, LenProperties DEF Adding
<1>4. n \in 1 .. Len(adding.list) /\ n > adding.done /\ n \in Nat
  BY <1>1, <1>3
<1>5. d \in Downloads /\ status[d] = "NONE"
  BY <1>2, <1>3, <1>4, LenProperties
<1>6. NextPosition \in Nat
  BY <1>3 DEF NextPosition
<1>7. /\ ListIsSound' /\ MarkersAreFine' /\ status' \in [Downloads -> Statuses]
      /\ Grows(d, st, NextPosition)
  BY <1>1, <1>5, <1>6, InsertKeeps
<1>8. /\ adding' \in Adding /\ adding'.list = adding.list /\ adding'.done = n
      /\ adding'.dir = adding.dir /\ adding'.first = adding.first
      /\ adding'.active = adding.active
  <2>1. adding' = [adding EXCEPT !.done = n]
    BY <1>1
  <2> HIDE DEF n
  <2> QED  BY <1>2, <1>4, <2>1 DEF Adding
<1>9. \A i \in 1 .. Len(adding.list) : i # n => adding.list[i] # d
  BY <1>2, <1>3, <1>4 DEF NoRepeat
<1>10. \A x \in Downloads : x # d => status'[x] = status[x]
  BY <1>2, <1>7 DEF Grows
<1>11. AddingIsSound'
  <2>1. ASSUME NEW i \in 1 .. Len(adding.list), i > n PROVE status'[adding.list[i]] = "NONE"
    <3>1. i > adding.done /\ i # n /\ adding.list[i] \in Downloads
      BY <1>3, <1>4, <2>1, LenProperties
    <3> QED  BY <1>2, <1>9, <1>10, <3>1
  <2> HIDE DEF n, d
  <2> QED  BY <1>1, <1>2, <1>3, <1>4, <1>8, <2>1 DEF AddingIsSound
<1>12. ChildrenInOrder'
  <2> SUFFICES ASSUME adding.dir # NoDir, \A k \in 1 .. n : adding.list[k] \in Queued'
               PROVE  /\ adding.first + n <= Len(downloads')
                      /\ \A k \in 1 .. n : downloads'[adding.first + k] = adding.list[k]
    BY <1>8 DEF ChildrenInOrder, NoneSkipped
  <2>1. n \in 1 .. n /\ \A k \in 1 .. adding.done : k \in 1 .. n /\ k # n /\ k \in 1 .. Len(adding.list)
    BY <1>1, <1>3
  <2>2. d \in Queued' /\ d \notin Queued
    BY <1>2, <1>5, <2>1
  <2>3. downloads' # downloads
    BY <2>2 DEF Queued
  <2> DEFINE i == NextPosition
             p == (IF i < Len(downloads) THEN i ELSE Len(downloads)) + 1
  <2>4. Queued' = Queued \cup {d} /\ IsInserted(Downloads, downloads, p, d, downloads')
    BY <1>7, <2>3 DEF Grows
  <2>5. i = adding.first + adding.done
    BY DEF NextPosition
  <2>6. NoneSkipped
    BY <1>9, <2>1, <2>4 DEF NoneSkipped
  <2>7. /\ adding.first + adding.done <= Len(downloads)
        /\ \A k \in 1 .. adding.done : downloads[adding.first + k] = adding.list[k]
    BY <2>6 DEF QueueInv, ChildrenInOrder
  <2>8. p = adding.first + n
    BY <1>3, <2>5, <2>7
  <2> HIDE DEF i, p
  <2>9. /\ Len(downloads') = Len(downloads) + 1
        /\ \A k \in 1 .. Len(downloads) + 1 :
             downloads'[k] = IF k < p THEN downloads[k] ELSE IF k = p THEN d ELSE downloads[k - 1]
    BY <2>4 DEF IsInserted
  <2>10. adding.first + n <= Len(downloads')
    BY <1>3, <2>7, <2>9
  <2>11. ASSUME NEW k \in 1 .. n PROVE downloads'[adding.first + k] = adding.list[k]
    <3>1. adding.first + k \in 1 .. Len(downloads) + 1
      BY <1>3, <2>7
    <3>2. CASE k = n
      BY <2>8, <2>9, <3>1, <3>2
    <3>3. CASE k # n
      <4>1. k \in 1 .. adding.done /\ adding.first + k < p
        BY <1>3, <2>8, <3>3
      <4> QED  BY <2>7, <2>9, <3>1, <4>1
    <3> QED  BY <3>2, <3>3
  <2> QED  BY <2>10, <2>11
<1>13. stored' \subseteq Downloads /\ loaded' \in BOOLEAN
  BY <1>1, <1>5 DEF QueueInv
<1> QED  BY <1>7, <1>11, <1>12, <1>13 DEF QueueInv

-----------------------------------------------------------------------------
(* The other actions of the loop that adds downloads.                      *)

LEMMA LoadQueueInv ==
  ASSUME QueueInv, NEW list \in Lists({d \in Unused : Parent[d] = NoDir}),
         LoadQueueFromFile(list)
  PROVE  QueueInv'
<1>1. /\ adding' = [Idle EXCEPT !.active = TRUE, !.list = list]
      /\ downloads' = downloads /\ status' = status /\ marker' = marker
      /\ loaded' = loaded /\ stored' = stored
  BY DEF LoadQueueFromFile
<1>2. {d \in Unused : Parent[d] = NoDir} \in SUBSET Downloads
  BY DEF Unused
<1>3. /\ list \in Seq(Downloads) /\ NoRepeat(list)
      /\ ToSet(list) \subseteq {d \in Unused : Parent[d] = NoDir}
  BY <1>2, ListsFacts
<1>4. Len(list) \in Nat /\ DOMAIN list = 1 .. Len(list)
  BY <1>3, LenProperties
<1>5. /\ adding' \in Adding /\ adding'.list = list /\ adding'.done = 0
      /\ adding'.active = TRUE /\ adding'.dir = NoDir
  BY <1>1, <1>3 DEF Adding, Idle
<1>6. \A i \in 1 .. Len(list) : status[list[i]] = "NONE"
  BY <1>3, <1>4 DEF ToSet, Unused
<1>7. AddingIsSound'
  BY <1>1, <1>3, <1>4, <1>5, <1>6 DEF AddingIsSound
<1>8. ChildrenInOrder'
  BY <1>5 DEF ChildrenInOrder
<1>9. ListIsSound' /\ MarkersAreFine'
  BY <1>1 DEF QueueInv, ListIsSound, MarkersAreFine, Queued, Matching
<1> QED  BY <1>1, <1>7, <1>8, <1>9 DEF QueueInv

LEMMA NewEntriesInv ==
  ASSUME QueueInv, NEW dir \in Dirs,
         NEW list \in Lists({d \in Unused : Parent[d] = dir}), NewEntries(dir, list)
  PROVE  QueueInv'
<1> DEFINE n == SelectInSeq(downloads, LAMBDA e : e = dir)
           position == n - 1
<1>1. /\ dir \in Queued
      /\ marker' = MarkersRemove(marker, position)
      /\ downloads' = RemoveAt(downloads, position + 1)
      /\ adding' = [active |-> TRUE, list |-> list, done |-> 0, dir |-> dir, first |-> position]
      /\ status' = status /\ loaded' = loaded /\ stored' = stored
  BY DEF NewEntries
<1>2. /\ downloads \in Seq(Downloads) /\ NoRepeat(downloads)
      /\ \A d \in Queued : status[d] # "NONE" /\ Fine(downloads, marker, Matching)
  BY DEF QueueInv, ListIsSound, MarkersAreFine
<1>3. n \in 1 .. Len(downloads)
  BY <1>1, <1>2, PlaceOf DEF Queued
<1>4. Len(downloads) \in Nat /\ Fine(downloads, marker, Matching)
  BY <1>2, LenProperties DEF QueueInv, MarkersAreFine
<1> HIDE DEF n
<1>5. position \in Nat /\ position < Len(downloads) /\ position + 1 = n
  BY <1>3, <1>4
<1> HIDE DEF position
<1>6. IsRemoved(Downloads, downloads, n, downloads')
  BY <1>1, <1>2, <1>3, <1>5, RemoveFacts
<1>7. NoRepeat(downloads') /\ ToSet(downloads') \subseteq ToSet(downloads)
  BY <1>2, <1>3, <1>6, RemovedOnce
<1>8. ListIsSound'
  BY <1>1, <1>2, <1>6, <1>7 DEF ListIsSound, IsRemoved, Queued
<1>9. MarkersAreFine'
  <2>1. Fine(downloads', marker', Matching)
    BY <1>1, <1>2, <1>4, <1>5, <1>6, MarkersRemoved
  <2>2. Matching' = Matching
    BY <1>1 DEF Matching
  <2> QED  BY <2>1, <2>2 DEF MarkersAreFine
<1>10. {d \in Unused : Parent[d] = dir} \in SUBSET Downloads
  BY DEF Unused
<1>11. /\ list \in Seq(Downloads) /\ NoRepeat(list)
       /\ ToSet(list) \subseteq {d \in Unused : Parent[d] = dir}
  BY <1>10, ListsFacts
<1>12. Len(list) \in Nat /\ DOMAIN list = 1 .. Len(list)
  BY <1>11, LenProperties
<1>13. /\ adding' \in Adding /\ adding'.list = list /\ adding'.done = 0
       /\ adding'.active = TRUE /\ adding'.first = position
  BY <1>1, <1>5, <1>11 DEF Adding
<1>14. \A i \in 1 .. Len(list) : status[list[i]] = "NONE"
  BY <1>11, <1>12 DEF ToSet, Unused
<1>15. AddingIsSound'
  BY <1>1, <1>11, <1>12, <1>13, <1>14 DEF AddingIsSound
<1>16. ChildrenInOrder'
  <2>1. Len(downloads') = Len(downloads) - 1
    BY <1>6 DEF IsRemoved
  <2>2. adding'.first + adding'.done <= Len(downloads')
    BY <1>4, <1>5, <1>13, <2>1
  <2>3. \A k \in 1 .. 0 : downloads'[adding'.first + k] = adding'.list[k]
    OBVIOUS
  <2> QED  BY <1>13, <2>2, <2>3 DEF ChildrenInOrder
<1> QED  BY <1>1, <1>8, <1>9, <1>15, <1>16 DEF QueueInv

\* The list does not change, and no status goes back to NONE or QUEUED.
LEMMA OnlyEnds ==
  ASSUME QueueInv, downloads' = downloads, marker' = marker,
         \A d \in Downloads : status'[d] = status[d] \/ status'[d] \in {"COMPLETE", "DELETED"}
  PROVE  ListIsSound' /\ MarkersAreFine'
<1>1. /\ downloads \in Seq(Downloads) /\ NoRepeat(downloads)
      /\ \A d \in Queued : status[d] # "NONE"
  BY DEF QueueInv, ListIsSound
<1>2. /\ \A i \in 1 .. Len(downloads) : downloads[i] \in Downloads
      /\ DOMAIN downloads = 1 .. Len(downloads)
  BY <1>1, LenProperties
<1>3. Queued' = Queued /\ Queued \subseteq Downloads
  BY <1>2 DEF Queued, ToSet
<1>4. ListIsSound'
  BY <1>1, <1>3 DEF ListIsSound
<1>5. ASSUME NEW P \in Predicates, NEW i \in 1 .. Len(downloads), downloads[i] \in Matching'[P]
      PROVE  downloads[i] \in Matching[P]
  BY <1>2, <1>5, MatchesNoMore
<1>6. Fine(downloads, marker, Matching')
  BY <1>5, FineForLess DEF QueueInv, MarkersAreFine
<1> QED  BY <1>4, <1>6 DEF MarkersAreFine

LEMMA EndAddingInv ==
  ASSUME QueueInv, EndAdding
  PROVE  QueueInv'
<1>1. /\ adding' = Idle /\ loaded' = (loaded \/ adding.dir = NoDir)
      /\ status' = [d \in Downloads |-> IF d = adding.dir THEN "DELETED" ELSE status[d]]
      /\ downloads' = downloads /\ marker' = marker /\ stored' = stored
  BY DEF EndAdding
<1>2. status' \in [Downloads -> Statuses]
  BY <1>1 DEF QueueInv, Statuses
<1>3. \A d \in Downloads : status'[d] = status[d] \/ status'[d] \in {"COMPLETE", "DELETED"}
  BY <1>1
<1>4. ListIsSound' /\ MarkersAreFine'
  BY <1>1, <1>3, OnlyEnds
<1>5. AddingIsSound' /\ ChildrenInOrder'
  BY <1>1, IdleIsSound
<1>6. loaded' \in BOOLEAN /\ stored' \subseteq Downloads
  BY <1>1 DEF QueueInv
<1> QED  BY <1>2, <1>4, <1>5, <1>6 DEF QueueInv

-----------------------------------------------------------------------------
(* The actions that insert nothing.                                        *)

LEMMA CompleteInv ==
  ASSUME QueueInv, NEW d \in Downloads, Complete(d)
  PROVE  QueueInv'
<1>1. /\ status[d] = "QUEUED" /\ status' = [status EXCEPT ![d] = "COMPLETE"]
      /\ stored' = stored \cup {d} /\ downloads' = downloads /\ marker' = marker
      /\ adding' = adding /\ loaded' = loaded
  BY DEF Complete
<1>2. /\ status' \in [Downloads -> Statuses]
      /\ \A x \in Downloads : status'[x] = status[x] \/ status'[x] \in {"COMPLETE", "DELETED"}
      /\ \A x \in Downloads : status[x] = "NONE" => status'[x] = "NONE"
  BY <1>1 DEF QueueInv, Statuses
<1>3. ListIsSound' /\ MarkersAreFine'
  BY <1>1, <1>2, OnlyEnds
<1>4. AddingIsSound'
  <2>1. adding \in Adding
    BY DEF QueueInv, AddingIsSound
  <2>2. \A i \in 1 .. Len(adding.list) : adding.list[i] \in Downloads
    <3>1. adding.list \in Seq(Downloads)
      BY <2>1 DEF Adding
    <3> QED  BY <3>1, LenProperties
  <2> QED  BY <1>1, <1>2, <2>2 DEF QueueInv, AddingIsSound
<1>5. ChildrenInOrder'
  BY <1>1 DEF QueueInv, ChildrenInOrder, NoneSkipped, Queued
<1> QED  BY <1>1, <1>2, <1>3, <1>4, <1>5 DEF QueueInv

\* A scan leaves its marker where it was or at the first match.
LEMMA FirstMatchIsFine ==
  ASSUME QueueInv, NEW P \in Predicates, NEW p \in {Position(P), FirstMatch(P)}
  PROVE  FineAt(downloads, p, Matching[P])
<1>1. /\ downloads \in Seq(Downloads) /\ FineAt(downloads, marker[P], Matching[P])
  BY DEF QueueInv, ListIsSound, MarkersAreFine, Fine
<1>2. Len(downloads) \in Nat /\ Position(P) \in Nat /\ Position(P) <= Len(downloads)
  BY <1>1, LenProperties DEF FineAt, Position, NoMarker
<1>3. \A i \in 1 .. Len(downloads) : i <= Position(P) => downloads[i] \notin Matching[P]
  BY <1>1, <1>2 DEF FineAt, Position, NoMarker
<1>4. FineAt(downloads, Position(P), Matching[P])
  BY <1>2, <1>3 DEF FineAt
<1> DEFINE hits == {i \in Position(P) .. Len(downloads) - 1 : downloads[i + 1] \in Matching[P]}
<1>5. FirstMatch(P) = IF hits = {} THEN Len(downloads) ELSE Min(hits)
  BY DEF FirstMatch
<1>6. hits \in SUBSET Nat
  BY <1>2
<1>7. \A i \in 1 .. Len(downloads) :
        i > Position(P) /\ downloads[i] \in Matching[P] => i - 1 \in hits
  BY <1>2
<1> HIDE DEF hits
<1>8. CASE hits = {}
  <2>1. \A i \in 1 .. Len(downloads) : downloads[i] \notin Matching[P]
    BY <1>2, <1>3, <1>7, <1>8
  <2>2. FineAt(downloads, Len(downloads), Matching[P])
    BY <1>2, <2>1 DEF FineAt
  <2> QED  BY <1>4, <1>5, <1>8, <2>2
<1>9. CASE hits # {}
  <2>1. PICK x \in hits : \A y \in hits : x <= y
    BY <1>6, <1>9, LeastNumber
  <2>2. x \in Nat /\ x <= Len(downloads)
    BY <1>2, <2>1 DEF hits
  <2>3. FirstMatch(P) = x
    BY <1>5, <1>6, <1>9, <2>1, LeastIs
  <2>4. \A i \in 1 .. Len(downloads) : i <= x => downloads[i] \notin Matching[P]
    <3> SUFFICES ASSUME NEW i \in 1 .. Len(downloads), i <= x, downloads[i] \in Matching[P]
                 PROVE  FALSE
      OBVIOUS
    <3>1. i - 1 \in hits
      BY <1>2, <1>3, <1>7
    <3>2. x <= i - 1
      BY <2>1, <3>1
    <3> QED  BY <2>2, <3>2
  <2>5. FineAt(downloads, x, Matching[P])
    BY <2>2, <2>4 DEF FineAt
  <2> QED  BY <1>4, <2>3, <2>5
<1> QED  BY <1>8, <1>9

LEMMA ScanInv ==
  ASSUME QueueInv, NEW P \in Predicates, Scan(P)
  PROVE  QueueInv'
<1>1. PICK p \in {Position(P), FirstMatch(P)} : marker' = [marker EXCEPT ![P] = p]
  BY DEF Scan
<1>2. /\ downloads' = downloads /\ status' = status /\ adding' = adding
      /\ loaded' = loaded /\ stored' = stored
  BY DEF Scan
<1>3. FineAt(downloads, p, Matching[P])
  BY <1>1, FirstMatchIsFine
<1>4. p \in Nat \cup {NoMarker} /\ Fine(downloads, marker, Matching)
  BY <1>3 DEF FineAt, QueueInv, MarkersAreFine
<1>5. Fine(downloads, marker', Matching)
  BY <1>1, <1>3, <1>4 DEF Fine
<1>6. MarkersAreFine'
  BY <1>2, <1>5 DEF MarkersAreFine, Matching
<1>7. ListIsSound' /\ AddingIsSound' /\ ChildrenInOrder'
  BY <1>2 DEF QueueInv, ListIsSound, AddingIsSound, ChildrenInOrder, NoneSkipped, Queued
<1> QED  BY <1>2, <1>6, <1>7 DEF QueueInv

LEMMA NamedFacts ==
  ASSUME NEW S \in Named
  PROVE  S \in SUBSET Downloads /\ S # {}
<1>1. Cardinality({}) = 0 /\ MaxNamed \in Nat
  BY FS_EmptySet, QueueAssumption
<1> QED  BY <1>1 DEF Named

LEMMA MoveDownloadsInv ==
  ASSUME QueueInv, NEW refs \in Named, NEW ids \in Named, NEW where \in {"BEFORE", "AFTER"},
         MoveDownloads(refs, ids, where)
  PROVE  QueueInv'
<1> DEFINE result == Moved(downloads, marker, Matching, refs, ids, where)
<1>1. /\ ~adding.active /\ downloads' = result.q /\ marker' = result.m
      /\ status' = status /\ adding' = adding /\ loaded' = loaded /\ stored' = stored
  BY DEF MoveDownloads
<1>2. /\ downloads \in Seq(Downloads) /\ NoRepeat(downloads) /\ Fine(downloads, marker, Matching)
      /\ \A d \in Queued : status[d] # "NONE"
  BY DEF QueueInv, ListIsSound, MarkersAreFine
<1>3. MovedRight(result, downloads, Matching, refs, ids, where)
  BY <1>2, NamedFacts, MovedIsRight
<1> HIDE DEF result
<1>4. SameDownloads(downloads', downloads) /\ Fine(downloads', marker', Matching)
  BY <1>1, <1>3 DEF MovedRight
<1>5. ListIsSound'
  BY <1>1, <1>2, <1>4 DEF ListIsSound, SameDownloads, Queued
<1>6. MarkersAreFine'
  BY <1>1, <1>4 DEF MarkersAreFine, Matching
<1>7. adding' = Idle
  BY <1>1 DEF QueueInv, AddingIsSound
<1>8. AddingIsSound' /\ ChildrenInOrder'
  BY <1>7, IdleIsSound
<1> QED  BY <1>1, <1>5, <1>6, <1>8 DEF QueueInv

LEMMA TakeOutInv ==
  ASSUME QueueInv, NEW gone \in SUBSET Downloads, TakeOut(gone)
  PROVE  QueueInv'
<1> DEFINE result == Removed(downloads, marker, gone)
<1>1. /\ ~adding.active /\ downloads' = result.q /\ marker' = result.m
      /\ status' = [d \in Downloads |-> IF d \in gone THEN "DELETED" ELSE status[d]]
      /\ stored' = stored \ gone /\ adding' = adding /\ loaded' = loaded
  BY DEF TakeOut
<1>2. /\ downloads \in Seq(Downloads) /\ NoRepeat(downloads) /\ Fine(downloads, marker, Matching)
      /\ \A d \in Queued : status[d] # "NONE" /\ stored \subseteq Downloads
  BY DEF QueueInv, ListIsSound, MarkersAreFine
<1>3. RemovedRight(result, downloads, Matching, gone)
  <2>1. Fine(downloads, marker, Matching)
    BY DEF QueueInv, MarkersAreFine
  <2> QED  BY <1>2, <2>1, RemovedIsRight
<1> HIDE DEF result
<1>4. PartOf(downloads', downloads, Len(downloads)) /\ Fine(downloads', marker', Matching)
  BY <1>1, <1>3 DEF RemovedRight
<1>5. /\ downloads' \in Seq(Downloads) /\ NoRepeat(downloads')
      /\ DOMAIN downloads' = 1 .. Len(downloads') /\ DOMAIN downloads = 1 .. Len(downloads)
      /\ \A i \in 1 .. Len(downloads') : downloads'[i] \in Downloads
  BY <1>2, <1>4, LenProperties DEF PartOf
<1>6. Queued' \subseteq Queued /\ Queued' \subseteq Downloads
  BY <1>4, <1>5 DEF Queued, ToSet, PartOf
<1>7. /\ status' \in [Downloads -> Statuses]
      /\ \A d \in Downloads : status'[d] = status[d] \/ status'[d] = "DELETED"
  BY <1>1 DEF QueueInv, Statuses
<1>8. ListIsSound'
  BY <1>2, <1>5, <1>6, <1>7 DEF ListIsSound
<1>9. MarkersAreFine'
  <2>1. ASSUME NEW P \in Predicates, NEW i \in 1 .. Len(downloads'),
               downloads'[i] \in Matching'[P]
        PROVE  downloads'[i] \in Matching[P]
    BY <1>5, <1>7, <2>1, MatchesNoMore
  <2> QED  BY <1>4, <2>1, FineForLess DEF MarkersAreFine
<1>10. adding' = Idle
  BY <1>1 DEF QueueInv, AddingIsSound
<1>11. AddingIsSound' /\ ChildrenInOrder'
  BY <1>10, IdleIsSound
<1>12. loaded' \in BOOLEAN /\ stored' \subseteq Downloads
  BY <1>1 DEF QueueInv
<1> QED  BY <1>7, <1>8, <1>9, <1>11, <1>12 DEF QueueInv

-----------------------------------------------------------------------------
(* The theorems.                                                           *)

LEMMA NextInv == QueueInv /\ [Next]_vars => QueueInv'
<1> SUFFICES ASSUME QueueInv, [Next]_vars PROVE QueueInv'
  OBVIOUS
<1>1. ASSUME NEW d \in Downloads, AddDownload(d) PROVE QueueInv'
  BY <1>1, AddDownloadInv
<1>2. ASSUME NEW d \in Downloads, Complete(d) PROVE QueueInv'
  BY <1>2, CompleteInv
<1>3. ASSUME NEW list \in Lists({d \in Unused : Parent[d] = NoDir}), LoadQueueFromFile(list)
      PROVE  QueueInv'
  BY <1>3, LoadQueueInv
<1>4. ASSUME NEW dir \in Dirs, NEW list \in Lists({d \in Unused : Parent[d] = dir}),
             NewEntries(dir, list)
      PROVE  QueueInv'
  BY <1>4, NewEntriesInv
<1>5. CASE AddNext
  BY <1>5, AddNextInv
<1>6. CASE EndAdding
  BY <1>6, EndAddingInv
<1>7. ASSUME NEW P \in Predicates, Scan(P) PROVE QueueInv'
  BY <1>7, ScanInv
<1>8. ASSUME NEW refs \in Named, NEW ids \in Named, NEW where \in {"BEFORE", "AFTER"},
             MoveDownloads(refs, ids, where)
      PROVE  QueueInv'
  BY <1>8, MoveDownloadsInv
<1>9. Queued \subseteq Downloads
  <2>1. downloads \in Seq(Downloads)
    BY DEF QueueInv, ListIsSound
  <2> QED  BY <2>1, LenProperties DEF Queued, ToSet
<1>10. ASSUME NEW ids \in Named, RemoveDownloads(ids) PROVE QueueInv'
  <2>1. ids \cap Queued \in SUBSET Downloads /\ TakeOut(ids \cap Queued)
    BY <1>9, <1>10 DEF RemoveDownloads
  <2> QED  BY <2>1, TakeOutInv
<1>11. CASE RemoveAllCompleteDownloads
  <2>1. /\ {d \in Queued : status[d] = "COMPLETE"} \in SUBSET Downloads
        /\ TakeOut({d \in Queued : status[d] = "COMPLETE"})
    BY <1>9, <1>11 DEF RemoveAllCompleteDownloads
  <2> QED  BY <2>1, TakeOutInv
<1>12. CASE UNCHANGED vars
  <2>1. /\ downloads' = downloads /\ status' = status /\ marker' = marker
        /\ adding' = adding /\ loaded' = loaded /\ stored' = stored
    BY <1>12 DEF vars
  <2> QED  BY <2>1 DEF QueueInv, ListIsSound, MarkersAreFine, AddingIsSound,
                       ChildrenInOrder, NoneSkipped, Queued, Matching
<1> QED  BY <1>1, <1>2, <1>3, <1>4, <1>5, <1>6, <1>7, <1>8, <1>10, <1>11, <1>12 DEF Next

(***************************************************************************)
(* The invariant holds whatever is added, moved, removed, finished or      *)
(* scanned, for every set of downloads and directories.                    *)
(***************************************************************************)
THEOREM Invariance == Spec => []QueueInv
<1>1. Init => QueueInv
  BY InitInv
<1>2. QueueInv /\ [Next]_vars => QueueInv'
  BY NextInv
<1> QED  BY <1>1, <1>2, PTL DEF Spec

(***************************************************************************)
(* The types; the list never holds a download twice, and no marker is      *)
(* beyond its end (DownloadQueue.cpp, insert, remove, updateMarkers).      *)
(***************************************************************************)
THEOREM TypeCorrect == Spec => []TypeOK
<1>1. ASSUME QueueInv PROVE TypeOK
  <2>1. /\ downloads \in Seq(Downloads) /\ NoRepeat(downloads)
        /\ Fine(downloads, marker, Matching) /\ adding \in Adding
        /\ status \in [Downloads -> Statuses] /\ loaded \in BOOLEAN /\ stored \subseteq Downloads
    BY <1>1 DEF QueueInv, ListIsSound, MarkersAreFine, AddingIsSound
  <2>2. Len(downloads) = Cardinality(Queued)
    BY <2>1, LengthIsCardinality DEF Queued
  <2> QED  BY <2>1, <2>2 DEF TypeOK, Fine, FineAt, Statuses
<1> QED  BY <1>1, Invariance, PTL

(***************************************************************************)
(* A scan that begins at its marker returns every download that matches:   *)
(* no sequence of insertions, moves, removals, completions and scans hides *)
(* one (DownloadQueue.h, ScanningIterator; DownloadQueue.cpp,              *)
(* updateMarkers).                                                         *)
(***************************************************************************)
THEOREM NothingIsHidden == Spec => []ScanFindsAll
<1>1. ASSUME QueueInv PROVE ScanFindsAll
  <2> SUFFICES ASSUME NEW P \in Predicates, NEW i \in DOMAIN downloads,
                      downloads[i] \in Matching[P]
               PROVE  i > Position(P)
    BY DEF ScanFindsAll
  <2>1. downloads \in Seq(Downloads) /\ FineAt(downloads, marker[P], Matching[P])
    BY <1>1 DEF QueueInv, ListIsSound, MarkersAreFine, Fine
  <2>2. i \in 1 .. Len(downloads) /\ i \in Nat /\ i > 0
    BY <2>1, LenProperties
  <2> QED  BY <2>1, <2>2 DEF FineAt, Position, NoMarker
<1> QED  BY <1>1, Invariance, PTL

(***************************************************************************)
(* The children that replace a directory stand in order, with nothing      *)
(* between them, from its place, as long as none is skipped                *)
(* (DownloadManager.cpp, newEntries).                                      *)
(***************************************************************************)
THEOREM ChildrenTakeThePlace == Spec => []ChildrenReplaceDirectory
<1>1. ASSUME QueueInv PROVE ChildrenReplaceDirectory
  <2> DEFINE f == adding.first
             n == adding.done
             s == SubSeq(downloads, f + 1, f + n)
             t == SubSeq(adding.list, 1, n)
  <2> SUFFICES ASSUME adding.dir # NoDir, NoneSkipped
               PROVE  f + n <= Len(downloads) /\ s = t
    BY DEF ChildrenReplaceDirectory
  <2>1. /\ downloads \in Seq(Downloads) /\ adding \in Adding /\ n <= Len(adding.list)
        /\ f + n <= Len(downloads) /\ \A k \in 1 .. n : downloads[f + k] = adding.list[k]
    BY <1>1 DEF QueueInv, ListIsSound, AddingIsSound, ChildrenInOrder
  <2>2. /\ f \in Nat /\ n \in Nat /\ adding.list \in Seq(Downloads)
        /\ Len(downloads) \in Nat /\ Len(adding.list) \in Nat
    BY <2>1, LenProperties DEF Adding
  <2>3. /\ f + 1 \in 1 .. Len(downloads) + 1 /\ f + n \in (f + 1) - 1 .. Len(downloads)
        /\ 1 \in 1 .. Len(adding.list) + 1 /\ n \in 1 - 1 .. Len(adding.list)
    BY <2>1, <2>2
  <2>4. /\ s \in Seq(Downloads) /\ Len(s) = ((f + n) - (f + 1)) + 1
        /\ \A k \in 1 .. ((f + n) - (f + 1)) + 1 : s[k] = downloads[((f + 1) + k) - 1]
    BY <2>1, <2>3, CutFacts
  <2>5. /\ t \in Seq(Downloads) /\ Len(t) = (n - 1) + 1
        /\ \A k \in 1 .. (n - 1) + 1 : t[k] = adding.list[(1 + k) - 1]
    BY <2>2, <2>3, CutFacts
  <2> HIDE DEF s, t
  <2>6. Len(s) = n /\ Len(t) = n /\ \A k \in 1 .. n : s[k] = t[k]
    <3>1. ((f + n) - (f + 1)) + 1 = n /\ (n - 1) + 1 = n
      BY <2>2
    <3>2. ASSUME NEW k \in 1 .. n PROVE s[k] = t[k]
      <4>1. ((f + 1) + k) - 1 = f + k /\ (1 + k) - 1 = k
        BY <2>2
      <4>2. s[k] = downloads[((f + 1) + k) - 1] /\ t[k] = adding.list[(1 + k) - 1]
        BY <2>4, <2>5, <3>1
      <4> QED  BY <2>1, <4>1, <4>2
    <3> QED  BY <2>4, <2>5, <3>1, <3>2
  <2>7. s = t
    BY <2>4, <2>5, <2>6, SeqEqual
  <2> QED  BY <2>1, <2>7
<1> QED  BY <1>1, Invariance, PTL

(***************************************************************************)
(* Whatever the list, the references and the downloads to move, the loop   *)
(* of moveDownloads, which moves as it reads, gives the list of the        *)
(* reference definition: the downloads to move in their order at the       *)
(* reference, the others in theirs (DownloadQueue.cpp, moveDownloads).     *)
(***************************************************************************)
THEOREM MovesAreDocumented == Spec => []MoveIsDocumented
<1>1. ASSUME QueueInv PROVE MoveIsDocumented
  <2> SUFFICES ASSUME NEW refs \in Named, NEW ids \in Named, NEW where \in {"BEFORE", "AFTER"}
               PROVE  Moved(downloads, marker, Matching, refs, ids, where).q
                        = MovedAsDocumented(downloads, refs, ids, where)
    BY DEF MoveIsDocumented
  <2>1. /\ downloads \in Seq(Downloads) /\ NoRepeat(downloads)
        /\ Fine(downloads, marker, Matching)
    BY <1>1 DEF QueueInv, ListIsSound, MarkersAreFine
  <2>2. MovedRight(Moved(downloads, marker, Matching, refs, ids, where),
                   downloads, Matching, refs, ids, where)
    BY <2>1, NamedFacts, MovedIsRight
  <2> QED  BY <2>2 DEF MovedRight
<1> QED  BY <1>1, Invariance, PTL

(***************************************************************************)
(* The loop of removeDownloads, which erases by ranges while it reads the  *)
(* list, removes the downloads asked for and no other, in any arrangement  *)
(* (DownloadQueue.cpp, removeDownloads).                                   *)
(***************************************************************************)
THEOREM RemovalsAreExact == Spec => []RemoveIsExact
<1>1. ASSUME QueueInv PROVE RemoveIsExact
  <2> SUFFICES ASSUME NEW gone \in SUBSET Downloads
               PROVE  Removed(downloads, marker, gone).q = Those(downloads, Downloads \ gone)
    BY DEF RemoveIsExact
  <2>1. downloads \in Seq(Downloads) /\ Fine(downloads, marker, Matching)
    BY <1>1 DEF QueueInv, ListIsSound, MarkersAreFine
  <2>2. RemovedRight(Removed(downloads, marker, gone), downloads, Matching, gone)
    BY <2>1, RemovedIsRight
  <2> QED  BY <2>2 DEF RemovedRight
<1> QED  BY <1>1, Invariance, PTL
=============================================================================
