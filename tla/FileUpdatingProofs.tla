------------------------- MODULE FileUpdatingProofs -------------------------
(***************************************************************************)
(* Proofs about FileUpdating for every tree of directories, every set of   *)
(* files and every sequence of calls and of changes of the disk.           *)
(*                                                                         *)
(* The invariant follows every file that is directly in a shared           *)
(* directory: what the cache has wrong of it is on its way, as a directory *)
(* to scan, an event, the scan that runs or a place in a list of hashes.   *)
(* Steady says that a step takes none of these away; the steps of the      *)
(* thread that change nothing of the cache are all a Move, the calls of    *)
(* the main thread leave Aside what is of the thread.                      *)
(***************************************************************************)
EXTENDS FileUpdating, FiniteSetTheorems, SequenceTheorems,
        WellFoundedInduction, TLAPS

-----------------------------------------------------------------------------
(* The invariant.                                                          *)

UpdaterPCs ==
  {"load", "scan", "visit", "restore", "remove", "waitDir", "take", "waitEvent",
   "poll", "events", "loop", "hash", "start", "read", "hashed", "done"}
RemovePCs == {"rmScan", "rmHash", "rmWait", "rmFilter"}
StopPCs == {"stopWait", "stopHashed", "stopScan", "release", "join", "stopped"}
Event == [type : Types, file : Files]

Thread ==
  [pc : UpdaterPCs, loading : BOOLEAN, dir : Dirs \cup {None}, visit : Seq(Dirs),
   rest : SUBSET (Dirs \cup Files), old : SUBSET Files, file : Files \cup {None},
   prio : BOOLEAN, got : BOOLEAN, batch : Seq(Event)]

\* Types of the variables.
Typed ==
  /\ disk \in SUBSET Files /\ saved \in SUBSET Files
  /\ cached \in SUBSET Files /\ changed \in SUBSET cached /\ failed \in SUBSET cached
  /\ subs \in SUBSET (Dirs \ Roots)
  /\ missing \in [Files -> 0 .. NbChunks]
  /\ events \in Seq(Event)
  /\ shared \in SUBSET Roots /\ watched \in SUBSET Roots
  /\ entriesToRemove \in SUBSET Roots /\ deleted \in SUBSET Roots
  /\ entriesToScan \in Seq(Dirs)
  /\ currentScanningEntry \in Dirs \cup {None}
  /\ filesWithoutHashes \in Seq(Files)
  /\ filesWithoutHashesPrioritized \in Seq(Files)
  /\ hasher \in [hashing : BOOLEAN, stop : BOOLEAN]
  /\ toStopHashing \in BOOLEAN /\ toStop \in BOOLEAN
  /\ dirEvent \in [flag : BOOLEAN, pipe : BOOLEAN]
  /\ u \in Thread
  /\ m \in [pc : {"idle"} \cup RemovePCs \cup StopPCs, root : Roots \cup {None}]

\* What the two threads hold where they are.
Placed ==
  /\ u.pc \in {"scan", "visit", "restore"} => u.dir \in Dirs
  /\ u.pc \in {"start", "read", "hashed"} => u.file \in cached
  /\ u.pc # "events" => u.batch = <<>>
  /\ u.loading => u.pc \in {"load", "scan", "visit", "restore"}
  /\ u.pc \in {"load", "restore"} => u.loading
  /\ m.pc \in RemovePCs <=> m.root # None
  /\ toStop <=> m.pc \in StopPCs

\* The shared directories that were added, those being removed included: a
\* directory is never shared again.
Known == shared \cup entriesToRemove \cup deleted \cup {m.root}

\* A directory that is no longer shared stays out, and nothing is held, listed
\* or watched of a directory that was not added.
RootsSound ==
  /\ shared \cap (entriesToRemove \cup deleted \cup {m.root}) = {}
  /\ shared \subseteq watched /\ watched \subseteq Known
  /\ \A f \in cached : RootOf(In[f]) \in Known
  /\ \A i \in DOMAIN entriesToScan : RootOf(entriesToScan[i]) \in Known
  /\ u.pc \in {"scan", "visit"} => RootOf(u.dir) \in Known
  /\ \A i \in DOMAIN events : RootOf(In[events[i].file]) \in Known
  /\ \A i \in DOMAIN u.batch : RootOf(In[u.batch[i].file]) \in Known

\* A scan meets the entries of its directory and goes on under its root.  One
\* that was told to stop is of a directory no longer shared.
VisitSound ==
  u.pc = "visit" =>
    /\ \A f \in u.rest \cap Files : In[f] = u.dir
    /\ \A d \in u.rest \cap Dirs : d \notin Roots /\ RootOf(d) = RootOf(u.dir)
    /\ \A i \in DOMAIN u.visit :
         u.visit[i] \notin Roots /\ RootOf(u.visit[i]) = RootOf(u.dir)
    /\ \A f \in u.old : f \in cached /\ In[f] = u.dir
    /\ IF currentScanningEntry = None
       THEN toStop \/ RootOf(u.dir) \notin shared
       ELSE RootOf(currentScanningEntry) = RootOf(u.dir)

NoRepeat(list) == \A i, j \in DOMAIN list : list[i] = list[j] => i = j

\* The two lists have no file twice nor in common, and only files of the cache
\* as long as nothing listed was deleted.
ListsSound ==
  /\ NoRepeat(filesWithoutHashes) /\ NoRepeat(filesWithoutHashesPrioritized)
  /\ \A f \in Files : ~(/\ Contains(filesWithoutHashes, f)
                        /\ Contains(filesWithoutHashesPrioritized, f))
  /\ ~Dangling => \A f \in Files : IsListed(f) => f \in cached

\* A file that is done with has its hashes, or could not be read.
DoneWith ==
  u.pc = "hashed" /\ u.got => missing[u.file] = 0 \/ u.file \in failed

-----------------------------------------------------------------------------
(* What is on its way to a file of a shared directory.                     *)

\* The events the updater has still to process.
Silent(list, f) == \A i \in DOMAIN list : list[i].file # f
Tells(list, f, types) ==
  \E i \in DOMAIN list : list[i].file = f /\ list[i].type \in types
Told(f, types) == Tells(u.batch, f, types) \/ Tells(events, f, types)
Fresh(f) == Told(f, {"new", "changed"})
Gone(f) == Told(f, {"deleted"})

ToScan(f) ==
  \/ Contains(entriesToScan, In[f])
  \/ u.pc = "scan" /\ u.dir = In[f]
Visited(f) == u.pc = "visit" /\ u.dir = In[f]

\* The last event of a file says whether it is among those there.
LastSays(list, f, there) ==
  \A i \in DOMAIN list :
    /\ list[i].file = f
    /\ \A j \in DOMAIN list : j > i => list[j].file # f
    => (list[i].type = "deleted" <=> f \notin there)

EventsTrue(f) ==
  /\ LastSays(events, f, disk)
  /\ Silent(events, f) => LastSays(u.batch, f, disk)

NewComes(f) ==
  f \in disk \ cached => ToScan(f) \/ Fresh(f) \/ (Visited(f) /\ f \in u.rest)

DeletionComes(f) ==
  f \in cached \ disk =>
    ToScan(f) \/ Gone(f) \/ (Visited(f) /\ f \in u.old \ u.rest)

ChangeComes(f) ==
  f \in changed \ failed =>
    \/ ToScan(f) \/ Fresh(f) \/ Gone(f) \/ IsListed(f)
    \/ Visited(f) /\ f \in u.rest \cup u.old

\* A scan works on what it found when it began.
VisitTold(f) ==
  Visited(f) =>
    /\ f \in u.rest \ disk => Gone(f)
    /\ f \in (u.old \cap disk) \ u.rest => Fresh(f)

\* A restored file leaves the list, and no event is processed before.
LoadTold(f) == u.loading /\ f \in changed => Fresh(f)

DoneTold(f) ==
  u.pc = "hashed" /\ u.got /\ u.file = f /\ f \in changed \ failed => Fresh(f)

Followed(f) ==
  /\ EventsTrue(f) /\ NewComes(f) /\ DeletionComes(f) /\ ChangeComes(f)
  /\ VisitTold(f) /\ LoadTold(f) /\ DoneTold(f)

AllFollowed == ~toStop => \A f \in Files : In[f] \in shared => Followed(f)

\* Where the updater sleeps nothing is left, or it will be woken.
Asleep ==
  /\ u.pc = "waitDir" => shared = {} \/ dirEvent.flag \/ dirEvent.pipe
  /\ u.pc = "waitEvent" =>
       \/ dirEvent.pipe
       \/ /\ entriesToScan = <<>>
          /\ \A f \in Files : IsListed(f) => f \in failed

IInv ==
  /\ Typed /\ Placed /\ RootsSound /\ VisitSound /\ ListsSound /\ DoneWith
  /\ NotForgotten /\ AllFollowed /\ Asleep

-----------------------------------------------------------------------------
(* Lists.                                                                  *)

LEMMA LeastNumber ==
  ASSUME NEW Q \in SUBSET Nat, Q # {}
  PROVE  \E n \in Q : \A k \in Q : n <= k
<1> DEFINE R == {p \in Nat \X Nat : p[1] < p[2]}
<1>1. IsWellFoundedOn(R, Nat)
  BY NatLessThanWellFounded, Zenon DEF OpToRel
<1>2. \A x, y \in Nat : x < y => <<x, y>> \in R
  OBVIOUS
<1> HIDE DEF R
<1>3. PICK n \in Q : \A k \in Q : ~ (<<k, n>> \in R)
  BY <1>1, WFMin, Zenon
<1>4. ASSUME NEW k \in Q PROVE n <= k
  <2>1. n \in Nat /\ k \in Nat /\ ~ (k < n)
    BY <1>2, <1>3
  <2> QED  BY <2>1
<1> QED  BY <1>4

\* What is left of the first n elements of a list.
Left(list, S, n) ==
  CHOOSE kept : kept = [k \in 0 .. n |->
    IF k = 0 THEN <<>>
    ELSE IF list[k] \in S THEN kept[k - 1] ELSE Append(kept[k - 1], list[k])]

IsLeft(list, S, n, kept) ==
  kept = [k \in 0 .. n |->
    IF k = 0 THEN <<>>
    ELSE IF list[k] \in S THEN kept[k - 1] ELSE Append(kept[k - 1], list[k])]

LEMMA LeftExists ==
  ASSUME NEW list, NEW S, NEW n \in Nat
  PROVE  \E kept : IsLeft(list, S, n, kept)
<1> DEFINE Bad == {k \in Nat : ~ \E kept : IsLeft(list, S, k, kept)}
<1> SUFFICES ASSUME Bad # {} PROVE FALSE
  OBVIOUS
<1>1. PICK k \in Bad : \A l \in Bad : k <= l
  BY LeastNumber
<1>2. CASE k = 0
  <2> DEFINE g == [l \in 0 .. 0 |-> <<>>]
  <2>1. IsLeft(list, S, 0, g)
    BY DEF IsLeft
  <2> QED  BY <1>2, <2>1
<1>3. CASE k # 0
  <2>1. k \in Nat /\ k - 1 \in Nat /\ k - 1 \notin Bad
    BY <1>1, <1>3
  <2>2. PICK h : IsLeft(list, S, k - 1, h)
    BY <2>1
  <2> DEFINE last == IF list[k] \in S THEN h[k - 1] ELSE Append(h[k - 1], list[k])
             g == [l \in 0 .. k |-> IF l = k THEN last ELSE h[l]]
  <2>3. \A l \in 0 .. k - 1 : g[l] = h[l]
    BY <2>1
  <2>4. \A l \in 0 .. k : g[l] = IF l = 0 THEN <<>>
                                ELSE IF list[l] \in S THEN g[l - 1] ELSE Append(g[l - 1], list[l])
    <3> SUFFICES ASSUME NEW l \in 0 .. k
                 PROVE g[l] = IF l = 0 THEN <<>>
                              ELSE IF list[l] \in S THEN g[l - 1] ELSE Append(g[l - 1], list[l])
      OBVIOUS
    <3>1. CASE l = k
      <4>1. g[l] = last /\ k - 1 \in 0 .. k - 1 /\ l # 0
        BY <2>1, <3>1, <1>3
      <4>2. g[k - 1] = h[k - 1]
        BY <2>3, <4>1
      <4> QED  BY <3>1, <4>1, <4>2
    <3>2. CASE l # k
      <4>1. l \in 0 .. k - 1
        BY <2>1, <3>2
      <4>2. h[l] = IF l = 0 THEN <<>>
                   ELSE IF list[l] \in S THEN h[l - 1] ELSE Append(h[l - 1], list[l])
        BY <2>2, <4>1 DEF IsLeft
      <4>3. l # 0 => l - 1 \in 0 .. k - 1
        BY <2>1, <4>1
      <4>4. l # 0 => g[l - 1] = h[l - 1]
        BY <2>3, <4>3
      <4> QED  BY <2>3, <4>1, <4>2, <4>4
    <3> QED  BY <3>1, <3>2
  <2>5. g = [l \in 0 .. k |-> g[l]]
    OBVIOUS
  <2> HIDE DEF g
  <2>6. IsLeft(list, S, k, g)
    BY <2>4, <2>5 DEF IsLeft
  <2> QED  BY <2>6
<1> QED  BY <1>2, <1>3

LEMMA WithoutIsLeft ==
  ASSUME NEW T, NEW list \in Seq(T), NEW S
  PROVE  \E kept : /\ IsLeft(list, S, Len(list), kept)
                   /\ Without(list, S) = kept[Len(list)]
<1>1. \E kept : IsLeft(list, S, Len(list), kept)
  BY LeftExists, LenProperties
<1>2. Without(list, S) = Left(list, S, Len(list))[Len(list)]
  BY DEF Without, Left
<1>3. IsLeft(list, S, Len(list), Left(list, S, Len(list)))
  BY <1>1 DEF IsLeft, Left
<1> QED  BY <1>2, <1>3

LEMMA AppendFacts ==
  ASSUME NEW T, NEW list \in Seq(T), NEW y \in T
  PROVE  /\ Append(list, y) \in Seq(T)
         /\ \A x : Contains(Append(list, y), x) <=> Contains(list, x) \/ x = y
         /\ NoRepeat(list) /\ ~Contains(list, y) => NoRepeat(Append(list, y))
<1>1. /\ Len(list) \in Nat /\ DOMAIN list = 1 .. Len(list)
      /\ Append(list, y) \in Seq(T)
      /\ DOMAIN Append(list, y) = 1 .. Len(list) + 1
      /\ \A i \in 1 .. Len(list) : Append(list, y)[i] = list[i]
      /\ Append(list, y)[Len(list) + 1] = y
  BY LenProperties, AppendProperties
<1>2. \A i : i \in 1 .. Len(list) + 1 <=> i \in 1 .. Len(list) \/ i = Len(list) + 1
  BY <1>1
<1>3. ASSUME NEW x PROVE Contains(Append(list, y), x) <=> Contains(list, x) \/ x = y
  BY <1>1, <1>2, Zenon DEF Contains
<1>4. ASSUME NoRepeat(list), ~Contains(list, y) PROVE NoRepeat(Append(list, y))
  <2> SUFFICES ASSUME NEW i \in 1 .. Len(list) + 1, NEW j \in 1 .. Len(list) + 1,
                      Append(list, y)[i] = Append(list, y)[j]
               PROVE  i = j
    BY <1>1, Zenon DEF NoRepeat
  <2>1. \A k \in 1 .. Len(list) : list[k] # y
    BY <1>1, <1>4 DEF Contains
  <2>2. \A k, l \in 1 .. Len(list) : list[k] = list[l] => k = l
    BY <1>1, <1>4 DEF NoRepeat
  <2> QED  BY <1>1, <1>2, <2>1, <2>2, Zenon
<1> QED  BY <1>1, <1>3, <1>4

LEMMA WithoutFacts ==
  ASSUME NEW T, NEW list \in Seq(T), NEW S
  PROVE  /\ Without(list, S) \in Seq(T)
         /\ \A x : Contains(Without(list, S), x) <=> Contains(list, x) /\ x \notin S
         /\ NoRepeat(list) => NoRepeat(Without(list, S))
<1>0. Len(list) \in Nat /\ DOMAIN list = 1 .. Len(list) /\ \A i \in 1 .. Len(list) : list[i] \in T
  BY LenProperties
<1>1. PICK kept : /\ IsLeft(list, S, Len(list), kept)
                  /\ Without(list, S) = kept[Len(list)]
  BY WithoutIsLeft
<1> DEFINE Fine(k) ==
             /\ kept[k] \in Seq(T)
             /\ \A x : Contains(kept[k], x) <=> (\E i \in 1 .. k : list[i] = x) /\ x \notin S
             /\ NoRepeat(list) => NoRepeat(kept[k])
           Bad == {k \in 0 .. Len(list) : ~Fine(k)}
<1>2. /\ kept[0] = <<>>
      /\ \A k \in 1 .. Len(list) :
           kept[k] = IF list[k] \in S THEN kept[k - 1] ELSE Append(kept[k - 1], list[k])
  <2>1. \A k \in 0 .. Len(list) : kept[k] =
          IF k = 0 THEN <<>>
          ELSE IF list[k] \in S THEN kept[k - 1] ELSE Append(kept[k - 1], list[k])
    BY <1>1 DEF IsLeft
  <2>2. 0 \in 0 .. Len(list) /\ \A k \in 1 .. Len(list) : k \in 0 .. Len(list) /\ k # 0
    BY <1>0
  <2> QED  BY <2>1, <2>2
<1>3. Fine(0)
  BY <1>2, EmptySeq DEF Contains, NoRepeat
<1>4. ASSUME NEW k \in 1 .. Len(list), Fine(k - 1) PROVE Fine(k)
  <2>0. k \in Nat /\ list[k] \in T /\ \A i : i \in 1 .. k <=> i \in 1 .. k - 1 \/ i = k
    BY <1>0
  <2>1. CASE list[k] \in S
    <3>1. kept[k] = kept[k - 1]
      BY <1>2, <2>1
    <3>2. \A x : (\E i \in 1 .. k : list[i] = x) /\ x \notin S
                <=> (\E i \in 1 .. k - 1 : list[i] = x) /\ x \notin S
      BY <2>0, <2>1, Zenon
    <3> QED  BY <1>4, <3>1, <3>2
  <2>2. CASE list[k] \notin S
    <3>1. kept[k] = Append(kept[k - 1], list[k])
      BY <1>2, <2>2
    <3>2. \A x : (\E i \in 1 .. k : list[i] = x) /\ x \notin S
                <=> ((\E i \in 1 .. k - 1 : list[i] = x) /\ x \notin S) \/ x = list[k]
      BY <2>0, <2>2, Zenon
    <3>3. NoRepeat(list) => ~Contains(kept[k - 1], list[k])
      <4>1. NoRepeat(list) => \A i \in 1 .. k - 1 : list[i] # list[k]
        BY <1>0, <2>0 DEF NoRepeat
      <4> QED  BY <1>4, <4>1
    <3>4. /\ Append(kept[k - 1], list[k]) \in Seq(T)
          /\ \A x : Contains(Append(kept[k - 1], list[k]), x) <=> Contains(kept[k - 1], x) \/ x = list[k]
          /\ NoRepeat(kept[k - 1]) /\ ~Contains(kept[k - 1], list[k])
               => NoRepeat(Append(kept[k - 1], list[k]))
      BY <1>4, <2>0, AppendFacts
    <3> QED  BY <1>4, <3>1, <3>2, <3>3, <3>4
  <2> QED  BY <2>1, <2>2
<1> HIDE DEF Fine
<1>5. ASSUME Bad # {} PROVE FALSE
  <2>0. Bad \in SUBSET Nat
    BY <1>0
  <2>1. PICK k \in Bad : \A l \in Bad : k <= l
    <3> HIDE DEF Bad
    <3> QED  BY <2>0, <1>5, LeastNumber
  <2>2. k # 0 /\ k \in 0 .. Len(list) /\ ~Fine(k)
    BY <1>3, <2>1
  <2>3. k \in 1 .. Len(list) /\ k - 1 \in 0 .. Len(list) /\ k - 1 \notin Bad
    BY <1>0, <2>1, <2>2
  <2>4. Fine(k - 1)
    BY <2>3
  <2> QED  BY <1>4, <2>2, <2>3, <2>4
<1>6. Fine(Len(list))
  BY <1>0, <1>5
<1> QED  BY <1>0, <1>1, <1>6 DEF Fine, Contains

LEMMA TailFacts ==
  ASSUME NEW T, NEW list \in Seq(T), list # <<>>
  PROVE  /\ Head(list) \in T /\ Tail(list) \in Seq(T) /\ Head(list) = list[1]
         /\ \A x : Contains(list, x) <=> x = Head(list) \/ Contains(Tail(list), x)
         /\ NoRepeat(list) => NoRepeat(Tail(list)) /\ ~Contains(Tail(list), Head(list))
<1>1. /\ Len(list) \in Nat \ {0} /\ DOMAIN list = 1 .. Len(list)
      /\ Head(list) = list[1] /\ Head(list) \in T
      /\ Tail(list) \in Seq(T) /\ DOMAIN Tail(list) = 1 .. Len(list) - 1
      /\ \A i \in 1 .. Len(list) - 1 : Tail(list)[i] = list[i + 1]
  BY EmptySeq, LenProperties, HeadTailProperties
<1>2. /\ \A i \in 1 .. Len(list) - 1 : i + 1 \in 1 .. Len(list) /\ i + 1 # 1
      /\ \A i \in 1 .. Len(list) : i # 1 => \E j \in 1 .. Len(list) - 1 : i = j + 1
      /\ \A i, j \in 1 .. Len(list) - 1 : i + 1 = j + 1 => i = j
      /\ 1 \in 1 .. Len(list)
  <2>1. \A n \in Nat \ {0} :
          /\ \A i \in 1 .. n - 1 : i + 1 \in 1 .. n /\ i + 1 # 1
          /\ \A i \in 1 .. n : i # 1 => i - 1 \in 1 .. n - 1 /\ i = (i - 1) + 1
          /\ \A i, j \in 1 .. n - 1 : i + 1 = j + 1 => i = j
          /\ 1 \in 1 .. n
    OBVIOUS
  <2>2. /\ \A i \in 1 .. Len(list) - 1 : i + 1 \in 1 .. Len(list) /\ i + 1 # 1
        /\ \A i \in 1 .. Len(list) : i # 1 => i - 1 \in 1 .. Len(list) - 1 /\ i = (i - 1) + 1
        /\ \A i, j \in 1 .. Len(list) - 1 : i + 1 = j + 1 => i = j
        /\ 1 \in 1 .. Len(list)
    BY <1>1, <2>1
  <2> QED  BY <2>2, Zenon
<1>3. ASSUME NEW x PROVE Contains(list, x) <=> x = Head(list) \/ Contains(Tail(list), x)
  <2>1. ASSUME Contains(list, x) PROVE x = Head(list) \/ Contains(Tail(list), x)
    <3>1. PICK i \in 1 .. Len(list) : list[i] = x
      BY <1>1, <2>1 DEF Contains
    <3>2. CASE i = 1
      BY <1>1, <3>1, <3>2
    <3>3. CASE i # 1
      <4>1. PICK j \in 1 .. Len(list) - 1 : i = j + 1
        BY <1>2, <3>3
      <4>2. Tail(list)[j] = x
        BY <1>1, <3>1, <4>1
      <4> QED  BY <1>1, <4>2 DEF Contains
    <3> QED  BY <3>2, <3>3
  <2>2. x = Head(list) => Contains(list, x)
    BY <1>1, <1>2 DEF Contains
  <2>3. ASSUME Contains(Tail(list), x) PROVE Contains(list, x)
    <3>1. PICK j \in 1 .. Len(list) - 1 : Tail(list)[j] = x
      BY <1>1, <2>3 DEF Contains
    <3>2. list[j + 1] = x /\ j + 1 \in 1 .. Len(list)
      BY <1>1, <1>2, <3>1
    <3> QED  BY <1>1, <3>2 DEF Contains
  <2> QED  BY <2>1, <2>2, <2>3
<1>4. ASSUME NoRepeat(list)
      PROVE  NoRepeat(Tail(list)) /\ ~Contains(Tail(list), Head(list))
  <2>1. \A i, j \in 1 .. Len(list) : list[i] = list[j] => i = j
    BY <1>1, <1>4 DEF NoRepeat
  <2>2. NoRepeat(Tail(list))
    <3> SUFFICES ASSUME NEW i \in 1 .. Len(list) - 1, NEW j \in 1 .. Len(list) - 1,
                        Tail(list)[i] = Tail(list)[j]
                 PROVE  i = j
      BY <1>1 DEF NoRepeat
    <3>1. list[i + 1] = list[j + 1]
      BY <1>1
    <3>2. i + 1 = j + 1
      BY <1>2, <2>1, <3>1
    <3> QED  BY <1>2, <3>2
  <2>3. ASSUME NEW i \in 1 .. Len(list) - 1 PROVE Tail(list)[i] # Head(list)
    <3>1. Tail(list)[i] = list[i + 1] /\ Head(list) = list[1]
      BY <1>1
    <3> QED  BY <1>2, <2>1, <3>1
  <2> QED  BY <1>1, <2>2, <2>3 DEF Contains
<1> QED  BY <1>1, <1>3, <1>4

LEMMA ConcatFacts ==
  ASSUME NEW T, NEW s \in Seq(T), NEW t \in Seq(T)
  PROVE  /\ s \o t \in Seq(T)
         /\ \A x : Contains(s \o t, x) <=> Contains(s, x) \/ Contains(t, x)
<1>1. /\ Len(s) \in Nat /\ Len(t) \in Nat
      /\ DOMAIN s = 1 .. Len(s) /\ DOMAIN t = 1 .. Len(t)
      /\ s \o t \in Seq(T) /\ DOMAIN (s \o t) = 1 .. Len(s) + Len(t)
      /\ \A i \in 1 .. Len(s) + Len(t) :
           (s \o t)[i] = IF i <= Len(s) THEN s[i] ELSE t[i - Len(s)]
  BY LenProperties, ConcatProperties
<1>2. \A i \in 1 .. Len(s) : i \in 1 .. Len(s) + Len(t) /\ i <= Len(s)
  BY <1>1
<1>3. \A i \in 1 .. Len(t) : /\ i + Len(s) \in 1 .. Len(s) + Len(t) /\ ~(i + Len(s) <= Len(s))
                             /\ (i + Len(s)) - Len(s) = i
  BY <1>1
<1>4. \A i \in 1 .. Len(s) + Len(t) :
        IF i <= Len(s) THEN i \in 1 .. Len(s) ELSE i - Len(s) \in 1 .. Len(t)
  BY <1>1
<1>5. ASSUME NEW x PROVE Contains(s \o t, x) <=> Contains(s, x) \/ Contains(t, x)
  <2>1. Contains(s, x) => Contains(s \o t, x)
    BY <1>1, <1>2 DEF Contains
  <2>2. ASSUME Contains(t, x) PROVE Contains(s \o t, x)
    <3>1. PICK i \in 1 .. Len(t) : t[i] = x
      BY <1>1, <2>2 DEF Contains
    <3>2. (s \o t)[i + Len(s)] = x
      BY <1>1, <1>3, <3>1
    <3> QED  BY <1>1, <1>3, <3>2, Zenon DEF Contains
  <2>3. Contains(s \o t, x) => Contains(s, x) \/ Contains(t, x)
    BY <1>1, <1>4, Zenon DEF Contains
  <2> QED  BY <2>1, <2>2, <2>3
<1> QED  BY <1>1, <1>5

\* A list without its last element.
LEMMA FrontFacts ==
  ASSUME NEW T, NEW list \in Seq(T), list # <<>>
  PROVE  /\ list[Len(list)] \in T /\ Contains(list, list[Len(list)])
         /\ SubSeq(list, 1, Len(list) - 1) \in Seq(T)
         /\ \A x : Contains(list, x) <=>
              x = list[Len(list)] \/ Contains(SubSeq(list, 1, Len(list) - 1), x)
<1> DEFINE front == SubSeq(list, 1, Len(list) - 1)
<1>1. /\ Len(list) \in Nat \ {0} /\ DOMAIN list = 1 .. Len(list)
      /\ \A i \in 1 .. Len(list) : list[i] \in T
  BY EmptySeq, LenProperties
<1>2. /\ Len(list) \in 1 .. Len(list) /\ Len(list) - 1 \in Int /\ 1 \in Int
      /\ \A i : i \in 1 .. Len(list) <=> i \in 1 .. Len(list) - 1 \/ i = Len(list)
      /\ \A i \in 1 .. Len(list) - 1 : (1 + i) - 1 = i
      /\ (Len(list) - 1) - 1 + 1 = Len(list) - 1
      /\ 1 <= Len(list) - 1 \/ Len(list) - 1 = 0
  BY <1>1
<1>3. \A i \in 1 .. Len(list) - 1 : list[i] \in T
  BY <1>1, <1>2, Zenon
<1>4. /\ front \in Seq(T) /\ Len(front) = Len(list) - 1
      /\ \A i \in 1 .. Len(list) - 1 : front[i] = list[i]
  <2>1. /\ front \in Seq(T)
        /\ Len(front) = IF 1 <= Len(list) - 1 THEN (Len(list) - 1) - 1 + 1 ELSE 0
        /\ \A i \in 1 .. (Len(list) - 1) - 1 + 1 : front[i] = list[(1 + i) - 1]
    BY <1>2, <1>3, SubSeqProperties
  <2> QED  BY <1>1, <1>2, <2>1
<1>5. DOMAIN front = 1 .. Len(list) - 1
  BY <1>4, LenProperties
<1> HIDE DEF front
<1>6. ASSUME NEW x PROVE Contains(list, x) <=> x = list[Len(list)] \/ Contains(front, x)
  BY <1>1, <1>2, <1>4, <1>5, Zenon DEF Contains
<1> QED  BY <1>1, <1>2, <1>4, <1>6, Zenon DEF front, Contains

LEMMA EmptyFacts == \A x : ~Contains(<<>>, x)
BY EmptySeq DEF Contains

\* What is contained in a sequence has its type.
LEMMA ContainsTyped ==
  ASSUME NEW T, NEW list \in Seq(T), NEW x, Contains(list, x)
  PROVE  x \in T
BY LenProperties DEF Contains

-----------------------------------------------------------------------------
(* The tree of the directories.                                            *)

\* What the updater knows of its constants.
LEMMA TreeFacts ==
  ASSUME NEW d \in Dirs
  PROVE  /\ Above[d] \in Seq(Dirs)
         /\ Path(d) \in Seq(Dirs)
         /\ Len(Above[d]) \in Nat
         /\ DOMAIN Above[d] = 1 .. Len(Above[d])
         /\ DOMAIN Path(d) = 1 .. Len(Above[d]) + 1
         /\ \A i \in 1 .. Len(Above[d]) :
              /\ Path(d)[i] = Above[d][i] /\ Above[d][i] \in Dirs
              /\ Above[Above[d][i]] = SubSeq(Above[d], 1, i - 1)
         /\ Path(d)[Len(Above[d]) + 1] = d
<1>1. /\ Above[d] \in Seq(Dirs)
      /\ \A i \in DOMAIN Above[d] : Above[Above[d][i]] = SubSeq(Above[d], 1, i - 1)
  BY UpdaterAssumption
<1>2. /\ Len(Above[d]) \in Nat /\ DOMAIN Above[d] = 1 .. Len(Above[d])
      /\ \A i \in 1 .. Len(Above[d]) : Above[d][i] \in Dirs
  BY <1>1, LenProperties
<1>3. /\ Path(d) \in Seq(Dirs)
      /\ DOMAIN Path(d) = 1 .. Len(Above[d]) + 1
      /\ \A i \in 1 .. Len(Above[d]) : Path(d)[i] = Above[d][i]
      /\ Path(d)[Len(Above[d]) + 1] = d
  BY <1>1, LenProperties, AppendProperties DEF Path
<1> QED  BY <1>1, <1>2, <1>3

\* A directory is under one shared directory, those above it under the same.
LEMMA RootFacts ==
  ASSUME NEW d \in Dirs
  PROVE  /\ RootOf(d) \in Roots
         /\ d \in Roots => RootOf(d) = d
         /\ \A i \in 1 .. Len(Above[d]) : RootOf(Above[d][i]) = RootOf(d)
<1> USE TreeFacts
<1>1. d \notin Roots => 1 \in 1 .. Len(Above[d])
  <2>1. d \notin Roots => Above[d] # <<>>
    BY DEF Roots
  <2>2. d \notin Roots => Len(Above[d]) # 0
    BY <2>1, EmptySeq
  <2> QED  BY <2>2
<1>2. ASSUME NEW i \in 1 .. Len(Above[d]), i = 1
      PROVE  Above[d][i] \in Roots
  <2>1. /\ Above[Above[d][i]] = SubSeq(Above[d], 1, i - 1) /\ Above[d][i] \in Dirs
    BY <1>2
  <2>2. i - 1 = 0
    BY <1>2
  <2>3. SubSeq(Above[d], 1, 0) = <<>>
    BY SubSeqEmpty
  <2> QED  BY <2>1, <2>2, <2>3 DEF Roots
<1>3. RootOf(d) \in Roots
  BY <1>1, <1>2 DEF RootOf
<1>4. ASSUME NEW i \in 1 .. Len(Above[d]) PROVE RootOf(Above[d][i]) = RootOf(d)
  <2> DEFINE e == Above[d][i]
  <2>0. d \notin Roots /\ 1 \in 1 .. Len(Above[d])
    BY EmptySeq DEF Roots
  <2>1. RootOf(d) = Above[d][1]
    BY <2>0 DEF RootOf
  <2>2. CASE i = 1
    BY <1>2, <2>1, <2>2 DEF RootOf
  <2>3. CASE i # 1
    <3>1. /\ i - 1 \in Int /\ 1 \in Int /\ 1 <= i - 1 /\ (i - 1) - 1 + 1 = i - 1
          /\ 1 \in 1 .. i - 1 /\ (1 + 1) - 1 = 1
          /\ \A k \in 1 .. i - 1 : k \in 1 .. Len(Above[d])
      BY <2>3
    <3>2. /\ e \in Dirs /\ Above[e] = SubSeq(Above[d], 1, i - 1)
          /\ \A k \in 1 .. i - 1 : Above[d][k] \in Dirs
      BY <3>1
    <3>3. /\ SubSeq(Above[d], 1, i - 1) \in Seq(Dirs)
          /\ Len(SubSeq(Above[d], 1, i - 1)) = i - 1
          /\ SubSeq(Above[d], 1, i - 1)[1] = Above[d][1]
      <4>1. /\ SubSeq(Above[d], 1, i - 1) \in Seq(Dirs)
            /\ Len(SubSeq(Above[d], 1, i - 1)) = IF 1 <= i - 1 THEN (i - 1) - 1 + 1 ELSE 0
            /\ \A k \in 1 .. (i - 1) - 1 + 1 : SubSeq(Above[d], 1, i - 1)[k] = Above[d][(1 + k) - 1]
        BY <3>1, <3>2, SubSeqProperties
      <4> QED  BY <3>1, <4>1
    <3>4. e \notin Roots
      <4>1. Len(Above[e]) # 0
        BY <3>1, <3>2, <3>3
      <4> QED  BY <4>1, EmptySeq DEF Roots
    <3> QED  BY <2>1, <3>2, <3>3, <3>4 DEF RootOf
  <2> QED  BY <2>2, <2>3
<1> QED  BY <1>3, <1>4 DEF RootOf

\* The directories on the path of d.
LEMMA PathFacts ==
  ASSUME NEW d \in Dirs, NEW e, Contains(Path(d), e)
  PROVE  e \in Dirs /\ RootOf(e) = RootOf(d)
<1>1. PICK i \in 1 .. Len(Above[d]) + 1 : Path(d)[i] = e
  BY TreeFacts DEF Contains
<1>2. CASE i = Len(Above[d]) + 1
  BY <1>1, <1>2, TreeFacts
<1>3. CASE i # Len(Above[d]) + 1
  <2>1. i \in 1 .. Len(Above[d])
    BY <1>3, TreeFacts
  <2> QED  BY <1>1, <2>1, TreeFacts, RootFacts
<1> QED  BY <1>2, <1>3

LEMMA UnderFacts ==
  ASSUME NEW r \in Roots
  PROVE  /\ \A f \in FilesUnder(r) : f \in Files /\ RootOf(In[f]) = r
         /\ \A d \in DirsUnder(r) : d \in Dirs /\ RootOf(d) = r
<1>1. r \in Dirs /\ RootOf(r) = r
  BY DEF Roots, RootOf
<1>2. ASSUME NEW f \in FilesUnder(r) PROVE f \in Files /\ RootOf(In[f]) = r
  <2>1. f \in Files /\ In[f] \in Dirs /\ Contains(Path(In[f]), r)
    BY UpdaterAssumption DEF FilesUnder, Contains
  <2> QED  BY <1>1, <2>1, PathFacts
<1>3. ASSUME NEW d \in DirsUnder(r) PROVE d \in Dirs /\ RootOf(d) = r
  <2>1. d \in Dirs /\ Contains(Path(d), r)
    BY DEF DirsUnder, Contains
  <2> QED  BY <1>1, <2>1, PathFacts
<1> QED  BY <1>2, <1>3

LEMMA UpFacts ==
  ASSUME NEW d \in Dirs \ Roots
  PROVE  Up(d) \in Dirs /\ RootOf(Up(d)) = RootOf(d)
<1>1. Len(Above[d]) # 0
  BY TreeFacts, EmptySeq DEF Roots
<1>2. Len(Above[d]) \in 1 .. Len(Above[d])
  BY <1>1, TreeFacts
<1> QED  BY <1>2, TreeFacts, RootFacts DEF Up

\* What a scan meets in a directory.
LEMMA ListingFacts ==
  ASSUME NEW d \in Dirs, disk \in SUBSET Files
  PROVE  /\ Listing(d) \in SUBSET (Dirs \cup Files)
         /\ \A f \in Listing(d) \cap Files : f \in disk /\ In[f] = d
         /\ d \in Roots => \A f \in disk : In[f] = d => f \in Listing(d)
         /\ \A e \in Listing(d) \cap Dirs : e \notin Roots /\ RootOf(e) = RootOf(d)
<1>0. /\ \A f \in Files : In[f] \in Dirs
      /\ \A e, g \in Dirs : FullPath(e) = TruePath(g) => e = g
      /\ Dirs \cap Files = {}
  BY UpdaterAssumption
<1>1. Listing(d) \in SUBSET (Dirs \cup Files)
  BY DEF Listing
<1>2. ASSUME NEW f \in Listing(d) \cap Files PROVE f \in disk /\ In[f] = d
  <2>1. f \notin Dirs
    BY <1>0
  <2>2. f \in disk /\ TruePath(In[f]) = FullPath(d)
    BY <2>1 DEF Listing
  <2> QED  BY <1>0, <2>2
<1>3. ASSUME d \in Roots, NEW f \in disk, In[f] = d PROVE f \in Listing(d)
  <2>1. /\ Above[d] = <<>> /\ RootOf(d) = d
        /\ Path(d) = Append(<<>>, d)
    BY <1>3 DEF Roots, RootOf, Path
  <2>2. Append(<<>>, d) = <<d>>
    OBVIOUS
  <2>3. FullPath(d) = Place[d] \o <<d>> /\ TruePath(d) = Place[d] \o <<d>>
    BY <1>3, <2>1, <2>2 DEF FullPath, TruePath
  <2> QED  BY <1>3, <2>3 DEF Listing
<1>4. ASSUME NEW e \in Listing(d) \cap Dirs PROVE e \notin Roots /\ RootOf(e) = RootOf(d)
  <2>1. e \notin Files
    BY <1>0
  <2>2. e \in Dirs \ Roots /\ TruePath(Up(e)) = FullPath(d)
    BY <2>1 DEF Listing
  <2>3. Up(e) \in Dirs /\ RootOf(Up(e)) = RootOf(e)
    BY <2>2, UpFacts
  <2> QED  BY <1>0, <2>2, <2>3
<1> QED  BY <1>1, <1>2, <1>3, <1>4

LEMMA FittestFacts ==
  ASSUME NEW f \in Files
  PROVE  /\ FittestDirectory(f) \in Dirs
         /\ RootOf(FittestDirectory(f)) = RootOf(In[f])
         /\ In[f] \in Roots => FittestDirectory(f) = In[f]
<1> DEFINE d == In[f]
           n == Len(Above[d]) + 1
           known == {i \in DOMAIN Path(d) : \A j \in 2 .. i : Path(d)[j] \in subs}
<1>0. d \in Dirs
  BY UpdaterAssumption
<1>1. n \in Nat \ {0} /\ DOMAIN Path(d) = 1 .. n
  BY <1>0, TreeFacts
<1>2. FittestDirectory(f) = Path(d)[Cardinality(known)]
  BY DEF FittestDirectory
<1>3. 1 \in known /\ known \subseteq 1 .. n
  BY <1>1
<1>4. /\ IsFiniteSet(1 .. n) /\ Cardinality(1 .. n) = n
  BY <1>1, FS_Interval
<1> HIDE DEF known
<1>5. /\ IsFiniteSet(known) /\ Cardinality(known) \in Nat
      /\ Cardinality(known) <= Cardinality(1 .. n)
  BY <1>3, <1>4, FS_Subset, FS_CardinalityType
<1>6. Cardinality(known) # 0
  BY <1>3, <1>5, FS_EmptySet
<1>7. Cardinality(known) \in 1 .. n
  BY <1>1, <1>4, <1>5, <1>6
<1>8. Contains(Path(d), FittestDirectory(f))
  BY <1>1, <1>2, <1>7 DEF Contains
<1>9. ASSUME d \in Roots PROVE FittestDirectory(f) = d
  <2>1. Above[d] = <<>> /\ Len(Above[d]) = 0
    BY <1>9, EmptySeq DEF Roots
  <2>2. Cardinality(known) = Len(Above[d]) + 1
    BY <1>7, <2>1
  <2> QED  BY <1>0, <1>2, <2>2, TreeFacts
<1> HIDE DEF d
<1>10. FittestDirectory(f) \in Dirs /\ RootOf(FittestDirectory(f)) = RootOf(d)
  BY <1>0, <1>8, PathFacts
<1> QED  BY <1>9, <1>10 DEF d

-----------------------------------------------------------------------------
(* The updater, where it goes.                                             *)

LEMMA BeginFields ==
  /\ Begin \in Thread
  /\ Begin.pc = "load" /\ Begin.loading = TRUE /\ Begin.dir = None
  /\ Begin.file = None /\ Begin.got = FALSE /\ Begin.batch = <<>>
<1>1. <<>> \in Seq(Dirs) /\ <<>> \in Seq(Event)
  OBVIOUS
<1> QED  BY <1>1 DEF Begin, Thread, UpdaterPCs

LEMMA GoIsThread ==
  ASSUME NEW pc \in UpdaterPCs, u \in Thread
  PROVE  /\ Go(pc) \in Thread
         /\ Go(pc).pc = pc /\ Go(pc).loading = u.loading
         /\ Go(pc).dir = None /\ Go(pc).file = None /\ Go(pc).batch = <<>>
         /\ Go(pc).got = FALSE
<1>1. u.loading \in BOOLEAN
  BY DEF Thread
<1>2. /\ Go(pc).pc = pc /\ Go(pc).loading = u.loading
      /\ Go(pc).dir = None /\ Go(pc).file = None /\ Go(pc).batch = <<>>
      /\ Go(pc).got = FALSE
  BY <1>1, BeginFields DEF Go, Thread
<1>3. Go(pc) \in Thread
  BY <1>1, BeginFields DEF Go, Thread
<1> QED  BY <1>2, <1>3

LEMMA GoDirFields ==
  ASSUME NEW pc \in UpdaterPCs, NEW d \in Dirs, u \in Thread
  PROVE  LET t == [Go(pc) EXCEPT !.dir = d] IN
         /\ t \in Thread
         /\ t.pc = pc /\ t.loading = u.loading /\ t.dir = d /\ t.batch = <<>>
         /\ t.file = None /\ t.got = FALSE
<1> DEFINE t == [Go(pc) EXCEPT !.dir = d]
<1>0. Go(pc) \in Thread
  BY GoIsThread
<1>1. t \in Thread
  BY <1>0 DEF Thread
<1>2. /\ t.pc = pc /\ t.loading = u.loading /\ t.dir = d /\ t.batch = <<>>
      /\ t.file = None /\ t.got = FALSE
  BY GoIsThread DEF Thread
<1> QED  BY <1>1, <1>2

VisitOf(d, visit, rest, old) ==
  [Go("visit") EXCEPT !.dir = d, !.visit = visit, !.rest = rest, !.old = old]

LEMMA GoVisitFields ==
  ASSUME NEW d \in Dirs, NEW visit \in Seq(Dirs), NEW rest \in SUBSET (Dirs \cup Files),
         NEW old \in SUBSET Files, u \in Thread
  PROVE  LET t == VisitOf(d, visit, rest, old) IN
         /\ t \in Thread
         /\ t.pc = "visit" /\ t.loading = u.loading /\ t.dir = d /\ t.batch = <<>>
         /\ t.visit = visit /\ t.rest = rest /\ t.old = old
<1> DEFINE t == VisitOf(d, visit, rest, old)
<1>0. /\ Go("visit") \in Thread
      /\ Go("visit").pc = "visit" /\ Go("visit").loading = u.loading
      /\ Go("visit").batch = <<>>
  BY GoIsThread DEF UpdaterPCs
<1>1. t \in Thread
  BY <1>0 DEF Thread, VisitOf
<1>2. /\ t.pc = "visit" /\ t.loading = u.loading /\ t.dir = d /\ t.batch = <<>>
      /\ t.visit = visit /\ t.rest = rest /\ t.old = old
  BY <1>0 DEF Thread, VisitOf
<1> QED  BY <1>1, <1>2

LEMMA GoBatchFields ==
  ASSUME NEW batch \in Seq(Event), u \in Thread
  PROVE  LET t == [Go("events") EXCEPT !.batch = batch] IN
         /\ t \in Thread
         /\ t.pc = "events" /\ t.loading = u.loading /\ t.dir = None
         /\ t.batch = batch
<1> DEFINE t == [Go("events") EXCEPT !.batch = batch]
<1>0. /\ Go("events") \in Thread
      /\ Go("events").pc = "events" /\ Go("events").loading = u.loading
      /\ Go("events").dir = None
  BY GoIsThread DEF UpdaterPCs
<1>1. t \in Thread
  BY <1>0 DEF Thread
<1>2. t.pc = "events" /\ t.loading = u.loading /\ t.dir = None /\ t.batch = batch
  BY <1>0 DEF Thread
<1> QED  BY <1>1, <1>2

-----------------------------------------------------------------------------
(* What is kept by a step that leaves it alone.                            *)

LEMMA ListsFrame ==
  ASSUME ListsSound, UNCHANGED lists, UNCHANGED deleted, cached \subseteq cached'
  PROVE  ListsSound'
BY DEF ListsSound, NoRepeat, Contains, IsListed, Dangling, lists

LEMMA ForgottenFrame ==
  ASSUME NotForgotten, UNCHANGED <<lists, cached, missing>>,
         shared' \subseteq shared, failed \subseteq failed'
  PROVE  NotForgotten'
BY DEF NotForgotten, IsListed, Contains, lists

\* What is on its way to f is not less and what f is has not changed.
Steady(f) ==
  /\ f \in disk' <=> f \in disk
  /\ f \in cached' <=> f \in cached
  /\ f \in changed' => f \in changed
  /\ f \in failed => f \in failed' \/ f \notin changed'
  /\ Fresh(f) => Fresh(f)'
  /\ Gone(f) => Gone(f)'
  /\ IsListed(f) /\ f \in changed' \ failed' => IsListed(f)' \/ Fresh(f)'
  /\ ToScan(f) => ToScan(f)'
  /\ Visited(f)' <=> Visited(f)
  /\ Visited(f) => /\ f \in u'.rest <=> f \in u.rest
                   /\ f \in u'.old <=> f \in u.old
  /\ u'.loading => u.loading

LEMMA FollowedSteady ==
  ASSUME NEW f \in Files, Followed(f), Steady(f), EventsTrue(f)', DoneTold(f)'
  PROVE  Followed(f)'
<1>1. NewComes(f)'
  BY DEF Followed, Steady, NewComes
<1>2. DeletionComes(f)'
  BY DEF Followed, Steady, DeletionComes
<1>3. ChangeComes(f)'
  BY DEF Followed, Steady, ChangeComes
<1>4. VisitTold(f)'
  BY DEF Followed, Steady, VisitTold
<1>5. LoadTold(f)'
  BY DEF Followed, Steady, LoadTold
<1> QED  BY <1>1, <1>2, <1>3, <1>4, <1>5 DEF Followed

\* The events are those of before.
LEMMA EventsFrame ==
  ASSUME NEW f \in Files, UNCHANGED <<disk, events>>, u'.batch = u.batch
  PROVE  /\ EventsTrue(f) => EventsTrue(f)'
         /\ Fresh(f) <=> Fresh(f)'
         /\ Gone(f) <=> Gone(f)'
<1>1. EventsTrue(f) => EventsTrue(f)'
  BY DEF EventsTrue
<1>2. Fresh(f) <=> Fresh(f)'
  BY DEF Fresh, Told
<1>3. Gone(f) <=> Gone(f)'
  BY DEF Gone, Told
<1> QED  BY <1>1, <1>2, <1>3

LEMMA AllFollowedSteady ==
  ASSUME AllFollowed, toStop => toStop', shared' \subseteq shared,
         ~toStop' => \A f \in Files : In[f] \in shared' =>
           (Followed(f) => Steady(f) /\ EventsTrue(f)' /\ DoneTold(f)')
  PROVE  AllFollowed'
<1> SUFFICES ASSUME ~toStop', NEW f \in Files, In[f] \in shared'
             PROVE  Followed(f)'
  BY DEF AllFollowed
<1>1. Followed(f)
  BY DEF AllFollowed
<1> QED  BY <1>1, FollowedSteady

\* Neither a directory nor an event is met by the step.
LEMMA RootsFrame ==
  ASSUME RootsSound, UNCHANGED <<roots, cached, events, entriesToScan>>,
         m'.root = m.root, u'.batch = u.batch, u'.pc \notin {"scan", "visit"}
  PROVE  RootsSound'
BY DEF RootsSound, Known, roots

\* Everything but the place of the updater, and what it takes from the list
\* of the scans, is left alone.
Move ==
  /\ UNCHANGED <<disk, events, cached, subs, missing, changed, failed, lists,
                 roots, toStop, currentScanningEntry>>
  /\ saved' \in SUBSET Files
  /\ hasher' \in [hashing : BOOLEAN, stop : BOOLEAN]
  /\ toStopHashing' \in BOOLEAN
  /\ dirEvent' \in [flag : BOOLEAN, pipe : BOOLEAN]
  /\ m' \in [pc : {"idle"} \cup RemovePCs \cup StopPCs, root : Roots \cup {None}]
  /\ m'.root = m.root
  /\ m'.pc \in RemovePCs <=> m.pc \in RemovePCs
  /\ m'.pc \in StopPCs <=> m.pc \in StopPCs
  /\ u' \in Thread
  /\ u.pc # "visit"
  /\ u'.pc \notin {"load", "visit", "restore", "waitDir", "waitEvent"}
  /\ ~(u'.pc = "hashed" /\ u'.got)
  /\ u.batch = <<>> /\ u'.batch = <<>>
  /\ u'.loading => u.loading /\ u'.pc = "scan"
  /\ u'.pc = "scan" => u'.dir \in Dirs
  /\ u'.pc = "scan" => Contains(entriesToScan, u'.dir)
  /\ u'.pc \in {"start", "read", "hashed"} => u'.file \in cached
  /\ entriesToScan' \in Seq(Dirs)
  /\ \A d : Contains(entriesToScan', d) => Contains(entriesToScan, d)
  /\ \A d : Contains(entriesToScan, d) \/ (u.pc = "scan" /\ u.dir = d)
         => Contains(entriesToScan', d) \/ (u'.pc = "scan" /\ u'.dir = d)

LEMMA MoveStep ==
  ASSUME IInv, Move
  PROVE  IInv'
<1>1. Typed'
  BY DEF IInv, Typed, Move, lists, roots
<1>2. Placed'
  BY DEF IInv, Placed, Move
<1>3. RootsSound'
  <2>1. Known' = Known /\ shared' = shared /\ watched' = watched /\ cached' = cached
        /\ events' = events /\ entriesToRemove' = entriesToRemove /\ deleted' = deleted
        /\ m'.root = m.root
    BY DEF Move, Known, roots
  <2>2. \A i \in DOMAIN entriesToScan' : RootOf(entriesToScan'[i]) \in Known
    <3> SUFFICES ASSUME NEW i \in DOMAIN entriesToScan'
                 PROVE  RootOf(entriesToScan'[i]) \in Known
      OBVIOUS
    <3>1. Contains(entriesToScan, entriesToScan'[i])
      BY DEF Move, Contains
    <3> QED  BY <3>1 DEF IInv, RootsSound, Contains
  <2>3. u'.pc \in {"scan", "visit"} => RootOf(u'.dir) \in Known
    BY DEF IInv, RootsSound, Move, Contains
  <2>4. u'.batch = <<>> /\ DOMAIN u'.batch = {}
    BY EmptySeq DEF Move
  <2>5. /\ shared \cap (entriesToRemove \cup deleted \cup {m.root}) = {}
        /\ shared \subseteq watched /\ watched \subseteq Known
        /\ \A f \in cached : RootOf(In[f]) \in Known
        /\ \A i \in DOMAIN events : RootOf(In[events[i].file]) \in Known
    BY DEF IInv, RootsSound
  <2> QED  BY <2>1, <2>2, <2>3, <2>4, <2>5 DEF RootsSound
<1>4. VisitSound'
  BY DEF Move, VisitSound
<1>5. ListsSound'
  BY ListsFrame DEF IInv, Move, roots
<1>6. DoneWith'
  BY DEF Move, DoneWith
<1>7. NotForgotten'
  BY ForgottenFrame DEF IInv, Move, roots
<1>8. AllFollowed'
  <2> SUFFICES ASSUME ~toStop', NEW f \in Files, In[f] \in shared'
               PROVE  Followed(f)'
    BY DEF AllFollowed
  <2>1. Followed(f)
    BY DEF AllFollowed, IInv, Move, roots
  <2>2. /\ EventsTrue(f)'
        /\ Fresh(f) => Fresh(f)'
        /\ Gone(f) => Gone(f)'
    BY <2>1, EventsFrame DEF Move, Followed
  <2>3. IsListed(f) => IsListed(f)'
    BY DEF IsListed, Contains, Move, lists
  <2>4. ToScan(f) => ToScan(f)'
    BY DEF ToScan, Move
  <2>5. ~Visited(f) /\ ~Visited(f)'
    BY DEF Visited, Move
  <2>6. Steady(f)
    BY <2>2, <2>3, <2>4, <2>5 DEF Steady, Move
  <2>7. DoneTold(f)'
    BY DEF DoneTold, Move
  <2> QED  BY <2>1, <2>2, <2>6, <2>7, FollowedSteady, Zenon
<1>9. Asleep'
  BY DEF Asleep, Move
<1> QED  BY <1>1, <1>2, <1>3, <1>4, <1>5, <1>6, <1>7, <1>8, <1>9 DEF IInv

-----------------------------------------------------------------------------
(* The steps that only move the updater.                                   *)

LEMMA LoadMoves ==
  ASSUME IInv, Load
  PROVE  Move
<1>0. u \in Thread /\ u.pc = "load" /\ u.batch = <<>> /\ entriesToScan \in Seq(Dirs)
  BY DEF IInv, Typed, Placed, Load
<1>1. CASE entriesToScan # <<>>
  <2>1. /\ Head(entriesToScan) \in Dirs /\ Tail(entriesToScan) \in Seq(Dirs)
        /\ \A d : Contains(entriesToScan, d) <=>
             d = Head(entriesToScan) \/ Contains(Tail(entriesToScan), d)
    BY <1>0, <1>1, TailFacts
  <2>2. /\ u' = [Go("scan") EXCEPT !.dir = Head(entriesToScan)]
        /\ entriesToScan' = Tail(entriesToScan) /\ saved' = saved
    BY <1>1 DEF Load
  <2>3. /\ u' \in Thread /\ u'.pc = "scan" /\ u'.loading = u.loading
        /\ u'.dir = Head(entriesToScan) /\ u'.batch = <<>>
    <3>1. "scan" \in UpdaterPCs
      BY DEF UpdaterPCs
    <3> QED  BY <1>0, <2>1, <2>2, <3>1, GoDirFields, Zenon
  <2> QED  BY <1>0, <2>1, <2>2, <2>3
           DEF Load, Move, IInv, Typed, disks, lists, roots, stops
<1>2. CASE entriesToScan = <<>>
  <2>1. u' = [Go("hash") EXCEPT !.loading = FALSE] /\ saved' = {} /\ entriesToScan' = entriesToScan
    BY <1>2 DEF Load
  <2>2. Go("hash") \in Thread /\ Go("hash").pc = "hash" /\ Go("hash").batch = <<>>
    BY <1>0, GoIsThread DEF UpdaterPCs
  <2>3. u' \in Thread /\ u'.pc = "hash" /\ u'.loading = FALSE /\ u'.batch = <<>>
    BY <2>1, <2>2 DEF Thread
  <2> QED  BY <1>0, <2>1, <2>3
           DEF Load, Move, IInv, Typed, disks, lists, roots, stops
<1> QED  BY <1>1, <1>2

LEMMA TakeMoves ==
  ASSUME IInv, Take
  PROVE  Move
<1>0. /\ u \in Thread /\ u.pc = "take" /\ u.batch = <<>> /\ ~u.loading
      /\ entriesToScan \in Seq(Dirs)
  BY DEF IInv, Typed, Placed, Take
<1>1. CASE entriesToScan # <<>>
  <2> DEFINE last == entriesToScan[Len(entriesToScan)]
             front == SubSeq(entriesToScan, 1, Len(entriesToScan) - 1)
  <2>1. /\ last \in Dirs /\ front \in Seq(Dirs)
        /\ \A d : Contains(entriesToScan, d) <=> d = last \/ Contains(front, d)
    BY <1>0, <1>1, FrontFacts
  <2>2. u' = [Go("scan") EXCEPT !.dir = last] /\ entriesToScan' = front
    BY <1>1 DEF Take
  <2> HIDE DEF last, front
  <2>3. /\ u' \in Thread /\ u'.pc = "scan" /\ u'.loading = u.loading
        /\ u'.dir = last /\ u'.batch = <<>>
    <3>1. "scan" \in UpdaterPCs
      BY DEF UpdaterPCs
    <3> QED  BY <1>0, <2>1, <2>2, <3>1, GoDirFields, Zenon
  <2> QED  BY <1>0, <2>1, <2>2, <2>3
           DEF Take, Move, IInv, Typed, disks, cache, lists, roots, stops
<1>2. CASE entriesToScan = <<>>
  <2>1. u' = Go("loop") /\ entriesToScan' = entriesToScan
    BY <1>2 DEF Take
  <2>2. u' \in Thread /\ u'.pc = "loop" /\ u'.loading = u.loading /\ u'.batch = <<>>
    BY <1>0, <2>1, GoIsThread DEF UpdaterPCs
  <2> QED  BY <1>0, <2>1, <2>2
           DEF Take, Move, IInv, Typed, disks, cache, lists, roots, stops
<1> QED  BY <1>1, <1>2

LEMMA WaitDirMoves ==
  ASSUME IInv, WaitDir
  PROVE  Move
<1>0. u \in Thread /\ u.pc = "waitDir" /\ u.batch = <<>> /\ ~u.loading
  BY DEF IInv, Typed, Placed, WaitDir
<1>1. u' \in Thread /\ u'.pc = "take" /\ u'.loading = u.loading /\ u'.batch = <<>>
  BY <1>0, GoIsThread DEF WaitDir, UpdaterPCs
<1>2. dirEvent' \in [flag : BOOLEAN, pipe : BOOLEAN]
  BY DEF WaitDir, IInv, Typed
<1> QED  BY <1>0, <1>1, <1>2
         DEF WaitDir, Move, IInv, Typed, disks, cache, lists, roots, stops, scans

LEMMA LeavingMoves ==
  ASSUME IInv, EventsDone \/ Loop
  PROVE  Move
<1>0. u \in Thread /\ u.pc \in {"events", "loop"} /\ u.batch = <<>> /\ ~u.loading
  BY DEF IInv, Typed, Placed, EventsDone, Loop
<1>1. /\ u' \in Thread /\ u'.pc \in {"loop", "done", "hash"} /\ u'.loading = u.loading
      /\ u'.batch = <<>>
  BY <1>0, GoIsThread DEF EventsDone, Loop, UpdaterPCs
<1> QED  BY <1>0, <1>1
         DEF EventsDone, Loop, Move, IInv, Typed, disks, cache, lists, roots, stops, scans

\* The file that is picked is of the cache.
LEMMA PickFields ==
  ASSUME IInv, ~Dangling, ~NothingToHash
  PROVE  /\ Pick \in Thread /\ Pick.pc = "start" /\ Pick.loading = u.loading
         /\ Pick.batch = <<>> /\ Pick.file \in cached
<1> DEFINE prio == filesWithoutHashesPrioritized # <<>>
           file == Head(IF prio THEN filesWithoutHashesPrioritized ELSE filesWithoutHashes)
<1>0. /\ u \in Thread
      /\ filesWithoutHashes \in Seq(Files) /\ filesWithoutHashesPrioritized \in Seq(Files)
      /\ \A f \in Files : IsListed(f) => f \in cached
      /\ cached \in SUBSET Files
  BY DEF IInv, Typed, ListsSound
<1>1. file \in Files /\ IsListed(file)
  <2>1. CASE prio
    BY <1>0, <2>1, TailFacts DEF IsListed
  <2>2. CASE ~prio
    BY <1>0, <2>2, TailFacts DEF IsListed, NothingToHash
  <2> QED  BY <2>1, <2>2
<1>2. file \in cached
  BY <1>0, <1>1
<1>3. prio \in BOOLEAN
  OBVIOUS
<1>4. /\ Go("start") \in Thread /\ Go("start").pc = "start"
      /\ Go("start").loading = u.loading /\ Go("start").batch = <<>>
  BY <1>0, GoIsThread DEF UpdaterPCs
<1>5. Pick = [Go("start") EXCEPT !.prio = prio, !.file = file]
  BY DEF Pick
<1> HIDE DEF prio, file
<1>6. Pick \in Thread
  BY <1>1, <1>3, <1>4, <1>5 DEF Thread
<1>7. /\ Pick.pc = "start" /\ Pick.loading = u.loading /\ Pick.batch = <<>>
      /\ Pick.file = file
  BY <1>4, <1>5 DEF Thread
<1> QED  BY <1>2, <1>6, <1>7

LEMMA ComputeSomeHashesMoves ==
  ASSUME IInv, ~Dangling, ComputeSomeHashes
  PROVE  Move
<1>0. u \in Thread /\ u.pc = "hash" /\ u.batch = <<>> /\ ~u.loading
  BY DEF IInv, Typed, Placed, ComputeSomeHashes
<1>1. /\ u' \in Thread /\ u'.pc \in {"remove", "start"} /\ u'.loading = u.loading
      /\ u'.batch = <<>>
      /\ u'.pc = "start" => u'.file \in cached
  <2>1. CASE toStopHashing \/ NothingToHash
    <3>1. u' = Go("remove")
      BY <2>1 DEF ComputeSomeHashes
    <3> QED  BY <1>0, <3>1, GoIsThread DEF UpdaterPCs
  <2>2. CASE ~(toStopHashing \/ NothingToHash)
    <3>1. u' = Pick
      BY <2>2 DEF ComputeSomeHashes
    <3> QED  BY <2>2, <3>1, PickFields
  <2> QED  BY <2>1, <2>2
<1> QED  BY <1>0, <1>1
         DEF ComputeSomeHashes, Move, IInv, Typed, disks, cache, lists, roots, scans

\* Where the hash of a chunk leads.
LEMMA HashedFields ==
  ASSUME u \in Thread, NEW got \in BOOLEAN, Hashed(got)
  PROVE  /\ u' \in Thread /\ u'.pc = "hashed" /\ u'.got = got
         /\ u'.loading = u.loading /\ u'.batch = u.batch /\ u'.file = u.file
<1>1. u' = [u EXCEPT !.pc = "hashed", !.got = got]
  BY DEF Hashed
<1>2. u' \in Thread
  BY <1>1 DEF Thread, UpdaterPCs
<1> QED  BY <1>1, <1>2 DEF Thread

LEMMA WokenHashFields ==
  ASSUME IInv
  PROVE  /\ WokenHash \in [pc : {"idle"} \cup RemovePCs \cup StopPCs, root : Roots \cup {None}]
         /\ WokenHash.root = m.root
         /\ WokenHash.pc \in RemovePCs <=> m.pc \in RemovePCs
         /\ WokenHash.pc \in StopPCs <=> m.pc \in StopPCs
BY DEF IInv, Typed, Placed, WokenHash, Call, RemovePCs, StopPCs

LEMMA HasherMoves ==
  ASSUME IInv, HasherNotStarted \/ HasherStart \/ HasherStopped
  PROVE  Move
<1>0. /\ u \in Thread /\ u.pc \in {"start", "read"} /\ u.batch = <<>> /\ ~u.loading
      /\ u.file \in cached
  BY DEF IInv, Typed, Placed, HasherNotStarted, HasherStart, HasherStopped
<1>1. CASE HasherNotStarted
  <2>1. /\ u' \in Thread /\ u'.pc = "hashed" /\ u'.got = FALSE /\ u'.loading = u.loading
        /\ u'.batch = u.batch /\ u'.file = u.file
    BY <1>0, <1>1, HashedFields DEF HasherNotStarted
  <2> QED  BY <1>0, <1>1, <2>1
           DEF HasherNotStarted, Move, IInv, Typed, disks, cache, lists, roots, scans
<1>2. CASE HasherStart
  <2>1. u' = [u EXCEPT !.pc = "read"]
    BY <1>2 DEF HasherStart
  <2>2. /\ u' \in Thread /\ u'.pc = "read" /\ u'.loading = u.loading
        /\ u'.batch = u.batch /\ u'.file = u.file
    BY <1>0, <2>1 DEF Thread, UpdaterPCs
  <2> QED  BY <1>0, <1>2, <2>2
           DEF HasherStart, Move, IInv, Typed, disks, cache, lists, roots, scans
<1>3. CASE HasherStopped
  <2>1. /\ u' \in Thread /\ u'.pc = "hashed" /\ u'.got = FALSE /\ u'.loading = u.loading
        /\ u'.batch = u.batch /\ u'.file = u.file
    BY <1>0, <1>3, HashedFields DEF HasherStopped
  <2>2. m' = WokenHash
    BY <1>3 DEF HasherStopped
  <2> QED  BY <1>0, <1>3, <2>1, <2>2, WokenHashFields
           DEF HasherStopped, Move, IInv, Typed, disks, cache, lists, roots, scans
<1> QED  BY <1>1, <1>2, <1>3

-----------------------------------------------------------------------------
(* The hash of a chunk and its end.                                        *)

LEMMA HasherFailsStep ==
  ASSUME IInv, HasherFails
  PROVE  IInv'
<1>0. /\ u \in Thread /\ u.pc \in {"start", "read"} /\ u.batch = <<>> /\ ~u.loading
      /\ u.file \in cached
  BY DEF IInv, Typed, Placed, HasherFails
<1>1. /\ u' \in Thread /\ u'.pc = "hashed" /\ u'.got = TRUE /\ u'.loading = u.loading
      /\ u'.batch = u.batch /\ u'.file = u.file
  BY <1>0, HashedFields DEF HasherFails
<1>2. /\ UNCHANGED <<disk, events, cached, subs, missing, changed, saved, lists, roots,
                     scans, toStopHashing, toStop, dirEvent, m>>
      /\ failed' = failed \cup {u.file}
      /\ hasher' = [hashing |-> FALSE, stop |-> FALSE]
  BY DEF HasherFails, disks
<1>3. Typed'
  BY <1>0, <1>1, <1>2 DEF IInv, Typed, lists, roots, scans
<1>4. Placed'
  BY <1>0, <1>1, <1>2 DEF IInv, Placed
<1>5. RootsSound'
  BY <1>0, <1>1, <1>2, RootsFrame DEF IInv, scans
<1>6. VisitSound' /\ Asleep'
  BY <1>1 DEF VisitSound, Asleep
<1>7. ListsSound' /\ NotForgotten'
  BY <1>2, ListsFrame, ForgottenFrame DEF IInv, roots
<1>8. DoneWith'
  BY <1>1, <1>2 DEF DoneWith
<1>9. AllFollowed'
  <2> SUFFICES ASSUME NEW f \in Files, In[f] \in shared', Followed(f)
               PROVE  Steady(f) /\ EventsTrue(f)' /\ DoneTold(f)'
    BY <1>2, AllFollowedSteady DEF IInv, roots
  <2>1. EventsTrue(f)' /\ (Fresh(f) <=> Fresh(f)') /\ (Gone(f) <=> Gone(f)')
    BY <1>1, <1>2, EventsFrame DEF Followed
  <2>2. (IsListed(f) => IsListed(f)') /\ (ToScan(f) => ToScan(f)')
    BY <1>0, <1>2 DEF IsListed, ToScan, Contains, lists, scans
  <2>3. ~Visited(f) /\ ~Visited(f)'
    BY <1>0, <1>1 DEF Visited
  <2>4. Steady(f)
    BY <1>1, <1>2, <2>1, <2>2, <2>3 DEF Steady
  <2>5. DoneTold(f)'
    BY <1>1, <1>2 DEF DoneTold
  <2> QED  BY <2>1, <2>4, <2>5
<1> QED  BY <1>3, <1>4, <1>5, <1>6, <1>7, <1>8, <1>9 DEF IInv

LEMMA HashChunkStep ==
  ASSUME IInv, HashChunk
  PROVE  IInv'
<1> DEFINE left == IF missing[u.file] = 0 THEN 0 ELSE missing[u.file] - 1
<1>0. /\ u \in Thread /\ u.pc = "read" /\ u.batch = <<>> /\ ~u.loading
      /\ u.file \in cached /\ u.file \in Files
      /\ missing \in [Files -> 0 .. NbChunks] /\ NbChunks \in Nat
  BY UpdaterAssumption DEF IInv, Typed, Placed, HashChunk
<1>1. left \in 0 .. NbChunks /\ (left > 0 => missing[u.file] > 0)
  <2>1. missing[u.file] \in 0 .. NbChunks
    BY <1>0
  <2> QED  BY <1>0, <2>1
<1>2. /\ UNCHANGED <<disk, events, cached, subs, saved, lists, roots, scans,
                     toStopHashing, toStop, dirEvent, m>>
      /\ missing' = [missing EXCEPT ![u.file] = left]
      /\ changed' = IF left = 0 THEN changed \ {u.file} ELSE changed
      /\ failed' = IF left = 0 THEN failed \ {u.file} ELSE failed
      /\ hasher' = [hashing |-> FALSE, stop |-> FALSE]
      /\ Hashed(left = 0)
  BY DEF HashChunk, disks
<1> HIDE DEF left
<1>3. /\ u' \in Thread /\ u'.pc = "hashed" /\ (u'.got <=> left = 0)
      /\ u'.loading = u.loading /\ u'.batch = u.batch /\ u'.file = u.file
  <2>1. CASE left = 0
    <3>1. Hashed(TRUE)
      BY <1>2, <2>1 DEF Hashed
    <3> QED  BY <1>0, <2>1, <3>1, HashedFields
  <2>2. CASE left # 0
    <3>1. Hashed(FALSE)
      BY <1>2, <2>2 DEF Hashed
    <3> QED  BY <1>0, <2>2, <3>1, HashedFields
  <2> QED  BY <2>1, <2>2
<1>4. missing'[u.file] = left /\ \A f \in Files : f # u.file => missing'[f] = missing[f]
  BY <1>0, <1>2
<1>5. Typed'
  <2>1. missing' \in [Files -> 0 .. NbChunks]
    BY <1>0, <1>1, <1>2
  <2> QED  BY <1>0, <1>2, <1>3, <2>1 DEF IInv, Typed, lists, roots, scans
<1>6. Placed'
  BY <1>0, <1>2, <1>3 DEF IInv, Placed
<1>7. RootsSound'
  BY <1>0, <1>2, <1>3, RootsFrame DEF IInv, scans
<1>8. VisitSound' /\ Asleep'
  BY <1>3 DEF VisitSound, Asleep
<1>9. ListsSound'
  BY <1>2, ListsFrame DEF IInv, roots
<1>10. NotForgotten'
  <2> SUFFICES ASSUME NEW f \in cached', RootOf(In[f]) \in shared', missing'[f] > 0,
                      f \notin failed'
               PROVE  IsListed(f)'
    BY DEF NotForgotten
  <2>1. f \in Files /\ f \in cached
    BY <1>2 DEF IInv, Typed
  <2>2. missing[f] > 0
    BY <1>1, <1>4, <2>1
  <2>3. f \notin failed
    BY <1>1, <1>2, <1>4
  <2>4. IsListed(f)
    BY <1>2, <2>1, <2>2, <2>3 DEF IInv, NotForgotten, roots
  <2> QED  BY <1>2, <2>4 DEF IsListed, Contains, lists
<1>11. DoneWith'
  BY <1>3, <1>4 DEF DoneWith
<1>12. AllFollowed'
  <2> SUFFICES ASSUME NEW f \in Files, In[f] \in shared', Followed(f)
               PROVE  Steady(f) /\ EventsTrue(f)' /\ DoneTold(f)'
    BY <1>2, AllFollowedSteady DEF IInv, roots
  <2>1. EventsTrue(f)' /\ (Fresh(f) <=> Fresh(f)') /\ (Gone(f) <=> Gone(f)')
    BY <1>2, <1>3, EventsFrame DEF Followed
  <2>2. (IsListed(f) => IsListed(f)') /\ (ToScan(f) => ToScan(f)')
    BY <1>0, <1>2 DEF IsListed, ToScan, Contains, lists, scans
  <2>3. ~Visited(f) /\ ~Visited(f)'
    BY <1>0, <1>3 DEF Visited
  <2>4. Steady(f)
    BY <1>2, <1>3, <2>1, <2>2, <2>3 DEF Steady
  <2>5. DoneTold(f)'
    BY <1>2, <1>3 DEF DoneTold
  <2> QED  BY <2>1, <2>4, <2>5
<1> QED  BY <1>5, <1>6, <1>7, <1>8, <1>9, <1>10, <1>11, <1>12 DEF IInv

\* The list of a file that is done with loses this file only.
LEMMA AfterHashFacts ==
  ASSUME NEW list \in Seq(Files)
  PROVE  /\ AfterHash(list) \in Seq(Files)
         /\ \A x : Contains(AfterHash(list), x) => Contains(list, x)
         /\ \A x : Contains(list, x) =>
              Contains(AfterHash(list), x) \/ (u.got /\ x = u.file)
         /\ NoRepeat(list) => NoRepeat(AfterHash(list))
<1>1. CASE list = <<>> \/ Head(list) # u.file
  BY <1>1 DEF AfterHash
<1>2. CASE ~(list = <<>> \/ Head(list) # u.file)
  <2>1. /\ Head(list) \in Files /\ Tail(list) \in Seq(Files) /\ Head(list) = u.file
        /\ \A x : Contains(list, x) <=> x = Head(list) \/ Contains(Tail(list), x)
        /\ NoRepeat(list) => NoRepeat(Tail(list)) /\ ~Contains(Tail(list), Head(list))
    BY <1>2, TailFacts
  <2>2. CASE u.got
    <3>1. AfterHash(list) = Tail(list)
      BY <1>2, <2>2 DEF AfterHash
    <3> QED  BY <2>1, <2>2, <3>1
  <2>3. CASE ~u.got /\ u.prio
    <3>1. AfterHash(list) = Append(Tail(list), Head(list))
      BY <1>2, <2>3 DEF AfterHash
    <3>2. /\ Append(Tail(list), Head(list)) \in Seq(Files)
          /\ \A x : Contains(Append(Tail(list), Head(list)), x) <=>
               Contains(Tail(list), x) \/ x = Head(list)
          /\ NoRepeat(Tail(list)) /\ ~Contains(Tail(list), Head(list))
               => NoRepeat(Append(Tail(list), Head(list)))
      BY <2>1, AppendFacts
    <3> QED  BY <2>1, <3>1, <3>2
  <2>4. CASE ~u.got /\ ~u.prio
    BY <1>2, <2>4 DEF AfterHash
  <2> QED  BY <2>2, <2>3, <2>4
<1> QED  BY <1>1, <1>2

LEMMA HashEndStep ==
  ASSUME IInv, ~Dangling, HashEnd
  PROVE  IInv'
<1>0. /\ u \in Thread /\ u.pc = "hashed" /\ u.batch = <<>> /\ ~u.loading
      /\ filesWithoutHashes \in Seq(Files) /\ filesWithoutHashesPrioritized \in Seq(Files)
      /\ \A f \in Files : IsListed(f) => f \in cached
      /\ NoRepeat(filesWithoutHashes) /\ NoRepeat(filesWithoutHashesPrioritized)
      /\ \A f \in Files : ~(/\ Contains(filesWithoutHashes, f)
                            /\ Contains(filesWithoutHashesPrioritized, f))
  BY DEF IInv, Typed, Placed, ListsSound, HashEnd
<1>1. /\ u' \in Thread /\ u'.pc \in {"remove", "hash"} /\ u'.loading = u.loading
      /\ u'.batch = <<>>
  BY <1>0, GoIsThread DEF HashEnd, UpdaterPCs
<1>2. /\ UNCHANGED <<disk, events, cached, subs, missing, changed, failed, saved, roots,
                     scans, hasher, toStop, dirEvent, m>>
      /\ toStopHashing' = FALSE
  BY DEF HashEnd, disks, cache
<1>3. /\ filesWithoutHashes' \in Seq(Files) /\ filesWithoutHashesPrioritized' \in Seq(Files)
      /\ \A x : Contains(filesWithoutHashes', x) => Contains(filesWithoutHashes, x)
      /\ \A x : Contains(filesWithoutHashesPrioritized', x)
             => Contains(filesWithoutHashesPrioritized, x)
      /\ NoRepeat(filesWithoutHashes') /\ NoRepeat(filesWithoutHashesPrioritized')
      /\ \A x : Contains(filesWithoutHashes, x) =>
           Contains(filesWithoutHashes', x) \/ (u.got /\ x = u.file)
      /\ \A x : Contains(filesWithoutHashesPrioritized, x) =>
           Contains(filesWithoutHashesPrioritized', x) \/ (u.got /\ x = u.file)
  <2>1. CASE u.prio
    <3>1. /\ filesWithoutHashesPrioritized' = AfterHash(filesWithoutHashesPrioritized)
          /\ filesWithoutHashes' = filesWithoutHashes
      BY <2>1 DEF HashEnd
    <3> QED  BY <1>0, <3>1, AfterHashFacts
  <2>2. CASE ~u.prio
    <3>1. /\ filesWithoutHashes' = AfterHash(filesWithoutHashes)
          /\ filesWithoutHashesPrioritized' = filesWithoutHashesPrioritized
      BY <2>2 DEF HashEnd
    <3> QED  BY <1>0, <3>1, AfterHashFacts
  <2> QED  BY <2>1, <2>2
<1>4. \A f \in Files : IsListed(f)' => IsListed(f)
  BY <1>3 DEF IsListed
<1>5. \A f \in Files : IsListed(f) => IsListed(f)' \/ (u.got /\ f = u.file)
  BY <1>3 DEF IsListed
<1>6. Typed'
  BY <1>0, <1>1, <1>2, <1>3 DEF IInv, Typed, roots, scans
<1>7. Placed'
  BY <1>0, <1>1, <1>2 DEF IInv, Placed
<1>8. RootsSound'
  BY <1>0, <1>1, <1>2, RootsFrame DEF IInv, scans
<1>9. VisitSound' /\ Asleep' /\ DoneWith'
  BY <1>1 DEF VisitSound, Asleep, DoneWith
<1>10. ListsSound'
  BY <1>0, <1>2, <1>3, <1>4 DEF ListsSound
<1>11. NotForgotten'
  <2> SUFFICES ASSUME NEW f \in cached', RootOf(In[f]) \in shared', missing'[f] > 0,
                      f \notin failed'
               PROVE  IsListed(f)'
    BY DEF NotForgotten
  <2>1. f \in Files /\ f \in cached /\ missing[f] > 0 /\ f \notin failed
    BY <1>2 DEF IInv, Typed
  <2>2. IsListed(f)
    BY <1>2, <2>1 DEF IInv, NotForgotten, roots
  <2>3. ~(u.got /\ f = u.file)
    BY <1>0, <2>1 DEF IInv, DoneWith
  <2> QED  BY <1>5, <2>1, <2>2, <2>3
<1>12. AllFollowed'
  <2> SUFFICES ASSUME NEW f \in Files, In[f] \in shared', Followed(f)
               PROVE  Steady(f) /\ EventsTrue(f)' /\ DoneTold(f)'
    BY <1>2, AllFollowedSteady DEF IInv, roots
  <2>1. EventsTrue(f)' /\ (Fresh(f) <=> Fresh(f)') /\ (Gone(f) <=> Gone(f)')
    BY <1>0, <1>1, <1>2, EventsFrame DEF Followed
  <2>2. ToScan(f) => ToScan(f)'
    BY <1>0, <1>2 DEF ToScan, Contains, scans
  <2>3. IsListed(f) /\ f \in changed' \ failed' => IsListed(f)' \/ Fresh(f)'
    <3>1. u.got /\ f = u.file /\ f \in changed \ failed => Fresh(f)
      BY <1>0 DEF Followed, DoneTold
    <3> QED  BY <1>2, <1>5, <2>1, <3>1
  <2>4. ~Visited(f) /\ ~Visited(f)'
    BY <1>0, <1>1 DEF Visited
  <2>5. Steady(f)
    BY <1>1, <1>2, <2>1, <2>2, <2>3, <2>4 DEF Steady
  <2>6. DoneTold(f)'
    BY <1>1 DEF DoneTold
  <2> QED  BY <2>1, <2>5, <2>6
<1> QED  BY <1>6, <1>7, <1>8, <1>9, <1>10, <1>11, <1>12 DEF IInv

-----------------------------------------------------------------------------
(* Lists of events.                                                        *)

LEMMA EmptyEvents ==
  /\ \A f, types : ~Tells(<<>>, f, types)
  /\ \A f, there : LastSays(<<>>, f, there)
  /\ \A f : Silent(<<>>, f)
BY EmptySeq DEF Tells, LastSays, Silent

\* The last event says what is true, so that there is one that says it.
LEMMA LastEvent ==
  ASSUME NEW list \in Seq(Event), NEW f, NEW there,
         LastSays(list, f, there), ~Silent(list, f)
  PROVE  /\ f \in there => Tells(list, f, {"new", "changed"})
         /\ f \notin there => Tells(list, f, {"deleted"})
<1> DEFINE n == Len(list)
           Q == {k \in 0 .. n : n - k \in 1 .. n /\ list[n - k].file = f}
<1>1. n \in Nat /\ DOMAIN list = 1 .. n /\ \A i \in 1 .. n : list[i] \in Event
  BY LenProperties
<1>2. PICK i \in 1 .. n : list[i].file = f
  BY <1>1 DEF Silent
<1>3. n - i \in 0 .. n /\ n - (n - i) = i
  BY <1>1, <1>2
<1>4. Q # {} /\ Q \in SUBSET Nat
  <2>1. n - i \in Q
    BY <1>2, <1>3
  <2>2. 0 .. n \in SUBSET Nat
    BY <1>1
  <2> QED  BY <2>1, <2>2
<1>5. PICK k \in Q : \A l \in Q : k <= l
  <2> HIDE DEF Q
  <2> QED  BY <1>4, LeastNumber
<1> DEFINE last == n - k
<1>6. last \in 1 .. n /\ list[last].file = f
  BY <1>5
<1>7. ASSUME NEW j \in 1 .. n, j > last PROVE list[j].file # f
  <2>1. n - j \in 0 .. n /\ n - (n - j) = j /\ ~(k <= n - j)
    BY <1>1, <1>5, <1>7
  <2> QED  BY <1>5, <2>1
<1>8. list[last].type = "deleted" <=> f \notin there
  BY <1>1, <1>6, <1>7 DEF LastSays
<1>9. list[last].type \in {"new", "changed", "deleted"}
  BY <1>1, <1>6 DEF Event, Types
<1> QED  BY <1>1, <1>6, <1>8, <1>9 DEF Tells

LEMMA AppendEvents ==
  ASSUME NEW list \in Seq(Event), NEW e \in Event, NEW f
  PROVE  /\ Append(list, e) \in Seq(Event)
         /\ \A types : Tells(list, f, types) => Tells(Append(list, e), f, types)
         /\ \A types : e.file = f /\ e.type \in types => Tells(Append(list, e), f, types)
         /\ Silent(Append(list, e), f) => Silent(list, f) /\ e.file # f
         /\ \A there : LastSays(list, f, there) /\ e.file # f =>
              LastSays(Append(list, e), f, there)
         /\ \A there : e.file = f /\ (e.type = "deleted" <=> f \notin there) =>
              LastSays(Append(list, e), f, there)
         /\ \A x : Contains(Append(list, e), x) <=> Contains(list, x) \/ x = e
<1> DEFINE n == Len(list)
           longer == Append(list, e)
<1>1. /\ n \in Nat /\ DOMAIN list = 1 .. n
      /\ longer \in Seq(Event) /\ DOMAIN longer = 1 .. n + 1
      /\ \A i \in 1 .. n : longer[i] = list[i]
      /\ longer[n + 1] = e
  BY LenProperties, AppendProperties
<1>2. /\ \A i \in 1 .. n : i \in 1 .. n + 1 /\ n + 1 > i
      /\ n + 1 \in 1 .. n + 1
      /\ \A i \in 1 .. n + 1 : i \in 1 .. n \/ i = n + 1
      /\ \A i \in 1 .. n + 1 : ~(i > n + 1)
  BY <1>1
<1> HIDE DEF n, longer
<1>3. ASSUME NEW types
      PROVE  /\ Tells(list, f, types) => Tells(longer, f, types)
             /\ e.file = f /\ e.type \in types => Tells(longer, f, types)
  BY <1>1, <1>2 DEF Tells
<1>4. Silent(longer, f) => Silent(list, f) /\ e.file # f
  BY <1>1, <1>2 DEF Silent
<1>5. ASSUME NEW there, LastSays(list, f, there), e.file # f
      PROVE  LastSays(longer, f, there)
  <2> SUFFICES ASSUME NEW i \in 1 .. n + 1, longer[i].file = f,
                      \A j \in 1 .. n + 1 : j > i => longer[j].file # f
               PROVE  longer[i].type = "deleted" <=> f \notin there
    BY <1>1 DEF LastSays
  <2>1. i \in 1 .. n
    BY <1>1, <1>2, <1>5
  <2>2. \A j \in 1 .. n : j > i => list[j].file # f
    BY <1>1, <1>2
  <2> QED  BY <1>1, <1>5, <2>1, <2>2 DEF LastSays
<1>6. ASSUME NEW there, e.file = f, e.type = "deleted" <=> f \notin there
      PROVE  LastSays(longer, f, there)
  <2> SUFFICES ASSUME NEW i \in 1 .. n + 1, longer[i].file = f,
                      \A j \in 1 .. n + 1 : j > i => longer[j].file # f
               PROVE  longer[i].type = "deleted" <=> f \notin there
    BY <1>1 DEF LastSays
  <2>1. i = n + 1
    BY <1>1, <1>2, <1>6
  <2> QED  BY <1>1, <1>6, <2>1
<1>7. \A x : Contains(longer, x) <=> Contains(list, x) \/ x = e
  BY AppendFacts DEF longer
<1> QED  BY <1>1, <1>3, <1>4, <1>5, <1>6, <1>7 DEF longer

LEMMA TailEvents ==
  ASSUME NEW list \in Seq(Event), list # <<>>, NEW f
  PROVE  /\ Head(list) \in Event /\ Tail(list) \in Seq(Event)
         /\ \A types : Tells(list, f, types) =>
              Tells(Tail(list), f, types)
              \/ (Head(list).file = f /\ Head(list).type \in types)
         /\ \A there : LastSays(list, f, there) => LastSays(Tail(list), f, there)
         /\ Silent(Tail(list), f) /\ Head(list).file # f => Silent(list, f)
<1> DEFINE n == Len(list)
           rest == Tail(list)
<1>1. /\ n \in Nat \ {0} /\ DOMAIN list = 1 .. n
      /\ Head(list) = list[1] /\ Head(list) \in Event
      /\ rest \in Seq(Event) /\ DOMAIN rest = 1 .. n - 1
      /\ \A i \in 1 .. n - 1 : rest[i] = list[i + 1]
  BY EmptySeq, LenProperties, HeadTailProperties
<1> HIDE DEF n, rest
<1>2. \A i \in 1 .. n : i # 1 => i - 1 \in 1 .. n - 1 /\ rest[i - 1] = list[i]
  BY <1>1
<1>3. \A i \in 1 .. n - 1 : i + 1 \in 1 .. n
  BY <1>1
<1>4. ASSUME NEW types, Tells(list, f, types), ~Tells(rest, f, types)
      PROVE  Head(list).file = f /\ Head(list).type \in types
  <2>1. PICK i \in 1 .. n : list[i].file = f /\ list[i].type \in types
    BY <1>1, <1>4 DEF Tells
  <2>2. i = 1
    BY <1>1, <1>2, <1>4, <2>1 DEF Tells
  <2> QED  BY <1>1, <2>1, <2>2
<1>5. ASSUME NEW there, LastSays(list, f, there) PROVE LastSays(rest, f, there)
  <2> SUFFICES ASSUME NEW i \in 1 .. n - 1, rest[i].file = f,
                      \A j \in 1 .. n - 1 : j > i => rest[j].file # f
               PROVE  rest[i].type = "deleted" <=> f \notin there
    BY <1>1 DEF LastSays
  <2>1. ASSUME NEW j \in 1 .. n, j > i + 1 PROVE list[j].file # f
    <3>1. j - 1 \in 1 .. n - 1 /\ j - 1 > i /\ j # 1
      BY <1>1, <2>1
    <3> QED  BY <1>2, <3>1
  <2>2. i + 1 \in 1 .. n /\ list[i + 1] = rest[i]
    BY <1>1, <1>3
  <2> QED  BY <1>1, <1>5, <2>1, <2>2 DEF LastSays
<1>6. ASSUME Silent(rest, f), Head(list).file # f PROVE Silent(list, f)
  BY <1>1, <1>2, <1>6 DEF Silent
<1> QED  BY <1>1, <1>4, <1>5, <1>6 DEF rest

-----------------------------------------------------------------------------
(* The events that are read, and those that come.                          *)

\* The updater reads all the events.
ReadEvents ==
  /\ u.pc \in {"waitEvent", "poll"}
  /\ u' = [Go("events") EXCEPT !.batch = events]
  /\ events' = <<>>
  /\ UNCHANGED <<disk, cache, lists, roots, scans, stops, dirEvent, m>>

LEMMA ReadEventsStep ==
  ASSUME IInv, ReadEvents
  PROVE  IInv'
<1>0. /\ u \in Thread /\ u.pc \in {"waitEvent", "poll"} /\ u.batch = <<>> /\ ~u.loading
      /\ events \in Seq(Event)
  BY DEF IInv, Typed, Placed, ReadEvents
<1>1. u' \in Thread /\ u'.pc = "events" /\ u'.loading = u.loading /\ u'.batch = events
  BY <1>0, GoBatchFields DEF ReadEvents
<1>2. UNCHANGED <<disk, cached, subs, missing, changed, failed, saved, lists, roots,
                  entriesToScan, currentScanningEntry, hasher, toStopHashing, toStop,
                  dirEvent, m>>
  BY DEF ReadEvents, cache, scans, stops
<1>3. events' = <<>>
  BY DEF ReadEvents
<1>4. Typed'
  <2>1. events' \in Seq(Event)
    BY <1>3
  <2> QED  BY <1>1, <1>2, <2>1 DEF IInv, Typed, lists, roots
<1>5. Placed'
  BY <1>0, <1>1, <1>2 DEF IInv, Placed
<1>6. RootsSound'
  <2>1. DOMAIN events' = {}
    BY <1>3, EmptySeq
  <2> QED  BY <1>1, <1>2, <2>1 DEF IInv, RootsSound, Known, roots
<1>7. VisitSound' /\ Asleep' /\ DoneWith'
  BY <1>1 DEF VisitSound, Asleep, DoneWith
<1>8. ListsSound' /\ NotForgotten'
  BY <1>2, ListsFrame, ForgottenFrame DEF IInv, roots
<1>9. AllFollowed'
  <2> SUFFICES ASSUME NEW f \in Files, In[f] \in shared', Followed(f)
               PROVE  Steady(f) /\ EventsTrue(f)' /\ DoneTold(f)'
    BY <1>2, AllFollowedSteady DEF IInv, roots
  <2>1. EventsTrue(f)'
    BY <1>1, <1>2, <1>3, EmptyEvents DEF Followed, EventsTrue
  <2>2. (Fresh(f) => Fresh(f)') /\ (Gone(f) => Gone(f)')
    BY <1>0, <1>1, <1>3, EmptyEvents DEF Fresh, Gone, Told
  <2>3. (IsListed(f) => IsListed(f)') /\ (ToScan(f) => ToScan(f)')
    BY <1>0, <1>2 DEF IsListed, ToScan, Contains, lists
  <2>4. ~Visited(f) /\ ~Visited(f)'
    BY <1>0, <1>1 DEF Visited
  <2>5. Steady(f)
    BY <1>1, <1>2, <2>2, <2>3, <2>4 DEF Steady
  <2>6. DoneTold(f)'
    BY <1>1 DEF DoneTold
  <2> QED  BY <2>1, <2>5, <2>6
<1> QED  BY <1>4, <1>5, <1>6, <1>7, <1>8, <1>9 DEF IInv

LEMMA WaitEventStep ==
  ASSUME IInv, WaitEvent
  PROVE  IInv'
<1>0. u \in Thread /\ u.pc = "waitEvent" /\ u.batch = <<>> /\ ~u.loading
  BY DEF IInv, Typed, Placed, WaitEvent
<1>1. CASE dirEvent.pipe
  <2>1. u' = Go("loop") /\ dirEvent' = [dirEvent EXCEPT !.pipe = FALSE] /\ events' = events
    BY <1>1 DEF WaitEvent
  <2>2. u' \in Thread /\ u'.pc = "loop" /\ u'.loading = u.loading /\ u'.batch = <<>>
    BY <1>0, <2>1, GoIsThread DEF UpdaterPCs
  <2>3. dirEvent' \in [flag : BOOLEAN, pipe : BOOLEAN]
    BY <2>1 DEF IInv, Typed
  <2>4. Move
    BY <1>0, <2>1, <2>2, <2>3
       DEF WaitEvent, Move, IInv, Typed, disks, cache, lists, roots, stops, scans
  <2> QED  BY <2>4, MoveStep
<1>2. CASE ~dirEvent.pipe
  <2>1. ReadEvents
    BY <1>2 DEF WaitEvent, ReadEvents, disks
  <2> QED  BY <2>1, ReadEventsStep
<1> QED  BY <1>1, <1>2

LEMMA PollStep ==
  ASSUME IInv, Poll
  PROVE  IInv'
<1>1. ReadEvents
  BY DEF Poll, ReadEvents, disks
<1> QED  BY <1>1, ReadEventsStep

\* Something happens on the disk.
LEMMA ChangeStep ==
  ASSUME IInv, NEW g \in Files, Change(g)
  PROVE  IInv'
<1>0. /\ In[g] \in Dirs /\ events \in Seq(Event) /\ u \in Thread
      /\ disk \in SUBSET Files /\ saved \in SUBSET Files
      /\ changed \in SUBSET cached /\ cached \in SUBSET Files
      /\ shared \in SUBSET Roots /\ watched \in SUBSET Roots
      /\ shared \subseteq watched /\ watched \subseteq Known
  BY UpdaterAssumption DEF IInv, Typed, RootsSound
<1>1. PICK type \in Types :
        /\ Seen(type, g)
        /\ type = "new" => disk' = disk \cup {g}
        /\ type = "changed" => g \in disk /\ disk' = disk
        /\ type = "deleted" => disk' = disk \ {g} /\ changed' = changed /\ saved' = saved
        /\ type # "deleted" => changed' = changed \cup ({g} \cap cached)
        /\ saved' \in SUBSET Files
  BY <1>0 DEF Change, Types
<1>2. UNCHANGED <<cached, subs, missing, failed, lists, roots, scans, stops, dirEvent, u, m>>
  BY DEF Change
<1> DEFINE e == [type |-> type, file |-> g]
<1>3. e \in Event /\ e.file = g /\ e.type = type
  BY DEF Event
<1>4. events' = IF RootOf(In[g]) \in watched THEN Append(events, e) ELSE events
  BY <1>1 DEF Seen
<1> HIDE DEF e
<1>5. Typed'
  <2>1. events' \in Seq(Event)
    BY <1>0, <1>3, <1>4, AppendEvents
  <2>2. disk' \in SUBSET Files /\ changed' \in SUBSET cached
    BY <1>0, <1>1 DEF Types
  <2> QED  BY <1>1, <1>2, <2>1, <2>2 DEF IInv, Typed, lists, roots, scans, stops
<1>6. Placed' /\ VisitSound' /\ DoneWith' /\ Asleep'
  BY <1>2 DEF IInv, Placed, VisitSound, DoneWith, Asleep, IsListed, Contains,
              lists, roots, scans, stops
<1>7. RootsSound'
  <2>1. \A i \in DOMAIN events' : RootOf(In[events'[i].file]) \in Known
    <3> SUFFICES ASSUME NEW i \in DOMAIN events', ~(RootOf(In[events'[i].file]) \in Known)
                 PROVE  FALSE
      OBVIOUS
    <3>1. Contains(events', events'[i])
      BY DEF Contains
    <3>2. Contains(events, events'[i]) \/ (RootOf(In[g]) \in watched /\ events'[i] = e)
      BY <1>0, <1>3, <1>4, <3>1, AppendEvents
    <3>3. ~Contains(events, events'[i])
      BY DEF Contains, IInv, RootsSound
    <3> QED  BY <1>0, <1>3, <3>2, <3>3
  <2> QED  BY <1>2, <2>1 DEF IInv, RootsSound, Known, roots, scans
<1>8. ListsSound' /\ NotForgotten'
  BY <1>2, ListsFrame, ForgottenFrame DEF IInv, roots
<1>9. AllFollowed'
  <2> SUFFICES ASSUME ~toStop', NEW f \in Files, In[f] \in shared'
               PROVE  Followed(f)'
    BY DEF AllFollowed
  <2>0. Followed(f) /\ In[f] \in shared
    BY <1>2 DEF IInv, AllFollowed, roots, stops
  <2>1. /\ \A types : Tells(events, f, types) => Tells(events', f, types)
        /\ Silent(events', f) => Silent(events, f)
    BY <1>0, <1>3, <1>4, AppendEvents
  <2>2. (Fresh(f) => Fresh(f)') /\ (Gone(f) => Gone(f)')
    BY <1>2, <2>1 DEF Fresh, Gone, Told
  <2>3. (IsListed(f) => IsListed(f)') /\ (ToScan(f) => ToScan(f)')
        /\ (Visited(f)' <=> Visited(f))
    BY <1>2 DEF IsListed, ToScan, Visited, Contains, lists, scans
  <2>4. CASE f # g
    <3>1. /\ f \in disk' <=> f \in disk
          /\ f \in changed' <=> f \in changed
      BY <1>1, <2>4 DEF Types
    <3>2. EventsTrue(f)'
      <4>1. LastSays(events, f, disk) /\ (Silent(events, f) => LastSays(u.batch, f, disk))
        BY <2>0 DEF Followed, EventsTrue
      <4>2. LastSays(events, f, disk') /\ (Silent(events, f) => LastSays(u.batch, f, disk'))
        BY <3>1, <4>1 DEF LastSays
      <4>3. LastSays(events', f, disk')
        BY <1>0, <1>3, <1>4, <2>4, <4>2, AppendEvents
      <4> QED  BY <1>2, <2>1, <4>2, <4>3 DEF EventsTrue
    <3>3. DoneTold(f)'
      BY <1>2, <2>0, <2>2, <3>1 DEF Followed, DoneTold
    <3>4. Steady(f)
      BY <1>2, <2>2, <2>3, <3>1 DEF Steady
    <3> QED  BY <2>0, <3>2, <3>3, <3>4, FollowedSteady
  <2>5. CASE f = g
    <3>1. events' = Append(events, e)
      <4>1. RootOf(In[g]) = In[g]
        BY <1>0, <2>0, <2>5, RootFacts
      <4> QED  BY <1>0, <1>4, <2>0, <2>5, <4>1
    <3>2. /\ type = "deleted" <=> f \notin disk'
          /\ type = "deleted" => changed' = changed
          /\ type # "deleted" => type \in {"new", "changed"}
      BY <1>1, <2>5 DEF Types
    <3>3. /\ Tells(events', f, {type}) /\ ~Silent(events', f)
          /\ type # "deleted" => Tells(events', f, {"new", "changed"})
          /\ LastSays(events', f, disk')
      BY <1>0, <1>3, <2>5, <3>1, <3>2, AppendEvents
    <3>4. EventsTrue(f)'
      BY <3>3 DEF EventsTrue
    <3>5. (type # "deleted" => Fresh(f)') /\ (type = "deleted" => Gone(f)')
      BY <3>3 DEF Fresh, Gone, Told
    <3>6. NewComes(f)' /\ DeletionComes(f)' /\ ChangeComes(f)'
      BY <3>2, <3>5 DEF NewComes, DeletionComes, ChangeComes
    <3>7. VisitTold(f)'
      BY <3>2, <3>5 DEF VisitTold
    <3>8. LoadTold(f)' /\ DoneTold(f)'
      BY <1>2, <2>0, <2>2, <3>2, <3>5 DEF Followed, LoadTold, DoneTold
    <3> QED  BY <3>4, <3>6, <3>7, <3>8 DEF Followed
  <2> QED  BY <2>4, <2>5
<1> QED  BY <1>5, <1>6, <1>7, <1>8, <1>9 DEF IInv

-----------------------------------------------------------------------------
(* Files that leave the cache.                                             *)

LEMMA DeleteFilesFacts ==
  ASSUME IInv, ~Dangling, NEW F \in SUBSET cached, DeleteFiles(F),
         UNCHANGED <<shared, deleted>>
  PROVE  /\ cached' = cached \ F /\ changed' = changed \ F /\ failed' = failed \ F
         /\ missing' \in [Files -> 0 .. NbChunks]
         /\ filesWithoutHashes' \in Seq(Files)
         /\ filesWithoutHashesPrioritized' \in Seq(Files)
         /\ \A f \in Files : IsListed(f)' <=> IsListed(f) /\ f \notin F
         /\ ListsSound'
         /\ NotForgotten'
<1>0. /\ filesWithoutHashes \in Seq(Files) /\ filesWithoutHashesPrioritized \in Seq(Files)
      /\ missing \in [Files -> 0 .. NbChunks] /\ NbChunks \in Nat
      /\ cached \in SUBSET Files
      /\ \A f \in Files : IsListed(f) => f \in cached
      /\ NoRepeat(filesWithoutHashes) /\ NoRepeat(filesWithoutHashesPrioritized)
      /\ \A f \in Files : ~(/\ Contains(filesWithoutHashes, f)
                            /\ Contains(filesWithoutHashesPrioritized, f))
  BY UpdaterAssumption DEF IInv, Typed, ListsSound
<1>1. cached' = cached \ F /\ changed' = changed \ F /\ failed' = failed \ F
  BY DEF DeleteFiles
<1>2. missing' = [f \in Files |-> IF f \in F THEN 0 ELSE missing[f]]
  BY DEF DeleteFiles
<1>3. missing' \in [Files -> 0 .. NbChunks]
  <2>1. 0 \in 0 .. NbChunks
    BY <1>0
  <2> QED  BY <1>0, <1>2, <2>1
<1>4. /\ filesWithoutHashes' \in Seq(Files)
      /\ filesWithoutHashesPrioritized' \in Seq(Files)
      /\ \A x : Contains(filesWithoutHashes', x) <=>
           Contains(filesWithoutHashes, x) /\ x \notin F
      /\ \A x : Contains(filesWithoutHashesPrioritized', x) <=>
           Contains(filesWithoutHashesPrioritized, x) /\ x \notin F
      /\ NoRepeat(filesWithoutHashes') /\ NoRepeat(filesWithoutHashesPrioritized')
  BY <1>0, WithoutFacts DEF DeleteFiles
<1>5. \A f \in Files : IsListed(f)' <=> IsListed(f) /\ f \notin F
  BY <1>4 DEF IsListed
<1>6. ListsSound'
  BY <1>0, <1>1, <1>4, <1>5 DEF ListsSound
<1>7. NotForgotten'
  <2> SUFFICES ASSUME NEW f \in cached', RootOf(In[f]) \in shared', missing'[f] > 0,
                      f \notin failed'
               PROVE  IsListed(f)'
    BY DEF NotForgotten
  <2>1. f \in cached /\ f \notin F /\ f \in Files /\ missing[f] > 0 /\ f \notin failed
    BY <1>0, <1>1, <1>2
  <2> QED  BY <1>5, <2>1 DEF IInv, NotForgotten
<1> QED  BY <1>1, <1>3, <1>4, <1>5, <1>6, <1>7

\* The events but the first.
LEMMA NextEvent ==
  ASSUME IInv, u.pc = "events", u.batch # <<>>, u' = [u EXCEPT !.batch = Tail(@)],
         UNCHANGED <<disk, events>>
  PROVE  /\ Head(u.batch) \in Event
         /\ u' \in Thread /\ u'.pc = "events" /\ u'.loading = u.loading /\ ~u.loading
         /\ RootOf(In[Head(u.batch).file]) \in Known
         /\ \A i \in DOMAIN u'.batch : RootOf(In[u'.batch[i].file]) \in Known
         /\ \A f \in Files : EventsTrue(f) => EventsTrue(f)'
         /\ \A f \in Files : f # Head(u.batch).file =>
              (Fresh(f) => Fresh(f)') /\ (Gone(f) => Gone(f)')
<1> DEFINE batch == u.batch
<1>0. u \in Thread /\ batch \in Seq(Event) /\ ~u.loading /\ batch # <<>>
  BY DEF IInv, Typed, Placed, Thread
<1>1. /\ Head(batch) \in Event /\ Tail(batch) \in Seq(Event)
      /\ \A f, types : Tells(batch, f, types) =>
           Tells(Tail(batch), f, types)
           \/ (Head(batch).file = f /\ Head(batch).type \in types)
      /\ \A f, there : LastSays(batch, f, there) => LastSays(Tail(batch), f, there)
  <2> HIDE DEF batch
  <2> QED  BY <1>0, TailEvents
<1>2. u' \in Thread /\ u'.pc = "events" /\ u'.loading = u.loading /\ u'.batch = Tail(batch)
  BY <1>0, <1>1 DEF Thread
<1>3. \A x : Contains(batch, x) <=> x = Head(batch) \/ Contains(Tail(batch), x)
  <2> HIDE DEF batch
  <2> QED  BY <1>0, TailFacts
<1>4. \A x : Contains(batch, x) => RootOf(In[x.file]) \in Known
  BY DEF IInv, RootsSound, Contains
<1>5. /\ RootOf(In[Head(batch).file]) \in Known
      /\ \A i \in DOMAIN u'.batch : RootOf(In[u'.batch[i].file]) \in Known
  BY <1>2, <1>3, <1>4 DEF Contains
<1>6. ASSUME NEW f \in Files, EventsTrue(f) PROVE EventsTrue(f)'
  BY <1>1, <1>2, <1>6 DEF EventsTrue
<1>7. ASSUME NEW f \in Files, f # Head(batch).file
      PROVE  (Fresh(f) => Fresh(f)') /\ (Gone(f) => Gone(f)')
  BY <1>1, <1>2, <1>7 DEF Fresh, Gone, Told
<1> QED  BY <1>0, <1>1, <1>2, <1>5, <1>6, <1>7

\* A deletion that was read: what came after it is still to be read.
LEMMA DeletedStep ==
  ASSUME IInv, ~Dangling, ProcessEvent, Head(u.batch).type = "deleted"
  PROVE  IInv'
<1> DEFINE g == Head(u.batch).file
           F == {g} \cap {f \in cached : RootOf(In[f]) \in shared}
<1>0. /\ u.pc = "events" /\ u.batch # <<>> /\ u' = [u EXCEPT !.batch = Tail(@)]
      /\ DeleteFiles(F) /\ F \in SUBSET cached
  BY DEF ProcessEvent
<1>1. UNCHANGED <<disk, events, subs, saved, shared, watched, entriesToRemove, deleted,
                  roots, entriesToScan, currentScanningEntry, hasher, toStopHashing,
                  toStop, dirEvent, m>>
  BY <1>0 DEF ProcessEvent, DeleteFiles, disks, roots, stops
<1>2. /\ Head(u.batch) \in Event
      /\ u' \in Thread /\ u'.pc = "events" /\ u'.loading = u.loading /\ ~u.loading
      /\ \A i \in DOMAIN u'.batch : RootOf(In[u'.batch[i].file]) \in Known
      /\ \A f \in Files : EventsTrue(f) => EventsTrue(f)'
      /\ \A f \in Files : f # g => (Fresh(f) => Fresh(f)') /\ (Gone(f) => Gone(f)')
  BY <1>0, <1>1, NextEvent
<1> HIDE DEF F
<1>3. /\ cached' = cached \ F /\ changed' = changed \ F /\ failed' = failed \ F
      /\ missing' \in [Files -> 0 .. NbChunks]
      /\ filesWithoutHashes' \in Seq(Files)
      /\ filesWithoutHashesPrioritized' \in Seq(Files)
      /\ \A f \in Files : IsListed(f)' <=> IsListed(f) /\ f \notin F
      /\ ListsSound'
      /\ NotForgotten'
  BY <1>0, <1>1, DeleteFilesFacts
<1>4. Typed'
  BY <1>1, <1>2, <1>3 DEF IInv, Typed
<1>5. Placed'
  BY <1>1, <1>2 DEF IInv, Placed
<1>6. RootsSound'
  BY <1>1, <1>2, <1>3 DEF IInv, RootsSound, Known
<1>7. VisitSound' /\ Asleep' /\ DoneWith'
  BY <1>2 DEF VisitSound, Asleep, DoneWith
<1>8. AllFollowed'
  <2> SUFFICES ASSUME ~toStop', NEW f \in Files, In[f] \in shared'
               PROVE  Followed(f)'
    BY DEF AllFollowed
  <2>0. Followed(f) /\ EventsTrue(f)' /\ RootOf(In[f]) \in shared
    <3>1. In[f] \in Roots
      BY <1>1 DEF IInv, Typed
    <3>2. RootOf(In[f]) = In[f]
      BY <3>1 DEF RootOf
    <3> QED  BY <1>1, <1>2, <3>2 DEF IInv, AllFollowed, Followed
  <2>1. ~Visited(f) /\ ~Visited(f)' /\ (ToScan(f) => ToScan(f)') /\ DoneTold(f)'
    BY <1>0, <1>1, <1>2 DEF Visited, ToScan, Contains, DoneTold
  <2>2. CASE f # g
    <3>1. f \notin F
      BY <2>2 DEF F
    <3>2. Steady(f)
      BY <1>1, <1>2, <1>3, <2>1, <2>2, <3>1 DEF Steady
    <3> QED  BY <2>0, <2>1, <3>2, FollowedSteady
  <2>3. CASE f = g
    <3>1. f \notin cached' /\ f \notin changed'
      BY <1>3, <2>0, <2>3 DEF F, IInv, Typed
    <3>2. f \in disk => Fresh(f)'
      <4> SUFFICES ASSUME f \in disk PROVE Fresh(f)'
        OBVIOUS
      <4>1. CASE ~Silent(events, f)
        <5>1. Tells(events, f, {"new", "changed"})
          BY <2>0, <4>1, LastEvent DEF Followed, EventsTrue, IInv, Typed
        <5> QED  BY <1>1, <5>1 DEF Fresh, Told
      <4>2. CASE Silent(events, f)
        <5>1. u.batch \in Seq(Event) /\ LastSays(u.batch, f, disk)
          BY <2>0, <4>2 DEF Followed, EventsTrue, IInv, Typed, Thread
        <5>2. ~Silent(u.batch, f)
          <6>1. Contains(u.batch, Head(u.batch))
            BY <1>0, <5>1, TailFacts
          <6> QED  BY <2>3, <6>1 DEF Contains, Silent
        <5>3. Tells(u.batch, f, {"new", "changed"})
          BY <5>1, <5>2, LastEvent
        <5>4. Tells(Tail(u.batch), f, {"new", "changed"})
          <6>1. \A types : Tells(u.batch, f, types) =>
                  Tells(Tail(u.batch), f, types)
                  \/ (Head(u.batch).file = f /\ Head(u.batch).type \in types)
            BY <1>0, <5>1, TailEvents, Zenon
          <6>2. Head(u.batch).type \notin {"new", "changed"}
            OBVIOUS
          <6> QED  BY <5>3, <6>1, <6>2
        <5>5. u'.batch = Tail(u.batch)
          BY <1>0 DEF IInv, Typed, Thread
        <5> QED  BY <5>4, <5>5 DEF Fresh, Told
      <4> QED  BY <4>1, <4>2
    <3>3. NewComes(f)' /\ DeletionComes(f)' /\ ChangeComes(f)'
      BY <1>1, <3>1, <3>2 DEF NewComes, DeletionComes, ChangeComes
    <3>4. VisitTold(f)' /\ LoadTold(f)'
      BY <2>1, <3>1 DEF VisitTold, LoadTold
    <3> QED  BY <2>0, <2>1, <3>3, <3>4 DEF Followed
  <2> QED  BY <2>2, <2>3
<1> QED  BY <1>3, <1>4, <1>5, <1>6, <1>7, <1>8 DEF IInv

\* A file that appeared or changed has its directory scanned.
LEMMA ToScanStep ==
  ASSUME IInv, ~Dangling, ProcessEvent, Head(u.batch).type # "deleted"
  PROVE  IInv'
<1> DEFINE g == Head(u.batch).file
           d == FittestDirectory(g)
<1>0. /\ u.pc = "events" /\ u.batch # <<>> /\ u' = [u EXCEPT !.batch = Tail(@)]
      /\ entriesToScan' = IF RootOf(d) \notin shared \/ Contains(entriesToScan, d)
                          THEN entriesToScan ELSE Append(entriesToScan, d)
  BY DEF ProcessEvent
<1>1. UNCHANGED <<disk, events, cached, subs, missing, changed, failed, saved, lists,
                  roots, currentScanningEntry, hasher, toStopHashing, toStop, dirEvent, m>>
  BY DEF ProcessEvent, disks, cache, stops
<1>2. /\ Head(u.batch) \in Event
      /\ u' \in Thread /\ u'.pc = "events" /\ u'.loading = u.loading /\ ~u.loading
      /\ \A i \in DOMAIN u'.batch : RootOf(In[u'.batch[i].file]) \in Known
      /\ \A f \in Files : EventsTrue(f) => EventsTrue(f)'
      /\ \A f \in Files : f # g => (Fresh(f) => Fresh(f)') /\ (Gone(f) => Gone(f)')
  BY <1>0, <1>1, NextEvent
<1>3. g \in Files /\ entriesToScan \in Seq(Dirs)
  BY <1>2 DEF Event, IInv, Typed
<1>4. d \in Dirs /\ RootOf(d) = RootOf(In[g]) /\ (In[g] \in Roots => d = In[g])
  <2> HIDE DEF g
  <2> QED  BY <1>3, FittestFacts
<1> HIDE DEF d
<1>5. /\ entriesToScan' \in Seq(Dirs)
      /\ \A x : Contains(entriesToScan, x) => Contains(entriesToScan', x)
      /\ \A x : Contains(entriesToScan', x) =>
           Contains(entriesToScan, x) \/ (x = d /\ RootOf(d) \in shared)
      /\ RootOf(d) \in shared => Contains(entriesToScan', d)
  <2>1. CASE RootOf(d) \notin shared \/ Contains(entriesToScan, d)
    BY <1>0, <1>3, <2>1
  <2>2. CASE ~(RootOf(d) \notin shared \/ Contains(entriesToScan, d))
    <3>1. entriesToScan' = Append(entriesToScan, d)
      BY <1>0, <2>2
    <3> QED  BY <1>3, <1>4, <2>2, <3>1, AppendFacts
  <2> QED  BY <2>1, <2>2
<1>6. Typed'
  BY <1>1, <1>2, <1>5 DEF IInv, Typed, lists, roots
<1>7. Placed'
  BY <1>1, <1>2 DEF IInv, Placed
<1>8. RootsSound'
  <2>1. \A i \in DOMAIN entriesToScan' : RootOf(entriesToScan'[i]) \in Known
    <3> SUFFICES ASSUME NEW i \in DOMAIN entriesToScan',
                        ~(RootOf(entriesToScan'[i]) \in Known)
                 PROVE  FALSE
      OBVIOUS
    <3>1. Contains(entriesToScan', entriesToScan'[i])
      BY DEF Contains
    <3>2. ~Contains(entriesToScan, entriesToScan'[i])
      BY DEF Contains, IInv, RootsSound
    <3> QED  BY <1>5, <3>1, <3>2 DEF Known
  <2> QED  BY <1>1, <1>2, <2>1 DEF IInv, RootsSound, Known, roots
<1>9. VisitSound' /\ Asleep' /\ DoneWith'
  BY <1>2 DEF VisitSound, Asleep, DoneWith
<1>10. ListsSound' /\ NotForgotten'
  BY <1>1, ListsFrame, ForgottenFrame DEF IInv, roots
<1>11. AllFollowed'
  <2> SUFFICES ASSUME ~toStop', NEW f \in Files, In[f] \in shared'
               PROVE  Followed(f)'
    BY DEF AllFollowed
  <2>0. Followed(f) /\ EventsTrue(f)' /\ In[f] \in Roots /\ RootOf(In[f]) \in shared
    <3>1. In[f] \in Roots
      BY <1>1 DEF IInv, Typed, roots
    <3>2. RootOf(In[f]) = In[f]
      BY <3>1 DEF RootOf
    <3> QED  BY <1>1, <1>2, <3>1, <3>2 DEF IInv, AllFollowed, Followed, roots
  <2>1. ~Visited(f) /\ ~Visited(f)' /\ (ToScan(f) => ToScan(f)') /\ DoneTold(f)'
    BY <1>0, <1>2, <1>5 DEF Visited, ToScan, DoneTold
  <2>2. CASE f # g
    <3>1. IsListed(f) => IsListed(f)'
      BY <1>1 DEF IsListed, Contains, lists
    <3>2. Steady(f)
      BY <1>1, <1>2, <2>1, <2>2, <3>1 DEF Steady
    <3> QED  BY <2>0, <2>1, <3>2, FollowedSteady
  <2>3. CASE f = g
    <3>1. ToScan(f)'
      BY <1>4, <1>5, <2>0, <2>3 DEF ToScan
    <3>2. NewComes(f)' /\ DeletionComes(f)' /\ ChangeComes(f)'
      BY <3>1 DEF NewComes, DeletionComes, ChangeComes
    <3>3. VisitTold(f)' /\ LoadTold(f)'
      BY <1>2, <2>1 DEF VisitTold, LoadTold
    <3> QED  BY <2>0, <2>1, <3>2, <3>3 DEF Followed
  <2> QED  BY <2>2, <2>3
<1> QED  BY <1>6, <1>7, <1>8, <1>9, <1>10, <1>11 DEF IInv

-----------------------------------------------------------------------------
(* The removal of directories, and what is restored from the saved cache.  *)

LEMMA RestoreStep ==
  ASSUME IInv, ~Dangling, Restore
  PROVE  IInv'
<1> DEFINE F == FilesUnder(u.dir) \cap cached \cap saved
<1>0. /\ u \in Thread /\ u.pc = "restore" /\ u.batch = <<>> /\ u.loading
      /\ filesWithoutHashes \in Seq(Files)
      /\ missing \in [Files -> 0 .. NbChunks] /\ NbChunks \in Nat
      /\ cached \in SUBSET Files /\ F \subseteq cached
  BY UpdaterAssumption DEF IInv, Typed, Placed, Restore
<1>1. /\ missing' = [f \in Files |-> IF f \in F THEN 0 ELSE missing[f]]
      /\ filesWithoutHashes' = Without(filesWithoutHashes, F)
      /\ u' = Go("load")
      /\ UNCHANGED <<disk, events, cached, subs, changed, failed, saved,
                     filesWithoutHashesPrioritized, shared, watched, entriesToRemove, deleted,
                     entriesToScan, currentScanningEntry, hasher, toStopHashing, toStop,
                     dirEvent, m>>
  BY DEF Restore, disks, roots, scans, stops
<1> HIDE DEF F
<1>2. u' \in Thread /\ u'.pc = "load" /\ u'.loading = u.loading /\ u'.batch = <<>>
  BY <1>0, <1>1, GoIsThread DEF UpdaterPCs
<1>3. /\ filesWithoutHashes' \in Seq(Files)
      /\ \A x : Contains(filesWithoutHashes', x) <=>
           Contains(filesWithoutHashes, x) /\ x \notin F
      /\ NoRepeat(filesWithoutHashes) => NoRepeat(filesWithoutHashes')
  BY <1>0, <1>1, WithoutFacts
<1>4. \A f \in Files : /\ IsListed(f)' => IsListed(f)
                       /\ IsListed(f) /\ f \notin F => IsListed(f)'
  BY <1>1, <1>3 DEF IsListed
<1>5. Typed'
  <2>1. missing' \in [Files -> 0 .. NbChunks]
    <3>1. 0 \in 0 .. NbChunks
      BY <1>0
    <3> QED  BY <1>0, <1>1, <3>1
  <2> QED  BY <1>1, <1>2, <1>3, <2>1 DEF IInv, Typed
<1>6. Placed'
  BY <1>0, <1>1, <1>2 DEF IInv, Placed
<1>7. RootsSound'
  BY <1>0, <1>1, <1>2, RootsFrame DEF IInv, roots
<1>8. VisitSound' /\ Asleep' /\ DoneWith'
  BY <1>2 DEF VisitSound, Asleep, DoneWith
<1>9. ListsSound'
  <2>1. /\ NoRepeat(filesWithoutHashes') /\ NoRepeat(filesWithoutHashesPrioritized')
    BY <1>1, <1>3 DEF IInv, ListsSound, NoRepeat
  <2>2. ASSUME NEW f \in Files
        PROVE  ~(/\ Contains(filesWithoutHashes', f)
                 /\ Contains(filesWithoutHashesPrioritized', f))
    BY <1>1, <1>3 DEF IInv, ListsSound
  <2>3. ASSUME NEW f \in Files, IsListed(f)' PROVE f \in cached'
    BY <1>1, <1>4, <2>3 DEF IInv, ListsSound
  <2> QED  BY <2>1, <2>2, <2>3 DEF ListsSound
<1>10. NotForgotten'
  <2> SUFFICES ASSUME NEW f \in cached', RootOf(In[f]) \in shared', missing'[f] > 0,
                      f \notin failed'
               PROVE  IsListed(f)'
    BY DEF NotForgotten
  <2>1. f \in cached /\ f \in Files /\ f \notin F /\ missing[f] > 0 /\ f \notin failed
    BY <1>0, <1>1
  <2> QED  BY <1>1, <1>4, <2>1 DEF IInv, NotForgotten
<1>11. AllFollowed'
  <2> SUFFICES ASSUME NEW f \in Files, In[f] \in shared', Followed(f)
               PROVE  Steady(f) /\ EventsTrue(f)' /\ DoneTold(f)'
    BY <1>1, AllFollowedSteady DEF IInv
  <2>1. EventsTrue(f)' /\ (Fresh(f) <=> Fresh(f)') /\ (Gone(f) <=> Gone(f)')
    BY <1>0, <1>1, <1>2, EventsFrame DEF Followed
  <2>2. ~Visited(f) /\ ~Visited(f)' /\ (ToScan(f) => ToScan(f)') /\ DoneTold(f)'
    BY <1>0, <1>1, <1>2 DEF Visited, ToScan, Contains, DoneTold
  <2>3. f \in changed' => Fresh(f)'
    BY <1>0, <1>1, <2>1 DEF Followed, LoadTold
  <2>4. Steady(f)
    BY <1>1, <1>2, <2>1, <2>2, <2>3 DEF Steady
  <2> QED  BY <2>1, <2>2, <2>4
<1> QED  BY <1>5, <1>6, <1>7, <1>8, <1>9, <1>10, <1>11 DEF IInv

LEMMA RemoveStep ==
  ASSUME IInv, ~Dangling, Remove
  PROVE  IInv'
<1> DEFINE F == UNION {FilesUnder(r) : r \in entriesToRemove}
           D == UNION {DirsUnder(r) : r \in entriesToRemove}
           toWait == entriesToScan = <<>> /\ NothingToHash
<1>0. /\ u \in Thread /\ u.pc = "remove" /\ u.batch = <<>> /\ ~u.loading
      /\ missing \in [Files -> 0 .. NbChunks] /\ NbChunks \in Nat
      /\ cached \in SUBSET Files /\ shared \in SUBSET Roots
      /\ entriesToRemove \in SUBSET Roots
      /\ shared \cap (entriesToRemove \cup deleted \cup {m.root}) = {}
      /\ shared \subseteq watched
  BY UpdaterAssumption DEF IInv, Typed, Placed, RootsSound, Remove
<1>1. /\ cached' = cached \ F /\ subs' = subs \ D
      /\ missing' = [f \in Files |-> IF f \in F THEN 0 ELSE missing[f]]
      /\ changed' = changed \ F /\ failed' = failed \ F
      /\ watched' = watched \ entriesToRemove
      /\ deleted' = deleted \cup entriesToRemove
      /\ entriesToRemove' = {}
      /\ UNCHANGED <<disk, events, saved, filesWithoutHashes, filesWithoutHashesPrioritized,
                     shared, entriesToScan, currentScanningEntry, hasher, toStopHashing,
                     toStop, dirEvent, m>>
  BY DEF Remove, disks, lists, scans, stops
<1>2. u' = IF watched' = {} \/ entriesToScan # <<>>
           THEN Go(IF toWait THEN "waitDir" ELSE "take")
           ELSE Go(IF toWait THEN "waitEvent" ELSE "poll")
  BY DEF Remove
<1>3. /\ u' \in Thread /\ u'.pc \in {"waitDir", "take", "waitEvent", "poll"}
      /\ u'.loading = u.loading /\ u'.batch = <<>>
      /\ u'.pc = "waitDir" => toWait /\ (watched' = {} \/ entriesToScan # <<>>)
      /\ u'.pc = "waitEvent" => toWait
  <2> HIDE DEF toWait
  <2> QED  BY <1>0, <1>2, GoIsThread DEF UpdaterPCs
<1>4. \A f \in F : RootOf(In[f]) \in entriesToRemove
  BY <1>0, UnderFacts
<1> HIDE DEF F, D
<1>5. \A f \in Files : IsListed(f)' <=> IsListed(f)
  BY <1>1 DEF IsListed, Contains
<1>6. Typed'
  <2>1. missing' \in [Files -> 0 .. NbChunks]
    <3>1. 0 \in 0 .. NbChunks
      BY <1>0
    <3> QED  BY <1>0, <1>1, <3>1
  <2> QED  BY <1>1, <1>3, <2>1 DEF IInv, Typed
<1>7. Placed'
  BY <1>0, <1>1, <1>3 DEF IInv, Placed
<1>8. RootsSound'
  <2>1. Known' = Known /\ DOMAIN u'.batch = {}
    BY <1>1, <1>3, EmptySeq DEF Known
  <2>2. shared' \cap (entriesToRemove' \cup deleted' \cup {m'.root}) = {}
    BY <1>0, <1>1
  <2>3. shared' \subseteq watched' /\ watched' \subseteq Known
    BY <1>0, <1>1 DEF IInv, RootsSound
  <2> QED  BY <1>1, <1>3, <2>1, <2>2, <2>3 DEF IInv, RootsSound
<1>9. VisitSound' /\ DoneWith'
  BY <1>3 DEF VisitSound, DoneWith
<1>10. ListsSound'
  <2>1. ASSUME ~Dangling', NEW f \in Files, IsListed(f)' PROVE f \in cached'
    <3>1. f \in cached
      BY <1>5, <2>1 DEF IInv, ListsSound
    <3>2. RootOf(In[f]) \notin deleted'
      BY <2>1 DEF Dangling
    <3> QED  BY <1>1, <1>4, <3>1, <3>2
  <2>2. /\ NoRepeat(filesWithoutHashes') /\ NoRepeat(filesWithoutHashesPrioritized')
        /\ \A f \in Files : ~(/\ Contains(filesWithoutHashes', f)
                              /\ Contains(filesWithoutHashesPrioritized', f))
    BY <1>1 DEF IInv, ListsSound
  <2> QED  BY <2>1, <2>2 DEF ListsSound
<1>11. NotForgotten'
  <2> SUFFICES ASSUME NEW f \in cached', RootOf(In[f]) \in shared', missing'[f] > 0,
                      f \notin failed'
               PROVE  IsListed(f)'
    BY DEF NotForgotten
  <2>1. f \in cached /\ f \in Files /\ f \notin F /\ missing[f] > 0 /\ f \notin failed
    BY <1>0, <1>1
  <2> QED  BY <1>1, <1>5, <2>1 DEF IInv, NotForgotten
<1>12. AllFollowed'
  <2> SUFFICES ASSUME NEW f \in Files, In[f] \in shared', Followed(f)
               PROVE  Steady(f) /\ EventsTrue(f)' /\ DoneTold(f)'
    BY <1>1, AllFollowedSteady DEF IInv
  <2>1. EventsTrue(f)' /\ (Fresh(f) <=> Fresh(f)') /\ (Gone(f) <=> Gone(f)')
    BY <1>0, <1>1, <1>3, EventsFrame DEF Followed
  <2>2. ~Visited(f) /\ ~Visited(f)' /\ (ToScan(f) => ToScan(f)') /\ DoneTold(f)'
    BY <1>0, <1>1, <1>3 DEF Visited, ToScan, Contains, DoneTold
  <2>3. f \notin F
    <3>1. RootOf(In[f]) = In[f]
      BY <1>0, <1>1 DEF RootOf
    <3> QED  BY <1>0, <1>1, <1>4, <3>1
  <2>4. Steady(f)
    BY <1>1, <1>3, <1>5, <2>1, <2>2, <2>3 DEF Steady
  <2> QED  BY <2>1, <2>2, <2>4
<1>13. Asleep'
  <2>1. u'.pc = "waitDir" => shared' = {}
    BY <1>0, <1>1, <1>3
  <2>2. ASSUME u'.pc = "waitEvent" PROVE entriesToScan' = <<>> /\ \A f \in Files : ~IsListed(f)'
    <3>1. entriesToScan = <<>> /\ filesWithoutHashes = <<>> /\ filesWithoutHashesPrioritized = <<>>
      BY <1>3, <2>2 DEF NothingToHash
    <3>2. \A f \in Files : ~IsListed(f)
      BY <3>1, EmptyFacts DEF IsListed
    <3> QED  BY <1>1, <1>5, <3>1, <3>2
  <2> QED  BY <2>1, <2>2 DEF Asleep
<1> QED  BY <1>6, <1>7, <1>8, <1>9, <1>10, <1>11, <1>12, <1>13 DEF IInv

-----------------------------------------------------------------------------
(* The scan.                                                               *)

LEMMA AfterScanFields ==
  ASSUME u \in Thread, NEW r \in Dirs
  PROVE  /\ AfterScan(r) \in Thread /\ AfterScan(r).loading = u.loading
         /\ AfterScan(r).batch = <<>>
         /\ AfterScan(r).pc = IF u.loading THEN "restore" ELSE "loop"
         /\ u.loading => AfterScan(r).dir = r
<1>0. "restore" \in UpdaterPCs /\ "loop" \in UpdaterPCs
  BY DEF UpdaterPCs
<1>1. CASE u.loading
  <2>1. AfterScan(r) = [Go("restore") EXCEPT !.dir = r]
    BY <1>1 DEF AfterScan
  <2>2. /\ AfterScan(r) \in Thread /\ AfterScan(r).pc = "restore"
        /\ AfterScan(r).loading = u.loading /\ AfterScan(r).dir = r
        /\ AfterScan(r).batch = <<>>
    <3> DEFINE t == [Go("restore") EXCEPT !.dir = r]
    <3>1. /\ t \in Thread /\ t.pc = "restore" /\ t.loading = u.loading /\ t.dir = r
          /\ t.batch = <<>>
      BY <1>0, GoDirFields
    <3> HIDE DEF t
    <3>2. AfterScan(r) = t
      BY <2>1 DEF t
    <3> QED  BY <3>1, <3>2
  <2> QED  BY <1>1, <2>2
<1>2. CASE ~u.loading
  <2>1. AfterScan(r) = Go("loop")
    BY <1>2 DEF AfterScan
  <2> QED  BY <1>0, <1>2, <2>1, GoIsThread
<1> QED  BY <1>1, <1>2

LEMMA WokenScanFields ==
  ASSUME IInv
  PROVE  /\ WokenScan \in [pc : {"idle"} \cup RemovePCs \cup StopPCs, root : Roots \cup {None}]
         /\ WokenScan.root = m.root
         /\ WokenScan.pc \in RemovePCs <=> m.pc \in RemovePCs
         /\ WokenScan.pc \in StopPCs <=> m.pc \in StopPCs
BY DEF IInv, Typed, Placed, WokenScan, Call, RemovePCs, StopPCs

\* The directory of a file that is followed is a shared one.
LEMMA SharedIsRoot ==
  ASSUME Typed, NEW f \in Files, In[f] \in shared
  PROVE  In[f] \in Roots /\ RootOf(In[f]) = In[f]
BY DEF Typed, RootOf

LEMMA ScanStartStep ==
  ASSUME IInv, ScanStart
  PROVE  IInv'
<1> DEFINE d == u.dir
           old == {f \in cached : In[f] = d}
           rest == Listing(d)
<1>0. /\ u \in Thread /\ u.pc = "scan" /\ u.batch = <<>> /\ d \in Dirs
      /\ cached \in SUBSET Files /\ disk \in SUBSET Files /\ RootOf(d) \in Known
      /\ changed \in SUBSET cached
  BY DEF IInv, Typed, Placed, RootsSound, ScanStart
<1>1. /\ currentScanningEntry' = d
      /\ u' = [Go("visit") EXCEPT !.dir = d, !.visit = <<>>, !.rest = rest, !.old = old]
      /\ UNCHANGED <<disk, events, cached, subs, missing, changed, failed, saved, lists,
                     roots, entriesToScan, hasher, toStopHashing, toStop, dirEvent, m>>
  BY DEF ScanStart, Visit, disks, cache, stops
<1> HIDE DEF rest, d
<1>2. /\ rest \in SUBSET (Dirs \cup Files)
      /\ \A f \in rest \cap Files : f \in disk /\ In[f] = d
      /\ d \in Roots => \A f \in disk : In[f] = d => f \in rest
      /\ \A e \in rest \cap Dirs : e \notin Roots /\ RootOf(e) = RootOf(d)
  BY <1>0, ListingFacts DEF rest
<1>3. old \in SUBSET Files /\ \A f \in Files : f \in old <=> f \in cached /\ In[f] = d
  BY <1>0
<1> HIDE DEF old
<1>4. /\ u' \in Thread /\ u'.pc = "visit" /\ u'.loading = u.loading /\ u'.dir = d
      /\ u'.batch = <<>> /\ u'.visit = <<>> /\ u'.rest = rest /\ u'.old = old
  <2>1. PICK e : e = <<>> /\ e \in Seq(Dirs)
    <3>1. <<>> \in Seq(Dirs)
      OBVIOUS
    <3> QED  BY <3>1, Zenon
  <2> DEFINE t == VisitOf(d, e, rest, old)
  <2>2. /\ t \in Thread /\ t.pc = "visit" /\ t.loading = u.loading /\ t.dir = d
        /\ t.batch = <<>> /\ t.visit = e /\ t.rest = rest /\ t.old = old
    <3>1. d \in Dirs /\ rest \in SUBSET (Dirs \cup Files) /\ old \in SUBSET Files /\ u \in Thread
      BY <1>0, <1>2, <1>3
    <3>2. e \in Seq(Dirs)
      BY <2>1
    <3> QED  BY <3>1, <3>2, GoVisitFields
  <2> HIDE DEF t
  <2>3. u' = t
    BY <1>1, <2>1 DEF t, VisitOf
  <2> QED  BY <2>1, <2>2, <2>3
<1>5. Typed'
  BY <1>0, <1>1, <1>4 DEF IInv, Typed, lists, roots
<1>6. Placed'
  BY <1>0, <1>1, <1>4 DEF IInv, Placed
<1>7. RootsSound'
  BY <1>0, <1>1, <1>4 DEF IInv, RootsSound, Known, roots
<1>8. VisitSound'
  <2>1. d # None
    BY <1>0, UpdaterAssumption
  <2>2. DOMAIN u'.visit = {}
    BY <1>4, EmptySeq
  <2> QED  BY <1>0, <1>1, <1>2, <1>3, <1>4, <2>1, <2>2 DEF VisitSound
<1>9. DoneWith' /\ Asleep'
  BY <1>4 DEF DoneWith, Asleep
<1>10. ListsSound' /\ NotForgotten'
  BY <1>1, ListsFrame, ForgottenFrame DEF IInv, roots
<1>11. AllFollowed'
  <2> SUFFICES ASSUME ~toStop', NEW f \in Files, In[f] \in shared'
               PROVE  Followed(f)'
    BY DEF AllFollowed
  <2>0. Followed(f) /\ In[f] \in Roots
    BY <1>1, SharedIsRoot DEF IInv, AllFollowed, roots
  <2>1. EventsTrue(f)' /\ (Fresh(f) <=> Fresh(f)') /\ (Gone(f) <=> Gone(f)')
    BY <1>0, <1>1, <1>4, <2>0, EventsFrame DEF Followed
  <2>2. DoneTold(f)'
    BY <1>4 DEF DoneTold
  <2>3. IsListed(f) => IsListed(f)'
    BY <1>1 DEF IsListed, Contains, lists
  <2>4. CASE In[f] # d
    <3>1. ~Visited(f) /\ ~Visited(f)' /\ (ToScan(f) => ToScan(f)')
      BY <1>0, <1>1, <1>4, <2>4 DEF Visited, ToScan, Contains, d
    <3>2. Steady(f)
      BY <1>1, <1>4, <2>1, <2>3, <3>1 DEF Steady
    <3> QED  BY <2>0, <2>1, <2>2, <3>2, FollowedSteady
  <2>5. CASE In[f] = d
    <3>1. /\ Visited(f)'
          /\ f \in u'.rest <=> f \in disk'
          /\ f \in u'.old <=> f \in cached'
      BY <1>1, <1>2, <1>3, <1>4, <2>0, <2>5 DEF Visited
    <3>2. f \in changed' => f \in cached'
      BY <1>0, <1>1
    <3>3. NewComes(f)' /\ DeletionComes(f)' /\ ChangeComes(f)' /\ VisitTold(f)'
      BY <3>1, <3>2 DEF NewComes, DeletionComes, ChangeComes, VisitTold
    <3>4. LoadTold(f)'
      BY <1>1, <1>4, <2>0, <2>1 DEF Followed, LoadTold
    <3> QED  BY <2>1, <2>2, <3>3, <3>4 DEF Followed
  <2> QED  BY <2>4, <2>5
<1> QED  BY <1>5, <1>6, <1>7, <1>8, <1>9, <1>10, <1>11 DEF IInv

\* A scan that ends early is of a directory that is not shared.
LEMMA ScanAbortedStep ==
  ASSUME IInv, ScanAborted
  PROVE  IInv'
<1>0. /\ u \in Thread /\ u.pc = "visit" /\ u.batch = <<>>
      /\ u.dir \in Dirs
      /\ currentScanningEntry = None \/ toStop
  BY DEF IInv, Typed, Placed, ScanAborted
<1>1. /\ currentScanningEntry' = None
      /\ m' = WokenScan
      /\ u' = AfterScan(RootOf(u.dir))
      /\ UNCHANGED <<disk, events, cached, subs, missing, changed, failed, saved, lists,
                     roots, entriesToScan, hasher, toStopHashing, toStop, dirEvent>>
  BY DEF ScanAborted, disks, cache, stops
<1>2. RootOf(u.dir) \in Dirs /\ RootOf(u.dir) \in Roots
  BY <1>0, RootFacts DEF Roots
<1>3. /\ u' \in Thread /\ u'.loading = u.loading /\ u'.batch = <<>>
      /\ u'.pc = IF u.loading THEN "restore" ELSE "loop"
      /\ u.loading => u'.dir = RootOf(u.dir)
  BY <1>0, <1>1, <1>2, AfterScanFields
<1>4. /\ m' \in [pc : {"idle"} \cup RemovePCs \cup StopPCs, root : Roots \cup {None}]
      /\ m'.root = m.root
      /\ m'.pc \in RemovePCs <=> m.pc \in RemovePCs
      /\ m'.pc \in StopPCs <=> m.pc \in StopPCs
  BY <1>1, WokenScanFields
<1>5. Typed'
  BY <1>1, <1>3, <1>4 DEF IInv, Typed, lists, roots
<1>6. Placed'
  BY <1>1, <1>2, <1>3, <1>4 DEF IInv, Placed
<1>7. RootsSound'
  BY <1>0, <1>1, <1>3, <1>4, RootsFrame DEF IInv
<1>8. VisitSound' /\ DoneWith' /\ Asleep'
  BY <1>3 DEF VisitSound, DoneWith, Asleep
<1>9. ListsSound' /\ NotForgotten'
  BY <1>1, ListsFrame, ForgottenFrame DEF IInv, roots
<1>10. AllFollowed'
  <2> SUFFICES ASSUME ~toStop', NEW f \in Files, In[f] \in shared', Followed(f)
               PROVE  Steady(f) /\ EventsTrue(f)' /\ DoneTold(f)'
    BY <1>1, AllFollowedSteady DEF IInv, roots
  <2>1. EventsTrue(f)' /\ (Fresh(f) <=> Fresh(f)') /\ (Gone(f) <=> Gone(f)')
    BY <1>0, <1>1, <1>3, EventsFrame DEF Followed
  <2>2. RootOf(u.dir) \notin shared
    BY <1>0, <1>1 DEF IInv, VisitSound
  <2>3. u.dir # In[f]
    BY <1>1, <2>2, SharedIsRoot DEF IInv, roots
  <2>4. ~Visited(f) /\ ~Visited(f)' /\ (ToScan(f) => ToScan(f)') /\ DoneTold(f)'
    BY <1>0, <1>1, <1>3, <2>3 DEF Visited, ToScan, Contains, DoneTold
  <2>5. IsListed(f) => IsListed(f)'
    BY <1>1 DEF IsListed, Contains, lists
  <2>6. Steady(f)
    BY <1>1, <1>3, <2>1, <2>4, <2>5 DEF Steady
  <2> QED  BY <2>1, <2>4, <2>6
<1> QED  BY <1>5, <1>6, <1>7, <1>8, <1>9, <1>10 DEF IInv

LEMMA ScanSubDirStep ==
  ASSUME IInv, NEW d \in Dirs, ScanSubDir(d)
  PROVE  IInv'
<1>0. /\ u \in Thread /\ u.pc = "visit" /\ u.visit \in Seq(Dirs) /\ d \in u.rest
      /\ d \notin Roots /\ RootOf(d) = RootOf(u.dir) /\ u.dir \in Dirs
      /\ Dirs \cap Files = {}
  BY UpdaterAssumption DEF IInv, Typed, Placed, VisitSound, Thread, ScanSubDir, Scanning
<1>1. /\ subs' = subs \cup {d}
      /\ u' = [u EXCEPT !.rest = @ \ {d}, !.visit = Append(@, d)]
      /\ UNCHANGED <<disk, events, cached, missing, changed, failed, saved, lists, roots,
                     entriesToScan, currentScanningEntry, hasher, toStopHashing, toStop,
                     dirEvent, m>>
  BY DEF ScanSubDir, disks, scans, stops
<1>2. /\ Append(u.visit, d) \in Seq(Dirs)
      /\ \A x : Contains(Append(u.visit, d), x) <=> Contains(u.visit, x) \/ x = d
  BY <1>0, AppendFacts
<1>3. /\ u' \in Thread /\ u'.pc = "visit" /\ u'.loading = u.loading /\ u'.dir = u.dir
      /\ u'.batch = u.batch /\ u'.visit = Append(u.visit, d)
      /\ u'.rest = u.rest \ {d} /\ u'.old = u.old
  <2>1. u' \in Thread
    BY <1>0, <1>1, <1>2 DEF Thread
  <2> QED  BY <1>0, <1>1, <2>1 DEF Thread
<1>4. Typed'
  BY <1>0, <1>1, <1>3 DEF IInv, Typed, lists, roots
<1>5. Placed'
  BY <1>0, <1>1, <1>3 DEF IInv, Placed
<1>6. RootsSound'
  BY <1>0, <1>1, <1>3 DEF IInv, RootsSound, Known, roots
<1>7. VisitSound'
  <2>1. ASSUME NEW i \in DOMAIN u'.visit
        PROVE  u'.visit[i] \notin Roots /\ RootOf(u'.visit[i]) = RootOf(u.dir)
    <3>1. Contains(u.visit, u'.visit[i]) \/ u'.visit[i] = d
      BY <1>2, <1>3, <2>1 DEF Contains
    <3> QED  BY <1>0, <3>1 DEF IInv, VisitSound, Contains
  <2> QED  BY <1>0, <1>1, <1>3, <2>1 DEF IInv, VisitSound, roots
<1>8. DoneWith' /\ Asleep'
  BY <1>3 DEF DoneWith, Asleep
<1>9. ListsSound' /\ NotForgotten'
  BY <1>1, ListsFrame, ForgottenFrame DEF IInv, roots
<1>10. AllFollowed'
  <2> SUFFICES ASSUME NEW f \in Files, In[f] \in shared', Followed(f)
               PROVE  Steady(f) /\ EventsTrue(f)' /\ DoneTold(f)'
    BY <1>1, AllFollowedSteady DEF IInv, roots
  <2>1. EventsTrue(f)' /\ (Fresh(f) <=> Fresh(f)') /\ (Gone(f) <=> Gone(f)')
    BY <1>1, <1>3, EventsFrame DEF Followed
  <2>2. (Visited(f)' <=> Visited(f)) /\ (ToScan(f) => ToScan(f)') /\ DoneTold(f)'
    BY <1>0, <1>1, <1>3 DEF Visited, ToScan, Contains, DoneTold
  <2>3. (f \in u'.rest <=> f \in u.rest) /\ (f \in u'.old <=> f \in u.old)
    BY <1>0, <1>3
  <2>4. IsListed(f) => IsListed(f)'
    BY <1>1 DEF IsListed, Contains, lists
  <2>5. Steady(f)
    BY <1>1, <1>3, <2>1, <2>2, <2>3, <2>4 DEF Steady
  <2> QED  BY <2>1, <2>2, <2>5
<1> QED  BY <1>4, <1>5, <1>6, <1>7, <1>8, <1>9, <1>10 DEF IInv

LEMMA ScanFileStep ==
  ASSUME IInv, ~Dangling, NEW g \in Files, ScanFile(g)
  PROVE  IInv'
<1> DEFINE isNew == g \notin cached \/ (g \in changed /\ ~IsListed(g))
           toHash == IF isNew THEN NbChunks ELSE missing[g]
<1>0. /\ u \in Thread /\ u.pc = "visit" /\ g \in u.rest /\ In[g] = u.dir /\ u.dir \in Dirs
      /\ RootOf(u.dir) \in Known
      /\ cached \in SUBSET Files /\ changed \in SUBSET cached /\ failed \in SUBSET cached
      /\ saved \in SUBSET Files
      /\ missing \in [Files -> 0 .. NbChunks] /\ NbChunks \in Nat /\ NbChunks > 0
      /\ filesWithoutHashes \in Seq(Files)
      /\ \A f \in Files : IsListed(f) => f \in cached
      /\ Dirs \cap Files = {}
  <2>1. u.pc = "visit" /\ g \in u.rest
    BY DEF ScanFile, Scanning
  <2>2. /\ In[g] = u.dir /\ u.dir \in Dirs /\ RootOf(u.dir) \in Known
    BY <2>1 DEF IInv, Placed, VisitSound, RootsSound
  <2>3. NbChunks \in Nat /\ NbChunks > 0 /\ Dirs \cap Files = {}
    BY UpdaterAssumption
  <2> QED  BY <2>1, <2>2, <2>3 DEF IInv, Typed, ListsSound
<1>1. /\ cached' = cached \cup {g}
      /\ missing' = [missing EXCEPT ![g] = toHash]
      /\ changed' = IF isNew THEN changed \ {g} ELSE changed
      /\ saved' = IF g \in cached /\ isNew THEN saved \ {g} ELSE saved
      /\ failed' = IF IsListed(g) THEN failed ELSE failed \ {g}
      /\ filesWithoutHashes' = IF toHash > 0 /\ ~IsListed(g)
                               THEN Append(filesWithoutHashes, g)
                               ELSE filesWithoutHashes
      /\ u' = [u EXCEPT !.rest = @ \ {g}, !.old = @ \ {g}]
      /\ UNCHANGED <<disk, events, subs, filesWithoutHashesPrioritized, roots, entriesToScan,
                     currentScanningEntry, hasher, toStopHashing, toStop, dirEvent, m>>
  BY DEF ScanFile, disks, scans, stops
<1>2. toHash \in 0 .. NbChunks
  BY <1>0
<1>3. isNew => toHash > 0
  BY <1>0
<1>4. ~isNew => g \in cached /\ toHash = missing[g] /\ (g \in changed => IsListed(g))
  OBVIOUS
<1> HIDE DEF toHash, isNew
<1>5. /\ u' \in Thread /\ u'.pc = "visit" /\ u'.loading = u.loading /\ u'.dir = u.dir
      /\ u'.batch = u.batch /\ u'.visit = u.visit
      /\ u'.rest = u.rest \ {g} /\ u'.old = u.old \ {g}
  <2>1. u' \in Thread
    BY <1>0, <1>1 DEF Thread
  <2> QED  BY <1>0, <1>1, <2>1 DEF Thread
<1>6. /\ filesWithoutHashes' \in Seq(Files)
      /\ \A x : Contains(filesWithoutHashes', x) <=>
           Contains(filesWithoutHashes, x) \/ (x = g /\ toHash > 0 /\ ~IsListed(g))
      /\ NoRepeat(filesWithoutHashes) => NoRepeat(filesWithoutHashes')
  <2>1. CASE toHash > 0 /\ ~IsListed(g)
    <3>1. filesWithoutHashes' = Append(filesWithoutHashes, g)
      BY <1>1, <2>1
    <3>2. ~Contains(filesWithoutHashes, g)
      BY <2>1 DEF IsListed
    <3> QED  BY <1>0, <2>1, <3>1, <3>2, AppendFacts
  <2>2. CASE ~(toHash > 0 /\ ~IsListed(g))
    BY <1>0, <1>1, <2>2
  <2> QED  BY <2>1, <2>2
<1>7. \A f \in Files : IsListed(f)' <=> IsListed(f) \/ (f = g /\ toHash > 0)
  BY <1>1, <1>6 DEF IsListed
<1>8. missing'[g] = toHash /\ \A f \in Files : f # g => missing'[f] = missing[f]
  BY <1>0, <1>1
<1>9. Typed'
  <2>1. missing' \in [Files -> 0 .. NbChunks]
    BY <1>0, <1>1, <1>2
  <2>2. /\ cached' \in SUBSET Files /\ changed' \in SUBSET cached'
        /\ failed' \in SUBSET cached' /\ saved' \in SUBSET Files
    BY <1>0, <1>1
  <2> QED  BY <1>1, <1>5, <1>6, <2>1, <2>2 DEF IInv, Typed, roots
<1>10. Placed'
  BY <1>0, <1>1, <1>5 DEF IInv, Placed
<1>11. RootsSound'
  BY <1>0, <1>1, <1>5 DEF IInv, RootsSound, Known, roots
<1>12. VisitSound'
  <2>1. \A f \in u'.old : f \in cached' /\ In[f] = u'.dir
    BY <1>0, <1>1, <1>5 DEF IInv, VisitSound
  <2> QED  BY <1>0, <1>1, <1>5, <2>1 DEF IInv, VisitSound, roots
<1>13. DoneWith' /\ Asleep'
  BY <1>5 DEF DoneWith, Asleep
<1>14. ListsSound'
  <2>1. NoRepeat(filesWithoutHashes') /\ NoRepeat(filesWithoutHashesPrioritized')
    BY <1>1, <1>6 DEF IInv, ListsSound
  <2>2. ASSUME NEW f \in Files
        PROVE  ~(/\ Contains(filesWithoutHashes', f)
                 /\ Contains(filesWithoutHashesPrioritized', f))
    BY <1>1, <1>6 DEF IInv, ListsSound, IsListed
  <2>3. \A f \in Files : IsListed(f)' => f \in cached'
    BY <1>0, <1>1, <1>7
  <2> QED  BY <2>1, <2>2, <2>3 DEF ListsSound
<1>15. NotForgotten'
  <2> SUFFICES ASSUME NEW f \in cached', RootOf(In[f]) \in shared', missing'[f] > 0,
                      f \notin failed'
               PROVE  IsListed(f)'
    BY DEF NotForgotten
  <2>1. f \in Files
    BY <1>0, <1>1
  <2>2. CASE f = g
    BY <1>7, <1>8, <2>1, <2>2
  <2>3. CASE f # g
    <3>1. f \in cached /\ missing[f] > 0 /\ f \notin failed
      BY <1>1, <1>8, <2>1, <2>3
    <3> QED  BY <1>1, <1>7, <2>1, <3>1 DEF IInv, NotForgotten, roots
  <2> QED  BY <2>2, <2>3
<1>16. AllFollowed'
  <2> SUFFICES ASSUME ~toStop', NEW f \in Files, In[f] \in shared'
               PROVE  Followed(f)'
    BY DEF AllFollowed
  <2>0. Followed(f)
    BY <1>1 DEF IInv, AllFollowed, roots
  <2>1. EventsTrue(f)' /\ (Fresh(f) <=> Fresh(f)') /\ (Gone(f) <=> Gone(f)')
    BY <1>1, <1>5, <2>0, EventsFrame DEF Followed
  <2>2. (Visited(f)' <=> Visited(f)) /\ (ToScan(f) => ToScan(f)') /\ DoneTold(f)'
    BY <1>0, <1>1, <1>5 DEF Visited, ToScan, Contains, DoneTold
  <2>3. CASE f # g
    <3>1. Steady(f)
      BY <1>1, <1>5, <1>7, <2>1, <2>2, <2>3 DEF Steady
    <3> QED  BY <2>0, <2>1, <2>2, <3>1, FollowedSteady
  <2>4. CASE f = g
    <3>1. Visited(f) /\ f \in u.rest /\ f \notin u'.rest /\ f \notin u'.old /\ f \in cached'
      BY <1>0, <1>1, <1>5, <2>4 DEF Visited
    <3>2. NewComes(f)' /\ VisitTold(f)'
      BY <3>1 DEF NewComes, VisitTold
    <3>3. DeletionComes(f)'
      BY <1>1, <2>0, <2>1, <3>1 DEF DeletionComes, Followed, VisitTold
    <3>4. f \in changed' => f \in changed /\ IsListed(f)
      BY <1>1, <1>4, <2>4
    <3>5. ChangeComes(f)'
      BY <1>7, <3>4 DEF ChangeComes
    <3>6. LoadTold(f)'
      BY <1>5, <2>0, <2>1, <3>4 DEF Followed, LoadTold
    <3> QED  BY <2>1, <2>2, <3>2, <3>3, <3>5, <3>6 DEF Followed
  <2> QED  BY <2>3, <2>4
<1> QED  BY <1>9, <1>10, <1>11, <1>12, <1>13, <1>14, <1>15, <1>16 DEF IInv

\* The files that were not met are deleted and the scan goes on, or ends.
LEMMA ScanNextStep ==
  ASSUME IInv, ~Dangling, ScanNext
  PROVE  IInv'
<1>0. /\ u \in Thread /\ u.pc = "visit" /\ u.rest = {} /\ u.batch = <<>> /\ u.dir \in Dirs
      /\ u.visit \in Seq(Dirs) /\ u.old \in SUBSET cached
      /\ \A f \in u.old : In[f] = u.dir
      /\ RootOf(u.dir) \in Known
      /\ cached \in SUBSET Files /\ disk \in SUBSET Files
      /\ changed \in SUBSET cached /\ failed \in SUBSET cached
  BY DEF IInv, Typed, Placed, RootsSound, VisitSound, Thread, ScanNext
<1>1. /\ DeleteFiles(u.old)
      /\ UNCHANGED <<disk, events, subs, saved, shared, watched, entriesToRemove, deleted,
                     entriesToScan, hasher, toStopHashing, toStop, dirEvent>>
  BY DEF ScanNext, DeleteFiles, disks, roots, stops
<1>2. /\ cached' = cached \ u.old /\ changed' = changed \ u.old /\ failed' = failed \ u.old
      /\ missing' \in [Files -> 0 .. NbChunks]
      /\ filesWithoutHashes' \in Seq(Files)
      /\ filesWithoutHashesPrioritized' \in Seq(Files)
      /\ \A f \in Files : IsListed(f)' <=> IsListed(f) /\ f \notin u.old
      /\ ListsSound'
      /\ NotForgotten'
  BY <1>0, <1>1, DeleteFilesFacts
\* Where the updater goes.
<1>3. /\ u' \in Thread /\ u'.loading = u.loading /\ u'.batch = <<>>
      /\ u'.pc \in {"visit", "restore", "loop"}
      /\ u'.pc = "visit" =>
           /\ u'.dir \notin Roots /\ u'.dir \in Dirs /\ RootOf(u'.dir) = RootOf(u.dir)
           /\ currentScanningEntry' = currentScanningEntry
           /\ \A f \in u'.rest \cap Files : In[f] = u'.dir
           /\ \A e \in u'.rest \cap Dirs : e \notin Roots /\ RootOf(e) = RootOf(u'.dir)
           /\ \A i \in DOMAIN u'.visit :
                u'.visit[i] \notin Roots /\ RootOf(u'.visit[i]) = RootOf(u'.dir)
           /\ \A f \in u'.old : f \in cached' /\ In[f] = u'.dir
      /\ u'.pc = "restore" => u'.dir \in Dirs
      /\ u'.pc = "restore" => u.loading
      /\ u'.pc = "loop" => ~u.loading
      /\ currentScanningEntry' \in Dirs \cup {None}
      /\ m' \in [pc : {"idle"} \cup RemovePCs \cup StopPCs, root : Roots \cup {None}]
      /\ m'.root = m.root
      /\ m'.pc \in RemovePCs <=> m.pc \in RemovePCs
      /\ m'.pc \in StopPCs <=> m.pc \in StopPCs
  <2>1. CASE u.visit # <<>>
    <3> DEFINE d == Head(u.visit)
               rest == Listing(d)
               old == {f \in cached' : In[f] = d}
               visit == Tail(u.visit)
    <3>1. /\ d \in Dirs /\ visit \in Seq(Dirs)
          /\ \A x : Contains(u.visit, x) <=> x = d \/ Contains(visit, x)
      BY <1>0, <2>1, TailFacts
    <3>2. \A x : Contains(u.visit, x) => x \notin Roots /\ RootOf(x) = RootOf(u.dir)
      BY <1>0 DEF IInv, VisitSound, Contains
    <3>3. d \notin Roots /\ RootOf(d) = RootOf(u.dir)
      BY <3>1, <3>2
    <3>4. \A i \in DOMAIN visit : visit[i] \notin Roots /\ RootOf(visit[i]) = RootOf(d)
      <4> HIDE DEF d, visit
      <4> QED  BY <3>1, <3>2, <3>3 DEF Contains
    <3>5. /\ u' = VisitOf(d, visit, rest, old)
          /\ currentScanningEntry' = currentScanningEntry /\ m' = m
      BY <1>0, <2>1 DEF ScanNext, VisitOf
    <3> HIDE DEF d, visit
    <3>6. /\ rest \in SUBSET (Dirs \cup Files)
          /\ \A f \in rest \cap Files : In[f] = d
          /\ \A e \in rest \cap Dirs : e \notin Roots /\ RootOf(e) = RootOf(d)
      BY <1>0, <3>1, ListingFacts
    <3>7. old \in SUBSET Files /\ \A f \in old : f \in cached' /\ In[f] = d
      BY <1>0, <1>2
    <3> HIDE DEF rest, old
    <3>8. /\ u' \in Thread /\ u'.pc = "visit" /\ u'.loading = u.loading /\ u'.dir = d
          /\ u'.batch = <<>> /\ u'.visit = visit /\ u'.rest = rest /\ u'.old = old
      <4>1. PICK o : o = old
        OBVIOUS
      <4>2. o \in SUBSET Files /\ u' = VisitOf(d, visit, rest, o)
        BY <3>5, <3>7, <4>1
      <4>3. LET t == VisitOf(d, visit, rest, o) IN
            /\ t \in Thread
            /\ t.pc = "visit" /\ t.loading = u.loading /\ t.dir = d /\ t.batch = <<>>
            /\ t.visit = visit /\ t.rest = rest /\ t.old = o
        BY <1>0, <3>1, <3>6, <4>2, GoVisitFields
      <4> QED  BY <4>1, <4>2, <4>3
    <3>9. currentScanningEntry' \in Dirs \cup {None}
      BY <3>5 DEF IInv, Typed
    <3>10. /\ m' \in [pc : {"idle"} \cup RemovePCs \cup StopPCs, root : Roots \cup {None}]
           /\ m'.root = m.root
           /\ m'.pc \in RemovePCs <=> m.pc \in RemovePCs
           /\ m'.pc \in StopPCs <=> m.pc \in StopPCs
      BY <3>5 DEF IInv, Typed
    <3> QED  BY <3>1, <3>3, <3>4, <3>5, <3>6, <3>7, <3>8, <3>9, <3>10
  <2>2. CASE u.visit = <<>>
    <3>1. /\ currentScanningEntry' = None /\ m' = WokenScan
          /\ u' = AfterScan(RootOf(u.dir))
      BY <2>2 DEF ScanNext
    <3>2. RootOf(u.dir) \in Dirs
      BY <1>0, RootFacts DEF Roots
    <3>3. /\ u' \in Thread /\ u'.loading = u.loading /\ u'.batch = <<>>
          /\ u'.pc = IF u.loading THEN "restore" ELSE "loop"
          /\ u.loading => u'.dir = RootOf(u.dir)
      BY <1>0, <3>1, <3>2, AfterScanFields
    <3>4. /\ m' \in [pc : {"idle"} \cup RemovePCs \cup StopPCs, root : Roots \cup {None}]
          /\ m'.root = m.root
          /\ m'.pc \in RemovePCs <=> m.pc \in RemovePCs
          /\ m'.pc \in StopPCs <=> m.pc \in StopPCs
      BY <3>1, WokenScanFields
    <3> QED  BY <3>1, <3>2, <3>3, <3>4
  <2> QED  BY <2>1, <2>2
<1>4. Typed'
  BY <1>0, <1>1, <1>2, <1>3 DEF IInv, Typed
<1>5. Placed'
  BY <1>0, <1>1, <1>3 DEF IInv, Placed
<1>6. RootsSound'
  <2>1. Known' = Known /\ DOMAIN u'.batch = {}
    BY <1>1, <1>3, EmptySeq DEF Known
  <2>2. u'.pc \in {"scan", "visit"} => RootOf(u'.dir) \in Known
    BY <1>0, <1>3
  <2> QED  BY <1>1, <1>2, <1>3, <2>1, <2>2 DEF IInv, RootsSound
<1>7. VisitSound'
  <2>1. IF currentScanningEntry = None
        THEN toStop \/ RootOf(u.dir) \notin shared
        ELSE RootOf(currentScanningEntry) = RootOf(u.dir)
    BY <1>0 DEF IInv, VisitSound
  <2>2. u'.pc = "visit" =>
          IF currentScanningEntry' = None
          THEN toStop' \/ RootOf(u'.dir) \notin shared'
          ELSE RootOf(currentScanningEntry') = RootOf(u'.dir)
    BY <1>1, <1>3, <2>1
  <2> QED  BY <1>3, <2>2 DEF VisitSound
<1>8. DoneWith' /\ Asleep'
  BY <1>3 DEF DoneWith, Asleep
<1>9. AllFollowed'
  <2> SUFFICES ASSUME ~toStop', NEW f \in Files, In[f] \in shared'
               PROVE  Followed(f)'
    BY DEF AllFollowed
  <2>0. Followed(f) /\ In[f] \in Roots
    BY <1>1, SharedIsRoot DEF IInv, AllFollowed
  <2>1. EventsTrue(f)' /\ (Fresh(f) <=> Fresh(f)') /\ (Gone(f) <=> Gone(f)')
    BY <1>0, <1>1, <1>3, <2>0, EventsFrame DEF Followed
  <2>2. ~Visited(f)' /\ (ToScan(f) => ToScan(f)') /\ DoneTold(f)'
    BY <1>0, <1>1, <1>3, <2>0 DEF Visited, ToScan, Contains, DoneTold
  <2>3. CASE ~Visited(f)
    <3>1. f \notin u.old
      BY <1>0, <2>3 DEF Visited
    <3>2. Steady(f)
      BY <1>1, <1>2, <1>3, <2>1, <2>2, <2>3, <3>1 DEF Steady
    <3> QED  BY <2>0, <2>1, <2>2, <3>2, FollowedSteady
  <2>4. CASE Visited(f)
    <3>1. f \in u.old => f \notin cached' /\ f \notin changed' /\ (f \in disk => Fresh(f))
      BY <1>0, <1>2, <2>0, <2>4 DEF Followed, VisitTold
    <3>2. f \notin u.old =>
            /\ f \in cached' <=> f \in cached
            /\ f \in changed' <=> f \in changed
            /\ f \in failed' <=> f \in failed
            /\ IsListed(f)' <=> IsListed(f)
      BY <1>2
    <3>3. NewComes(f)'
      BY <1>0, <1>1, <2>0, <2>1, <2>2, <3>1, <3>2 DEF Followed, NewComes
    <3>4. DeletionComes(f)'
      BY <1>0, <1>1, <2>0, <2>1, <2>2, <3>1, <3>2 DEF Followed, DeletionComes
    <3>5. ChangeComes(f)'
      BY <1>0, <1>1, <2>0, <2>1, <2>2, <3>1, <3>2 DEF Followed, ChangeComes
    <3>6. VisitTold(f)' /\ LoadTold(f)'
      BY <1>3, <2>0, <2>1, <2>2, <3>1, <3>2 DEF Followed, VisitTold, LoadTold
    <3> QED  BY <2>1, <2>2, <3>3, <3>4, <3>5, <3>6 DEF Followed
  <2> QED  BY <2>3, <2>4
<1> QED  BY <1>2, <1>4, <1>5, <1>6, <1>7, <1>8, <1>9 DEF IInv

-----------------------------------------------------------------------------
(* The calls of the main thread.                                           *)

\* Of the updater and the cache nothing is changed by a call.
Aside == UNCHANGED <<disk, events, cached, subs, missing, changed, failed, saved, u>>

LEMMA AsideSteady ==
  ASSUME Aside, NEW f \in Files, Followed(f),
         IsListed(f) => IsListed(f)', ToScan(f) => ToScan(f)'
  PROVE  Followed(f)'
<1>1. EventsTrue(f)' /\ (Fresh(f) <=> Fresh(f)') /\ (Gone(f) <=> Gone(f)')
  BY EventsFrame DEF Followed, Aside
<1>2. DoneTold(f)'
  BY <1>1 DEF Aside, Followed, DoneTold
<1>3. Visited(f)' <=> Visited(f)
  BY DEF Aside, Visited
<1>4. Steady(f)
  BY <1>1, <1>3 DEF Steady, Aside
<1> QED  BY <1>1, <1>2, <1>4, FollowedSteady

\* The shared directories and the list of the scans are left alone.
LEMMA RootsAside ==
  ASSUME IInv, Aside, UNCHANGED <<shared, watched, deleted, entriesToRemove>>,
         m'.root = m.root,
         \A d : Contains(entriesToScan', d) => Contains(entriesToScan, d)
  PROVE  RootsSound'
<1>1. \A d : Contains(entriesToScan, d) => RootOf(d) \in Known
  BY DEF IInv, RootsSound, Contains
<1>2. \A i \in DOMAIN entriesToScan' : RootOf(entriesToScan'[i]) \in Known
  BY <1>1 DEF Contains
<1> QED  BY <1>2 DEF IInv, RootsSound, Known, Aside

\* A call that goes on without the lists nor the scans.
CallGoes ==
  /\ Aside
  /\ UNCHANGED <<lists, roots, scans, toStopHashing>>
  /\ hasher' \in [hashing : BOOLEAN, stop : BOOLEAN]
  /\ dirEvent' \in {dirEvent, Released}
  /\ m' \in [pc : {"idle"} \cup RemovePCs \cup StopPCs, root : Roots \cup {None}]
  /\ m'.root = m.root
  /\ m'.pc \in RemovePCs <=> m.pc \in RemovePCs
  /\ toStop' = (m'.pc \in StopPCs)
  /\ toStop => toStop'

LEMMA CallGoesStep ==
  ASSUME IInv, CallGoes
  PROVE  IInv'
<1>1. Typed'
  <2>1. dirEvent' \in [flag : BOOLEAN, pipe : BOOLEAN]
    <3>1. Released \in [flag : BOOLEAN, pipe : BOOLEAN]
      BY DEF Released
    <3> QED  BY <3>1 DEF IInv, Typed, CallGoes
  <2>2. toStop' \in BOOLEAN
    BY DEF CallGoes
  <2> QED  BY <2>1, <2>2 DEF IInv, Typed, CallGoes, Aside, lists, roots, scans
<1>2. Placed'
  BY DEF IInv, Placed, CallGoes, Aside
<1>3. RootsSound'
  BY RootsAside DEF CallGoes, roots, scans, Contains
<1>4. VisitSound'
  BY DEF IInv, VisitSound, CallGoes, Aside, roots, scans
<1>5. ListsSound' /\ NotForgotten'
  BY ListsFrame, ForgottenFrame DEF IInv, CallGoes, Aside, roots
<1>6. DoneWith'
  BY DEF IInv, DoneWith, CallGoes, Aside
<1>7. AllFollowed'
  <2> SUFFICES ASSUME ~toStop', NEW f \in Files, In[f] \in shared'
               PROVE  Followed(f)'
    BY DEF AllFollowed
  <2>1. Followed(f)
    BY DEF IInv, AllFollowed, CallGoes, roots
  <2>2. (IsListed(f) => IsListed(f)') /\ (ToScan(f) => ToScan(f)')
    BY DEF IsListed, ToScan, Contains, CallGoes, Aside, lists, scans
  <2> QED  BY <2>1, <2>2, AsideSteady DEF CallGoes
<1>8. Asleep'
  BY DEF IInv, Asleep, CallGoes, Aside, Released, IsListed, Contains, lists, roots, scans
<1> QED  BY <1>1, <1>2, <1>3, <1>4, <1>5, <1>6, <1>7, <1>8 DEF IInv

LEMMA CallGoesOnSteps ==
  ASSUME IInv, RmRootStopsHashing \/ Stop \/ StopReleases \/ Join
  PROVE  IInv'
<1>0. /\ m \in [pc : {"idle"} \cup RemovePCs \cup StopPCs, root : Roots \cup {None}]
      /\ m.pc \in RemovePCs <=> m.root # None
      /\ toStop <=> m.pc \in StopPCs
      /\ toStop \in BOOLEAN
      /\ hasher \in [hashing : BOOLEAN, stop : BOOLEAN]
  BY DEF IInv, Typed, Placed
<1>1. CASE RmRootStopsHashing
  <2>1. /\ m.pc = "rmHash"
        /\ m' = Call(IF hasher.hashing THEN "rmWait" ELSE "rmFilter", m.root)
        /\ hasher' = [hasher EXCEPT !.stop = TRUE]
    BY <1>1 DEF RmRootStopsHashing
  <2>2. /\ m' \in [pc : {"idle"} \cup RemovePCs \cup StopPCs, root : Roots \cup {None}]
        /\ m'.root = m.root /\ m'.pc \in RemovePCs /\ m.pc \in RemovePCs
        /\ m'.pc \notin StopPCs /\ m.pc \notin StopPCs
    BY <1>0, <2>1 DEF Call, RemovePCs, StopPCs
  <2>3. hasher' \in [hashing : BOOLEAN, stop : BOOLEAN]
    BY <1>0, <2>1
  <2>4. CallGoes
    BY <1>0, <1>1, <2>2, <2>3 DEF RmRootStopsHashing, CallGoes, Aside, disks, cache
  <2> QED  BY <2>4, CallGoesStep
<1>2. CASE Stop
  <2>1. /\ m = Idle
        /\ m' = Call(IF hasher.hashing THEN "stopWait" ELSE "stopHashed", None)
        /\ hasher' = [hasher EXCEPT !.stop = TRUE] /\ toStop' = TRUE
    BY <1>2 DEF Stop
  <2>2. /\ m' \in [pc : {"idle"} \cup RemovePCs \cup StopPCs, root : Roots \cup {None}]
        /\ m'.root = m.root /\ m'.pc \notin RemovePCs /\ m.pc \notin RemovePCs
        /\ m'.pc \in StopPCs
    BY <2>1 DEF Call, Idle, RemovePCs, StopPCs
  <2>3. hasher' \in [hashing : BOOLEAN, stop : BOOLEAN]
    BY <1>0, <2>1
  <2>4. CallGoes
    BY <1>0, <1>2, <2>1, <2>2, <2>3 DEF Stop, CallGoes, Aside, disks, cache
  <2> QED  BY <2>4, CallGoesStep
<1>3. CASE StopReleases
  <2>1. m.pc = "release" /\ m' = Call("join", None) /\ dirEvent' = Released
    BY <1>3 DEF StopReleases
  <2>2. /\ m' \in [pc : {"idle"} \cup RemovePCs \cup StopPCs, root : Roots \cup {None}]
        /\ m'.root = m.root /\ m'.pc \notin RemovePCs /\ m.pc \notin RemovePCs
        /\ m'.pc \in StopPCs /\ m.pc \in StopPCs
    BY <1>0, <2>1 DEF Call, RemovePCs, StopPCs
  <2>3. CallGoes
    BY <1>0, <1>3, <2>1, <2>2 DEF StopReleases, CallGoes, Aside, disks, cache, stops
  <2> QED  BY <2>3, CallGoesStep
<1>4. CASE Join
  <2>1. m.pc = "join" /\ m' = Call("stopped", None)
    BY <1>4 DEF Join
  <2>2. /\ m' \in [pc : {"idle"} \cup RemovePCs \cup StopPCs, root : Roots \cup {None}]
        /\ m'.root = m.root /\ m'.pc \notin RemovePCs /\ m.pc \notin RemovePCs
        /\ m'.pc \in StopPCs /\ m.pc \in StopPCs
    BY <1>0, <2>1 DEF Call, RemovePCs, StopPCs
  <2>3. CallGoes
    BY <1>0, <1>4, <2>2 DEF Join, CallGoes, Aside, disks, cache, stops
  <2> QED  BY <2>3, CallGoesStep
<1> QED  BY <1>1, <1>2, <1>3, <1>4

\* A directory that was never shared has nothing in the cache nor on its way.
LEMMA AddRootStep ==
  ASSUME IInv, NEW r \in Roots, AddRoot(r)
  PROVE  IInv'
<1>0. /\ m = Idle /\ m.root = None /\ r \in Dirs /\ r # None /\ RootOf(r) = r
      /\ r \notin Known
      /\ shared \in SUBSET Roots /\ watched \in SUBSET Roots
      /\ entriesToScan \in Seq(Dirs)
      /\ cached \in SUBSET Files /\ changed \in SUBSET cached
  <2>1. m = Idle /\ r \notin shared \cup entriesToRemove \cup deleted
    BY DEF AddRoot, NewCall
  <2>2. r \in Dirs /\ r # None /\ RootOf(r) = r
    BY UpdaterAssumption DEF Roots, RootOf
  <2>3. m.root = None
    BY <2>1 DEF Idle, Call
  <2> QED  BY <2>1, <2>2, <2>3 DEF Known, IInv, Typed
<1>1. /\ Aside
      /\ shared' = shared \cup {r} /\ watched' = watched \cup {r}
      /\ entriesToScan' = Append(entriesToScan, r)
      /\ dirEvent' = Released
      /\ UNCHANGED <<lists, entriesToRemove, deleted, currentScanningEntry, hasher,
                     toStopHashing, toStop, m>>
  BY DEF AddRoot, Aside, disks, cache, stops
<1>2. /\ entriesToScan' \in Seq(Dirs)
      /\ \A x : Contains(entriesToScan', x) <=> Contains(entriesToScan, x) \/ x = r
  BY <1>0, <1>1, AppendFacts
<1>3. Typed'
  <2>1. Released \in [flag : BOOLEAN, pipe : BOOLEAN]
    BY DEF Released
  <2> QED  BY <1>0, <1>1, <1>2, <2>1 DEF IInv, Typed, Aside, lists
<1>4. Placed'
  BY <1>1 DEF IInv, Placed, Aside
<1>5. RootsSound'
  <2>1. Known' = Known \cup {r}
    BY <1>1 DEF Known
  <2>2. \A x : Contains(entriesToScan, x) => RootOf(x) \in Known
    BY DEF IInv, RootsSound, Contains
  <2>3. \A i \in DOMAIN entriesToScan' : RootOf(entriesToScan'[i]) \in Known'
    BY <1>0, <1>2, <2>1, <2>2 DEF Contains
  <2>4. shared' \cap (entriesToRemove' \cup deleted' \cup {m'.root}) = {}
    BY <1>0, <1>1 DEF IInv, RootsSound, Known
  <2>5. shared' \subseteq watched' /\ watched' \subseteq Known'
    BY <1>1, <2>1 DEF IInv, RootsSound
  <2> QED  BY <1>1, <2>1, <2>3, <2>4, <2>5 DEF IInv, RootsSound, Aside
<1>6. VisitSound'
  <2>1. u.pc = "visit" => RootOf(u.dir) # r
    BY <1>0 DEF IInv, RootsSound
  <2> QED  BY <1>1, <2>1 DEF IInv, VisitSound, Aside
<1>7. ListsSound'
  BY <1>1, ListsFrame DEF IInv, Aside
<1>8. DoneWith'
  BY <1>1 DEF IInv, DoneWith, Aside
<1>9. \A f \in cached : RootOf(In[f]) # r
  BY <1>0 DEF IInv, RootsSound
<1>10. NotForgotten'
  <2> SUFFICES ASSUME NEW f \in cached', RootOf(In[f]) \in shared', missing'[f] > 0,
                      f \notin failed'
               PROVE  IsListed(f)'
    BY DEF NotForgotten
  <2>1. IsListed(f)
    BY <1>1, <1>9 DEF IInv, NotForgotten, Aside
  <2> QED  BY <1>1, <2>1 DEF IsListed, Contains, lists
<1>11. AllFollowed'
  <2> SUFFICES ASSUME ~toStop', NEW f \in Files, In[f] \in shared'
               PROVE  Followed(f)'
    BY DEF AllFollowed
  <2>1. CASE In[f] # r
    <3>1. Followed(f)
      BY <1>1, <2>1 DEF IInv, AllFollowed
    <3>2. (IsListed(f) => IsListed(f)') /\ (ToScan(f) => ToScan(f)')
      BY <1>1, <1>2 DEF IsListed, ToScan, Contains, Aside, lists
    <3> QED  BY <1>1, <3>1, <3>2, AsideSteady
  <2>2. CASE In[f] = r
    <3>1. /\ RootOf(In[f]) \notin Known
          /\ ToScan(f)'
      BY <1>0, <1>2, <2>2 DEF ToScan
    <3>2. f \notin cached /\ f \notin changed
      BY <1>0, <3>1 DEF IInv, RootsSound
    <3>3. Silent(events, f) /\ Silent(u.batch, f) /\ ~Visited(f)
      BY <3>1 DEF IInv, RootsSound, Silent, Visited
    <3>4. EventsTrue(f)'
      BY <1>1, <3>3 DEF EventsTrue, LastSays, Silent, Aside
    <3>5. NewComes(f)' /\ DeletionComes(f)' /\ ChangeComes(f)'
      BY <3>1 DEF NewComes, DeletionComes, ChangeComes
    <3>6. VisitTold(f)' /\ LoadTold(f)' /\ DoneTold(f)'
      BY <1>1, <3>2, <3>3 DEF VisitTold, LoadTold, DoneTold, Visited, Aside
    <3> QED  BY <3>4, <3>5, <3>6 DEF Followed
  <2> QED  BY <2>1, <2>2
<1>12. Asleep'
  BY <1>1 DEF Asleep, Released
<1> QED  BY <1>3, <1>4, <1>5, <1>6, <1>7, <1>8, <1>10, <1>11, <1>12 DEF IInv

\* An order of a set of directories is a list of them.
LEMMA OrdersFacts ==
  ASSUME NEW S \in SUBSET Roots, NEW order \in Orders(S)
  PROVE  order \in Seq(Dirs) /\ \A x : Contains(order, x) => x \in S
<1>1. S \subseteq Dirs /\ IsFiniteSet(S)
  BY UpdaterAssumption, FS_Subset DEF Roots
<1>2. Cardinality(S) \in Nat
  BY <1>1, FS_CardinalityType
<1>3. order \in [1 .. Cardinality(S) -> S]
  BY DEF Orders
<1>4. order \in Seq(Dirs)
  <2>1. order \in [1 .. Cardinality(S) -> Dirs]
    BY <1>1, <1>3
  <2> QED  BY <1>2, <2>1
<1> QED  BY <1>3, <1>4 DEF Contains

LEMMA ScanRootsStep ==
  ASSUME IInv, ScanRoots
  PROVE  IInv'
<1>0. entriesToScan \in Seq(Dirs) /\ shared \in SUBSET Roots
  BY DEF IInv, Typed
<1> DEFINE S == {r \in shared : ~Contains(entriesToScan, r)}
<1>1. PICK order \in Orders(S) : entriesToScan' = entriesToScan \o order
  BY DEF ScanRoots
<1>2. /\ Aside
      /\ dirEvent' = Released
      /\ UNCHANGED <<lists, shared, watched, entriesToRemove, deleted, roots,
                     currentScanningEntry, hasher, toStopHashing, toStop, m>>
  BY DEF ScanRoots, Aside, disks, cache, stops, roots
<1>3. order \in Seq(Dirs) /\ \A x : Contains(order, x) => x \in shared
  <2>1. S \in SUBSET Roots /\ S \subseteq shared
    BY <1>0
  <2> HIDE DEF S
  <2> QED  BY <1>1, <2>1, OrdersFacts
<1>4. /\ entriesToScan' \in Seq(Dirs)
      /\ \A x : Contains(entriesToScan', x) <=> Contains(entriesToScan, x) \/ Contains(order, x)
  BY <1>0, <1>1, <1>3, ConcatFacts
<1>5. Typed'
  <2>1. Released \in [flag : BOOLEAN, pipe : BOOLEAN]
    BY DEF Released
  <2> QED  BY <1>2, <1>4, <2>1 DEF IInv, Typed, Aside, lists
<1>6. Placed'
  BY <1>2 DEF IInv, Placed, Aside
<1>7. RootsSound'
  <2>1. \A x : Contains(entriesToScan, x) => RootOf(x) \in Known
    BY DEF IInv, RootsSound, Contains
  <2>2. \A x \in shared : RootOf(x) \in Known
    BY <1>0 DEF RootOf, Known
  <2>3. \A i \in DOMAIN entriesToScan' : RootOf(entriesToScan'[i]) \in Known
    BY <1>3, <1>4, <2>1, <2>2 DEF Contains
  <2> QED  BY <1>2, <2>3 DEF IInv, RootsSound, Known, Aside
<1>8. VisitSound'
  BY <1>2 DEF IInv, VisitSound, Aside
<1>9. ListsSound' /\ NotForgotten'
  BY <1>2, ListsFrame, ForgottenFrame DEF IInv, Aside
<1>10. DoneWith'
  BY <1>2 DEF IInv, DoneWith, Aside
<1>11. AllFollowed'
  <2> SUFFICES ASSUME ~toStop', NEW f \in Files, In[f] \in shared'
               PROVE  Followed(f)'
    BY DEF AllFollowed
  <2>1. Followed(f)
    BY <1>2 DEF IInv, AllFollowed
  <2>2. (IsListed(f) => IsListed(f)') /\ (ToScan(f) => ToScan(f)')
    BY <1>2, <1>4 DEF IsListed, ToScan, Contains, Aside, lists
  <2> QED  BY <1>2, <2>1, <2>2, AsideSteady
<1>12. Asleep'
  BY <1>2 DEF Asleep, Released
<1> QED  BY <1>5, <1>6, <1>7, <1>8, <1>9, <1>10, <1>11, <1>12 DEF IInv

\* A file that is put first changes of list.
LEMMA PrioritizeStep ==
  ASSUME IInv, ~Dangling, NEW g \in Files, PrioritizeAFileToHash(g)
  PROVE  IInv'
<1>0. /\ g \in cached /\ RootOf(In[g]) \in shared /\ missing[g] > 0
      /\ filesWithoutHashes \in Seq(Files) /\ filesWithoutHashesPrioritized \in Seq(Files)
  BY DEF IInv, Typed, PrioritizeAFileToHash
<1>1. /\ Aside
      /\ filesWithoutHashes' = Without(filesWithoutHashes, {g})
      /\ filesWithoutHashesPrioritized' =
           IF Contains(filesWithoutHashesPrioritized, g)
           THEN filesWithoutHashesPrioritized
           ELSE Append(filesWithoutHashesPrioritized, g)
      /\ toStopHashing' = TRUE
      /\ UNCHANGED <<shared, watched, entriesToRemove, deleted, entriesToScan,
                     currentScanningEntry, hasher, toStop, dirEvent, m>>
  BY DEF PrioritizeAFileToHash, Aside, disks, cache, roots, scans
<1>2. /\ filesWithoutHashes' \in Seq(Files)
      /\ \A x : Contains(filesWithoutHashes', x) <=>
           Contains(filesWithoutHashes, x) /\ x \notin {g}
      /\ NoRepeat(filesWithoutHashes) => NoRepeat(filesWithoutHashes')
  BY <1>0, <1>1, WithoutFacts
<1>3. /\ filesWithoutHashesPrioritized' \in Seq(Files)
      /\ \A x : Contains(filesWithoutHashesPrioritized', x) <=>
           Contains(filesWithoutHashesPrioritized, x) \/ x = g
      /\ NoRepeat(filesWithoutHashesPrioritized) => NoRepeat(filesWithoutHashesPrioritized')
  <2>1. CASE Contains(filesWithoutHashesPrioritized, g)
    BY <1>0, <1>1, <2>1
  <2>2. CASE ~Contains(filesWithoutHashesPrioritized, g)
    <3>1. filesWithoutHashesPrioritized' = Append(filesWithoutHashesPrioritized, g)
      BY <1>1, <2>2
    <3> QED  BY <1>0, <2>2, <3>1, AppendFacts
  <2> QED  BY <2>1, <2>2
<1>4. \A f \in Files : IsListed(f)' <=> IsListed(f) \/ f = g
  BY <1>2, <1>3 DEF IsListed
<1>5. Typed'
  BY <1>1, <1>2, <1>3 DEF IInv, Typed, Aside
<1>6. Placed'
  BY <1>1 DEF IInv, Placed, Aside
<1>7. RootsSound'
  BY <1>1 DEF IInv, RootsSound, Known, Aside
<1>8. VisitSound' /\ DoneWith'
  BY <1>1 DEF IInv, VisitSound, DoneWith, Aside
<1>9. ListsSound'
  <2>1. NoRepeat(filesWithoutHashes') /\ NoRepeat(filesWithoutHashesPrioritized')
    BY <1>2, <1>3 DEF IInv, ListsSound
  <2>2. ASSUME NEW f \in Files
        PROVE  ~(/\ Contains(filesWithoutHashes', f)
                 /\ Contains(filesWithoutHashesPrioritized', f))
    BY <1>2, <1>3 DEF IInv, ListsSound
  <2>3. ASSUME NEW f \in Files, IsListed(f)' PROVE f \in cached'
    BY <1>0, <1>1, <1>4, <2>3 DEF IInv, ListsSound, Aside
  <2> QED  BY <2>1, <2>2, <2>3 DEF ListsSound
<1>10. NotForgotten'
  <2> SUFFICES ASSUME NEW f \in cached', RootOf(In[f]) \in shared', missing'[f] > 0,
                      f \notin failed'
               PROVE  IsListed(f)'
    BY DEF NotForgotten
  <2>1. f \in Files /\ IsListed(f)
    BY <1>1 DEF IInv, Typed, NotForgotten, Aside
  <2> QED  BY <1>4, <2>1
<1>11. AllFollowed'
  <2> SUFFICES ASSUME ~toStop', NEW f \in Files, In[f] \in shared'
               PROVE  Followed(f)'
    BY DEF AllFollowed
  <2>1. Followed(f)
    BY <1>1 DEF IInv, AllFollowed
  <2>2. (IsListed(f) => IsListed(f)') /\ (ToScan(f) => ToScan(f)')
    BY <1>1, <1>4 DEF ToScan, Contains, Aside
  <2> QED  BY <1>1, <2>1, <2>2, AsideSteady
<1>12. Asleep'
  <2>1. ASSUME u.pc = "waitEvent", ~dirEvent.pipe
        PROVE  entriesToScan = <<>> /\ \A f \in Files : IsListed(f)' => f \in failed
    <3>1. entriesToScan = <<>> /\ \A f \in Files : IsListed(f) => f \in failed
      BY <2>1 DEF IInv, Asleep
    <3>2. g \in failed
      BY <1>0, <3>1 DEF IInv, NotForgotten
    <3> QED  BY <1>4, <3>1, <3>2
  <2> QED  BY <1>1, <2>1 DEF IInv, Asleep, Aside
<1> QED  BY <1>5, <1>6, <1>7, <1>8, <1>9, <1>10, <1>11, <1>12 DEF IInv

\* A list that holds nothing is empty.
LEMMA NothingContained ==
  ASSUME NEW T, NEW list \in Seq(T), \A x : ~Contains(list, x)
  PROVE  list = <<>>
BY TailFacts

LEMMA KnownFacts ==
  ASSUME IInv
  PROVE  /\ None \notin Roots
         /\ \A f \in cached : RootOf(In[f]) \in Known \ {None}
         /\ \A d : Contains(entriesToScan, d) => RootOf(d) \in Known \ {None}
         /\ u.pc \in {"scan", "visit"} => RootOf(u.dir) \in Known \ {None}
         /\ \A i \in DOMAIN events : RootOf(In[events[i].file]) \in Known \ {None}
         /\ \A i \in DOMAIN u.batch : RootOf(In[u.batch[i].file]) \in Known \ {None}
<1>0. /\ None \notin Roots
      /\ \A f \in Files : RootOf(In[f]) # None
      /\ \A d \in Dirs : RootOf(d) # None
  <2>1. None \notin Roots
    BY UpdaterAssumption DEF Roots
  <2>2. \A d \in Dirs : RootOf(d) # None
    BY <2>1, RootFacts
  <2> QED  BY <2>1, <2>2, UpdaterAssumption
<1>1. /\ cached \in SUBSET Files /\ entriesToScan \in Seq(Dirs)
      /\ events \in Seq(Event) /\ u.batch \in Seq(Event)
  BY DEF IInv, Typed, Thread
<1>2. /\ \A i \in DOMAIN events : events[i].file \in Files
      /\ \A i \in DOMAIN u.batch : u.batch[i].file \in Files
  <2>1. \A list \in Seq(Event) : \A i \in DOMAIN list : list[i].file \in Files
    <3> SUFFICES ASSUME NEW list \in Seq(Event), NEW i \in DOMAIN list
                 PROVE  list[i].file \in Files
      OBVIOUS
    <3>1. list[i] \in Event
      BY LenProperties
    <3> QED  BY <3>1 DEF Event
  <2> QED  BY <1>1, <2>1
<1>3. \A d : Contains(entriesToScan, d) => d \in Dirs /\ RootOf(d) \in Known
  <2>1. \A d : Contains(entriesToScan, d) => d \in Dirs
    BY <1>1, ContainsTyped
  <2> QED  BY <2>1 DEF IInv, RootsSound, Contains
<1>4. u.pc \in {"scan", "visit"} => u.dir \in Dirs
  BY DEF IInv, Placed
<1> QED  BY <1>0, <1>1, <1>2, <1>3, <1>4 DEF IInv, RootsSound

\* The roots that are known are those of before.
LEMMA RootsKept ==
  ASSUME IInv, Aside, Known \ {None} \subseteq Known', UNCHANGED watched,
         shared' \subseteq shared,
         shared' \cap (entriesToRemove' \cup deleted' \cup {m'.root}) = {},
         \A d : Contains(entriesToScan', d) => Contains(entriesToScan, d)
  PROVE  RootsSound'
<1>1. shared' \subseteq watched' /\ watched' \subseteq Known'
  <2>1. watched \subseteq Roots
    BY DEF IInv, Typed
  <2> QED  BY <2>1, KnownFacts DEF IInv, RootsSound
<1>2. \A i \in DOMAIN entriesToScan' : RootOf(entriesToScan'[i]) \in Known'
  <2>1. \A d : Contains(entriesToScan', d) => RootOf(d) \in Known'
    BY KnownFacts
  <2> QED  BY <2>1 DEF Contains
<1>3. /\ \A f \in cached : RootOf(In[f]) \in Known'
      /\ u.pc \in {"scan", "visit"} => RootOf(u.dir) \in Known'
      /\ \A i \in DOMAIN events : RootOf(In[events[i].file]) \in Known'
      /\ \A i \in DOMAIN u.batch : RootOf(In[u.batch[i].file]) \in Known'
  BY KnownFacts
<1> QED  BY <1>1, <1>2, <1>3 DEF RootsSound, Aside

\* A directory that is unshared: its scan is told to stop, or leaves the list.
LEMMA RmRootStep ==
  ASSUME IInv, NEW r \in Roots, RmRoot(r)
  PROVE  IInv'
<1>0. /\ m = Idle /\ m.root = None /\ r \in Dirs /\ r # None /\ RootOf(r) = r
      /\ r \in shared /\ shared \in SUBSET Roots
      /\ entriesToScan \in Seq(Dirs)
      /\ ~toStop
  <2>1. m = Idle /\ r \in shared
    BY DEF RmRoot, NewCall
  <2>2. r \in Dirs /\ r # None /\ RootOf(r) = r
    BY UpdaterAssumption DEF Roots, RootOf
  <2>3. m.root = None /\ m.pc = "idle"
    BY <2>1 DEF Idle, Call
  <2> QED  BY <2>1, <2>2, <2>3 DEF IInv, Typed, Placed, StopPCs
<1>1. /\ Aside
      /\ shared' = shared \ {r}
      /\ UNCHANGED <<lists, watched, entriesToRemove, deleted, hasher,
                     toStopHashing, toStop, dirEvent>>
  BY DEF RmRoot, Aside, disks, cache, stops
<1>2. /\ m'.pc \in {"rmScan", "rmHash"} /\ m'.root = r
      /\ m' \in [pc : {"idle"} \cup RemovePCs \cup StopPCs, root : Roots \cup {None}]
  BY DEF RmRoot, Call, RemovePCs
<1>3. \/ /\ currentScanningEntry = r /\ currentScanningEntry' = None
         /\ entriesToScan' = entriesToScan
      \/ /\ currentScanningEntry' = currentScanningEntry
         /\ entriesToScan' = Without(entriesToScan, {r})
  BY DEF RmRoot
<1>4. /\ entriesToScan' \in Seq(Dirs)
      /\ \A x : Contains(entriesToScan', x) => Contains(entriesToScan, x)
      /\ \A x : Contains(entriesToScan, x) /\ x # r => Contains(entriesToScan', x)
  BY <1>0, <1>3, WithoutFacts
<1>5. Typed'
  BY <1>1, <1>2, <1>3, <1>4 DEF IInv, Typed, Aside, lists
<1>6. Placed'
  BY <1>0, <1>1, <1>2 DEF IInv, Placed, Aside, RemovePCs, StopPCs
<1>7. RootsSound'
  <2>1. Known \ {None} \subseteq Known'
    BY <1>0, <1>1, <1>2 DEF Known
  <2>2. shared' \cap (entriesToRemove' \cup deleted' \cup {m'.root}) = {}
    BY <1>1, <1>2 DEF IInv, RootsSound
  <2> QED  BY <1>1, <1>4, <2>1, <2>2, RootsKept
<1>8. VisitSound'
  BY <1>0, <1>1, <1>3 DEF IInv, VisitSound, Aside
<1>9. ListsSound' /\ NotForgotten'
  BY <1>1, ListsFrame, ForgottenFrame DEF IInv, Aside
<1>10. DoneWith'
  BY <1>1 DEF IInv, DoneWith, Aside
<1>11. AllFollowed'
  <2> SUFFICES ASSUME ~toStop', NEW f \in Files, In[f] \in shared'
               PROVE  Followed(f)'
    BY DEF AllFollowed
  <2>1. Followed(f) /\ In[f] # r
    BY <1>1 DEF IInv, AllFollowed
  <2>2. (IsListed(f) => IsListed(f)') /\ (ToScan(f) => ToScan(f)')
    BY <1>1, <1>4, <2>1 DEF IsListed, ToScan, Contains, Aside, lists
  <2> QED  BY <1>1, <2>1, <2>2, AsideSteady
<1>12. Asleep'
  <2>1. shared = {} => shared' = {}
    BY <1>1
  <2>2. entriesToScan = <<>> => entriesToScan' = <<>>
    BY <1>4, EmptyFacts, NothingContained
  <2>3. \A f \in Files : IsListed(f)' <=> IsListed(f)
    BY <1>1 DEF IsListed, lists
  <2> QED  BY <1>1, <2>1, <2>2, <2>3 DEF IInv, Asleep, Aside
<1> QED  BY <1>5, <1>6, <1>7, <1>8, <1>9, <1>10, <1>11, <1>12 DEF IInv

\* What the lists lose then is of the directory that is unshared.
LEMMA RmRootFiltersStep ==
  ASSUME IInv, ~Dangling, RmRootFilters
  PROVE  IInv'
<1> DEFINE r == m.root
<1>0. /\ m.pc = "rmFilter" /\ r \in Roots /\ r # None /\ r \notin shared
      /\ entriesToScan \in Seq(Dirs) /\ entriesToRemove \in SUBSET Roots
      /\ filesWithoutHashes \in Seq(Files) /\ filesWithoutHashesPrioritized \in Seq(Files)
      /\ ~toStop /\ shared \in SUBSET Roots
  <2>1. m.pc = "rmFilter"
    BY DEF RmRootFilters
  <2> QED  BY <2>1 DEF IInv, Typed, Placed, RootsSound, RemovePCs, StopPCs
<1> DEFINE F == FilesUnder(r)
           D == DirsUnder(r)
<1>1. /\ Aside
      /\ filesWithoutHashes' = Without(filesWithoutHashes, F)
      /\ filesWithoutHashesPrioritized' = Without(filesWithoutHashesPrioritized, F)
      /\ entriesToScan' = Without(entriesToScan, D)
      /\ entriesToRemove' = entriesToRemove \cup {r}
      /\ toStopHashing' = TRUE /\ dirEvent' = Released
      /\ m' = Idle /\ m'.pc = "idle" /\ m'.root = None
      /\ UNCHANGED <<shared, watched, deleted, currentScanningEntry, hasher, toStop>>
  BY DEF RmRootFilters, Aside, disks, cache, Idle, Call
<1>2. /\ \A f \in F : f \in Files /\ RootOf(In[f]) = r
      /\ \A d \in D : RootOf(d) = r
  BY <1>0, UnderFacts
<1> HIDE DEF r, F, D
<1>3. /\ filesWithoutHashes' \in Seq(Files)
      /\ \A x : Contains(filesWithoutHashes', x) <=> Contains(filesWithoutHashes, x) /\ x \notin F
      /\ NoRepeat(filesWithoutHashes) => NoRepeat(filesWithoutHashes')
  BY <1>0, <1>1, WithoutFacts
<1>4. /\ filesWithoutHashesPrioritized' \in Seq(Files)
      /\ \A x : Contains(filesWithoutHashesPrioritized', x) <=>
           Contains(filesWithoutHashesPrioritized, x) /\ x \notin F
      /\ NoRepeat(filesWithoutHashesPrioritized) => NoRepeat(filesWithoutHashesPrioritized')
  BY <1>0, <1>1, WithoutFacts
<1>5. /\ entriesToScan' \in Seq(Dirs)
      /\ \A x : Contains(entriesToScan', x) <=> Contains(entriesToScan, x) /\ x \notin D
  BY <1>0, <1>1, WithoutFacts
<1>6. \A f \in Files : IsListed(f)' <=> IsListed(f) /\ f \notin F
  BY <1>3, <1>4 DEF IsListed
<1>7. Typed'
  <2>1. Released \in [flag : BOOLEAN, pipe : BOOLEAN]
    BY DEF Released
  <2>2. m' \in [pc : {"idle"} \cup RemovePCs \cup StopPCs, root : Roots \cup {None}]
    BY <1>1 DEF Idle, Call
  <2>3. entriesToRemove' \in SUBSET Roots
    BY <1>0, <1>1
  <2> QED  BY <1>1, <1>3, <1>4, <1>5, <2>1, <2>2, <2>3 DEF IInv, Typed, Aside
<1>8. Placed'
  BY <1>0, <1>1 DEF IInv, Placed, Aside, RemovePCs, StopPCs
<1>9. RootsSound'
  <2>1. Known \ {None} \subseteq Known'
    BY <1>1 DEF Known, r
  <2>2. shared' \cap (entriesToRemove' \cup deleted' \cup {m'.root}) = {}
    BY <1>0, <1>1, KnownFacts DEF IInv, RootsSound
  <2> QED  BY <1>1, <1>5, <2>1, <2>2, RootsKept
<1>10. VisitSound' /\ DoneWith'
  BY <1>1 DEF IInv, VisitSound, DoneWith, Aside
<1>11. ListsSound'
  <2>1. NoRepeat(filesWithoutHashes') /\ NoRepeat(filesWithoutHashesPrioritized')
    BY <1>3, <1>4 DEF IInv, ListsSound
  <2>2. ASSUME NEW f \in Files
        PROVE  ~(/\ Contains(filesWithoutHashes', f)
                 /\ Contains(filesWithoutHashesPrioritized', f))
    BY <1>3, <1>4 DEF IInv, ListsSound
  <2>3. ASSUME NEW f \in Files, IsListed(f)' PROVE f \in cached'
    BY <1>1, <1>6, <2>3 DEF IInv, ListsSound, Aside
  <2> QED  BY <2>1, <2>2, <2>3 DEF ListsSound
<1>12. NotForgotten'
  <2> SUFFICES ASSUME NEW f \in cached', RootOf(In[f]) \in shared', missing'[f] > 0,
                      f \notin failed'
               PROVE  IsListed(f)'
    BY DEF NotForgotten
  <2>1. f \in Files /\ IsListed(f)
    BY <1>1 DEF IInv, Typed, NotForgotten, Aside
  <2>2. f \notin F
    BY <1>0, <1>1, <1>2
  <2> QED  BY <1>6, <2>1, <2>2
<1>13. AllFollowed'
  <2> SUFFICES ASSUME ~toStop', NEW f \in Files, In[f] \in shared'
               PROVE  Followed(f)'
    BY DEF AllFollowed
  <2>1. Followed(f) /\ In[f] \in shared
    BY <1>1 DEF IInv, AllFollowed
  <2>2. RootOf(In[f]) # r
    BY <1>0, <2>1, SharedIsRoot DEF IInv
  <2>3. f \notin F /\ In[f] \notin D
    BY <1>2, <2>2
  <2>4. (IsListed(f) => IsListed(f)') /\ (ToScan(f) => ToScan(f)')
    BY <1>1, <1>5, <1>6, <2>3 DEF ToScan, Aside
  <2> QED  BY <1>1, <2>1, <2>4, AsideSteady
<1>14. Asleep'
  BY <1>1 DEF Asleep, Released
<1> QED  BY <1>7, <1>8, <1>9, <1>10, <1>11, <1>12, <1>13, <1>14 DEF IInv

LEMMA StopScanningStep ==
  ASSUME IInv, StopScanning
  PROVE  IInv'
<1>0. /\ m.pc = "stopHashed" /\ m.root = None /\ toStop
      /\ entriesToScan \in Seq(Dirs)
  BY DEF IInv, Typed, Placed, StopScanning, RemovePCs, StopPCs
<1>1. /\ Aside
      /\ toStopHashing' = TRUE
      /\ UNCHANGED <<lists, roots, shared, watched, deleted, entriesToRemove, hasher,
                     toStop, dirEvent>>
  BY DEF StopScanning, Aside, disks, cache, roots
<1>2. /\ m'.pc \in {"stopScan", "release"} /\ m'.root = None
      /\ m' \in [pc : {"idle"} \cup RemovePCs \cup StopPCs, root : Roots \cup {None}]
  BY DEF StopScanning, Call, StopPCs
<1>3. /\ currentScanningEntry' \in {currentScanningEntry, None}
      /\ entriesToScan' = entriesToScan \/ entriesToScan' = <<>>
  BY DEF StopScanning
<1>4. /\ entriesToScan' \in Seq(Dirs)
      /\ \A d : Contains(entriesToScan', d) => Contains(entriesToScan, d)
  <2>1. CASE entriesToScan' = entriesToScan
    BY <1>0, <2>1
  <2>2. CASE entriesToScan' = <<>>
    <3>1. <<>> \in Seq(Dirs)
      OBVIOUS
    <3>2. entriesToScan' \in Seq(Dirs)
      BY <2>2, <3>1, Zenon
    <3> QED  BY <2>2, <3>2, EmptyFacts
  <2> QED  BY <1>3, <2>1, <2>2
<1>5. Typed'
  BY <1>1, <1>2, <1>3, <1>4 DEF IInv, Typed, Aside, lists
<1>6. Placed'
  BY <1>0, <1>1, <1>2 DEF IInv, Placed, Aside, RemovePCs, StopPCs
<1>7. RootsSound'
  BY <1>0, <1>1, <1>2, <1>4, RootsAside
<1>8. VisitSound'
  BY <1>0, <1>1, <1>3 DEF IInv, VisitSound, Aside
<1>9. ListsSound' /\ NotForgotten'
  BY <1>1, ListsFrame, ForgottenFrame DEF IInv, Aside
<1>10. DoneWith'
  BY <1>1 DEF IInv, DoneWith, Aside
<1>11. AllFollowed'
  BY <1>0, <1>1 DEF AllFollowed
<1>12. Asleep'
  <2>1. entriesToScan = <<>> => entriesToScan' = <<>>
    BY <1>3
  <2>2. \A f \in Files : IsListed(f)' <=> IsListed(f)
    BY <1>1 DEF IsListed, lists
  <2> QED  BY <1>1, <2>1, <2>2 DEF IInv, Asleep, Aside
<1> QED  BY <1>5, <1>6, <1>7, <1>8, <1>9, <1>10, <1>11, <1>12 DEF IInv

-----------------------------------------------------------------------------
(* The invariant holds at every step.                                      *)

LEMMA InitHolds ==
  ASSUME Init
  PROVE  IInv
<1> USE DEF Init
<1>0. /\ u = Begin /\ m.pc = "idle" /\ m.root = None
      /\ u \in Thread /\ u.pc = "load" /\ u.loading = TRUE /\ u.batch = <<>>
      /\ shared \in SUBSET Roots
      /\ ~toStop
  BY BeginFields DEF Idle, Call
<1>1. /\ entriesToScan \in Seq(Dirs)
      /\ \A x : Contains(entriesToScan, x) => x \in shared
      /\ \A x \in shared : Contains(entriesToScan, x)
  BY OrdersFacts DEF Orders
<1>2. \A f \in Files : ~IsListed(f)
  BY EmptyFacts DEF IsListed
<1>3. Typed
  <2>1. <<>> \in Seq(Event) /\ <<>> \in Seq(Files)
    OBVIOUS
  <2>2. /\ events \in Seq(Event) /\ filesWithoutHashes \in Seq(Files)
        /\ filesWithoutHashesPrioritized \in Seq(Files)
    BY <2>1, Zenon
  <2>3. missing \in [Files -> 0 .. NbChunks]
    BY UpdaterAssumption
  <2>4. m \in [pc : {"idle"} \cup RemovePCs \cup StopPCs, root : Roots \cup {None}]
    BY DEF Idle, Call
  <2>5. /\ disk \in SUBSET Files /\ saved \in SUBSET Files
        /\ cached \in SUBSET Files /\ changed \in SUBSET cached /\ failed \in SUBSET cached
        /\ subs \in SUBSET (Dirs \ Roots)
        /\ shared \in SUBSET Roots /\ watched \in SUBSET Roots
        /\ entriesToRemove \in SUBSET Roots /\ deleted \in SUBSET Roots
        /\ currentScanningEntry \in Dirs \cup {None}
        /\ hasher \in [hashing : BOOLEAN, stop : BOOLEAN]
        /\ toStopHashing \in BOOLEAN /\ toStop \in BOOLEAN
        /\ dirEvent \in [flag : BOOLEAN, pipe : BOOLEAN]
    OBVIOUS
  <2> QED  BY <1>0, <1>1, <2>2, <2>3, <2>4, <2>5 DEF Typed
<1>4. Placed
  BY <1>0 DEF Placed, RemovePCs, StopPCs
<1>5. RootsSound
  <2>1. None \notin Roots
    BY UpdaterAssumption DEF Roots
  <2>2. Known = shared \cup {None}
    BY <1>0 DEF Known
  <2>3. \A i \in DOMAIN entriesToScan : RootOf(entriesToScan[i]) \in Known
    BY <1>0, <1>1, <2>2 DEF Contains, RootOf
  <2>4. DOMAIN events = {} /\ DOMAIN u.batch = {}
    BY <1>0, EmptySeq
  <2> QED  BY <1>0, <2>1, <2>2, <2>3, <2>4 DEF RootsSound
<1>6. VisitSound /\ DoneWith /\ Asleep
  BY <1>0 DEF VisitSound, DoneWith, Asleep
<1>7. ListsSound
  <2>1. NoRepeat(<<>>)
    BY EmptySeq DEF NoRepeat
  <2> QED  BY <1>2, <2>1, EmptyFacts DEF ListsSound
<1>8. NotForgotten
  BY DEF NotForgotten
<1>9. AllFollowed
  <2> SUFFICES ASSUME NEW f \in Files, In[f] \in shared
               PROVE  Followed(f)
    BY DEF AllFollowed
  <2>1. ToScan(f)
    BY <1>1 DEF ToScan
  <2>2. EventsTrue(f)
    BY <1>0, EmptyEvents DEF EventsTrue
  <2>3. NewComes(f) /\ DeletionComes(f) /\ ChangeComes(f)
    BY <2>1 DEF NewComes, DeletionComes, ChangeComes
  <2>4. VisitTold(f) /\ LoadTold(f) /\ DoneTold(f)
    BY <1>0 DEF VisitTold, LoadTold, DoneTold, Visited
  <2> QED  BY <2>2, <2>3, <2>4 DEF Followed
<1> QED  BY <1>3, <1>4, <1>5, <1>6, <1>7, <1>8, <1>9 DEF IInv

LEMMA StutterHolds ==
  ASSUME IInv, UNCHANGED vars
  PROVE  IInv'
<1> USE DEF vars, disks, cache, lists, roots, scans, stops
<1>1. Typed' /\ Placed' /\ RootsSound' /\ VisitSound'
  BY DEF IInv, Typed, Placed, RootsSound, Known, VisitSound
<1>2. ListsSound' /\ DoneWith' /\ NotForgotten'
  BY ListsFrame, ForgottenFrame DEF IInv, DoneWith
<1>3. AllFollowed'
  <2> SUFFICES ASSUME ~toStop', NEW f \in Files, In[f] \in shared'
               PROVE  Followed(f)'
    BY DEF AllFollowed
  <2>1. Followed(f)
    BY DEF IInv, AllFollowed
  <2>2. (IsListed(f) => IsListed(f)') /\ (ToScan(f) => ToScan(f)')
    BY DEF IsListed, ToScan
  <2> QED  BY <2>1, <2>2, AsideSteady DEF Aside
<1>4. Asleep'
  BY DEF IInv, Asleep, IsListed
<1> QED  BY <1>1, <1>2, <1>3, <1>4 DEF IInv

LEMMA ProcessEventStep ==
  ASSUME IInv, ~Dangling, ProcessEvent
  PROVE  IInv'
BY DeletedStep, ToScanStep

LEMMA UpdaterSteps ==
  ASSUME IInv, Updater
  PROVE  IInv'
<1>0. ~Dangling
  BY DEF Updater
<1>1. CASE Load \/ WaitDir \/ Take \/ EventsDone \/ Loop
  BY <1>1, LoadMoves, WaitDirMoves, TakeMoves, LeavingMoves, MoveStep
<1>2. CASE ComputeSomeHashes \/ HasherNotStarted \/ HasherStart \/ HasherStopped
  BY <1>0, <1>2, ComputeSomeHashesMoves, HasherMoves, MoveStep
<1>3. CASE HasherFails \/ HashChunk \/ HashEnd
  BY <1>0, <1>3, HasherFailsStep, HashChunkStep, HashEndStep
<1>4. CASE WaitEvent \/ Poll \/ ProcessEvent
  BY <1>0, <1>4, WaitEventStep, PollStep, ProcessEventStep
<1>5. CASE Restore \/ Remove
  BY <1>0, <1>5, RestoreStep, RemoveStep
<1>6. CASE ScanStart \/ ScanAborted \/ ScanNext
  BY <1>0, <1>6, ScanStartStep, ScanAbortedStep, ScanNextStep
<1>7. ASSUME NEW d \in Dirs, ScanSubDir(d) PROVE IInv'
  BY <1>7, ScanSubDirStep
<1>8. ASSUME NEW f \in Files, ScanFile(f) PROVE IInv'
  BY <1>0, <1>8, ScanFileStep
<1> QED  BY <1>1, <1>2, <1>3, <1>4, <1>5, <1>6, <1>7, <1>8 DEF Updater

LEMMA CallSteps ==
  ASSUME IInv, CallGoesOn \/ Others
  PROVE  IInv'
<1>0. ~Dangling
  BY DEF CallGoesOn, Others
<1>1. CASE RmRootStopsHashing \/ StopReleases \/ Join \/ Stop
  BY <1>1, CallGoesOnSteps
<1>2. CASE RmRootFilters \/ StopScanning \/ ScanRoots
  BY <1>0, <1>2, RmRootFiltersStep, StopScanningStep, ScanRootsStep
<1>3. ASSUME NEW r \in Roots, AddRoot(r) \/ RmRoot(r) PROVE IInv'
  BY <1>3, AddRootStep, RmRootStep
<1>4. ASSUME NEW f \in Files, PrioritizeAFileToHash(f) \/ Change(f) PROVE IInv'
  BY <1>0, <1>4, PrioritizeStep, ChangeStep
<1> QED  BY <1>1, <1>2, <1>3, <1>4 DEF CallGoesOn, Others

(* In every state of the updater and of its calls the invariant holds:     *)
(* above all, what differs between the disk and the cache in a shared      *)
(* directory has a scan, an event or the scan that runs to find it.        *)
THEOREM Invariance == Spec => []IInv
<1>1. Init => IInv
  BY InitHolds
<1>2. IInv /\ [Next]_vars => IInv'
  BY UpdaterSteps, CallSteps, StutterHolds DEF Next
<1> QED  BY <1>1, <1>2, PTL DEF Spec

-----------------------------------------------------------------------------
(* What it says.                                                           *)

(* Every variable keeps its type: only File objects of the cache are       *)
(* marked changed or failed, only shared directories are watched, removed  *)
(* or deleted, and the chunks left to hash are between none and all.       *)
THEOREM TypeCorrect == Spec => []TypeOK
<1>1. IInv => TypeOK
  <2> SUFFICES ASSUME IInv PROVE TypeOK
    OBVIOUS
  <2>1. \A i \in DOMAIN events : events[i] \in Event
    BY LenProperties DEF IInv, Typed
  <2>2. \A i \in DOMAIN entriesToScan : entriesToScan[i] \in Dirs
    BY LenProperties DEF IInv, Typed
  <2>3. /\ \A i \in DOMAIN filesWithoutHashes : filesWithoutHashes[i] \in Files
        /\ \A i \in DOMAIN filesWithoutHashesPrioritized :
             filesWithoutHashesPrioritized[i] \in Files
    BY LenProperties DEF IInv, Typed
  <2>4. u.dir \in Dirs \cup {None} /\ u.file \in Files \cup {None}
    BY DEF IInv, Typed, Thread
  <2>5. m.root \in Roots \cup {None}
    BY DEF IInv, Typed
  <2> QED  BY <2>1, <2>2, <2>3, <2>4, <2>5 DEF IInv, Typed, TypeOK, Event
<1> QED  BY <1>1, Invariance, PTL

(* A file is listed for its hashes once, in one of the two lists, whoever  *)
(* lists it, moves it or takes it out while it is hashed.                  *)
THEOREM FilesListedOnce == Spec => []ListedOnce
<1>1. IInv => ListedOnce
  <2> SUFFICES ASSUME IInv PROVE ListedOnce
    OBVIOUS
  <2> DEFINE a == filesWithoutHashes
             b == filesWithoutHashesPrioritized
             n == Len(a)
  <2>1. /\ a \in Seq(Files) /\ b \in Seq(Files)
        /\ NoRepeat(a) /\ NoRepeat(b)
        /\ \A f \in Files : ~(Contains(a, f) /\ Contains(b, f))
    BY DEF IInv, Typed, ListsSound
  <2>2. /\ n \in Nat /\ DOMAIN a = 1 .. n /\ DOMAIN b = 1 .. Len(b) /\ Len(b) \in Nat
        /\ \A i \in DOMAIN a : a[i] \in Files
        /\ \A i \in DOMAIN b : b[i] \in Files
    BY <2>1, LenProperties
  <2>3. /\ DOMAIN (a \o b) = 1 .. n + Len(b)
        /\ \A i \in 1 .. n + Len(b) : (a \o b)[i] = IF i <= n THEN a[i] ELSE b[i - n]
    BY <2>1, <2>2, ConcatProperties, LenProperties
  <2> HIDE DEF a, b, n
  <2>4. \A i \in 1 .. n + Len(b) :
          IF i <= n THEN i \in DOMAIN a ELSE i - n \in DOMAIN b
    BY <2>2
  <2>5. ASSUME NEW i \in 1 .. n + Len(b), NEW j \in 1 .. n + Len(b),
               (a \o b)[i] = (a \o b)[j]
        PROVE  i = j
    <3>1. i \in Int /\ j \in Int
      OBVIOUS
    <3>2. CASE i <= n /\ j <= n
      BY <2>1, <2>3, <2>4, <2>5, <3>2 DEF NoRepeat
    <3>3. CASE ~(i <= n) /\ ~(j <= n)
      <4>1. i - n \in DOMAIN b /\ j - n \in DOMAIN b /\ b[i - n] = b[j - n]
        BY <2>3, <2>4, <2>5, <3>3
      <4>2. i - n = j - n
        BY <2>1, <4>1 DEF NoRepeat
      <4> QED  BY <2>2, <3>1, <4>2
    <3>4. CASE i <= n /\ ~(j <= n)
      <4>1. i \in DOMAIN a /\ j - n \in DOMAIN b /\ a[i] = b[j - n]
        BY <2>3, <2>4, <2>5, <3>4
      <4> QED  BY <2>1, <2>2, <4>1 DEF Contains
    <3>5. CASE ~(i <= n) /\ j <= n
      <4>1. i - n \in DOMAIN b /\ j \in DOMAIN a /\ b[i - n] = a[j]
        BY <2>3, <2>4, <2>5, <3>5
      <4> QED  BY <2>1, <2>2, <4>1 DEF Contains
    <3> QED  BY <3>2, <3>3, <3>4, <3>5
  <2> QED  BY <2>3, <2>5 DEF ListedOnce, a, b
<1> QED  BY <1>1, Invariance, PTL

(* A file of the cache that lacks a hash waits for it, unless it could not *)
(* be read.                                                                *)
THEOREM NoneForgotten == Spec => []NotForgotten
<1>1. IInv => NotForgotten
  BY DEF IInv
<1> QED  BY <1>1, Invariance, PTL

(* When the updater sleeps and nothing will wake it, no call and no event  *)
(* was lost: of the files that are directly in a shared directory the      *)
(* cache has those of the disk, hashed or unreadable.                      *)
THEOREM QuietMeansUpToDate == Spec => []QuietIsUpToDate
<1>1. IInv => QuietIsUpToDate
  <2> SUFFICES ASSUME IInv, Quiet, NEW f \in Files, In[f] \in shared
               PROVE  UpToDate(f)
    BY DEF QuietIsUpToDate
  <2>1. /\ m = Idle /\ ~dirEvent.pipe /\ ~toStop
    <3>1. m.pc = "idle" /\ ~dirEvent.pipe
      BY DEF Quiet, Idle, Call
    <3> QED  BY <3>1 DEF IInv, Placed, StopPCs, Quiet
  <2>2. /\ u.pc = "waitEvent" /\ events = <<>> /\ u.batch = <<>>
        /\ entriesToScan = <<>>
        /\ \A g \in Files : IsListed(g) => g \in failed
    BY <2>1 DEF IInv, Asleep, Placed, Quiet
  <2>3. ~ToScan(f) /\ ~Visited(f) /\ ~Fresh(f) /\ ~Gone(f)
    BY <2>2, EmptyFacts, EmptyEvents DEF ToScan, Visited, Fresh, Gone, Told
  <2>4. Followed(f)
    BY <2>1 DEF IInv, AllFollowed
  <2>5. f \in disk <=> f \in cached
    BY <2>3, <2>4 DEF Followed, NewComes, DeletionComes
  <2>6. f \in changed => f \in failed
    BY <2>2, <2>3, <2>4 DEF Followed, ChangeComes
  <2>7. ASSUME f \in cached, f \notin failed PROVE missing[f] = 0
    <3>1. RootOf(In[f]) \in shared
      BY SharedIsRoot DEF IInv
    <3>2. ~(missing[f] > 0)
      BY <2>2, <2>7, <3>1 DEF IInv, NotForgotten
    <3>3. missing[f] \in 0 .. NbChunks /\ NbChunks \in Nat
      BY UpdaterAssumption DEF IInv, Typed
    <3> QED  BY <3>2, <3>3
  <2> QED  BY <2>5, <2>6, <2>7 DEF UpToDate
<1> QED  BY <1>1, Invariance, PTL

=============================================================================
