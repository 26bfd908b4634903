------------------------ MODULE ChunkTransferProofs ------------------------
(***************************************************************************)
(* Proofs about ChunkTransfer for any number of files, chunks, peers,      *)
(* threads and restarts.                                                   *)
(*                                                                         *)
(* A transfer is stopped in several steps of the agenda of the main        *)
(* thread.  The invariant follows a transfer through them: it is active    *)
(* until its peer is given back, and what is left to do never takes the    *)
(* peer of an active transfer from it.                                     *)
(***************************************************************************)
EXTENDS ChunkTransfer, FiniteSetTheorems, SequenceTheorems, WellFoundedInduction, TLAPS

(* A thread of the pool was waited for, or was not needed: the transfer of *)
(* c is over as soon as the main thread goes on.                           *)
Ending(c) ==
  agenda # <<>> /\ agenda[1].op \in {"wait", "end"} /\ agenda[1].chunk = c

(* The transfers that hold a peer, in the middle of a handler too.         *)
Active(c) == cd[c].downloading \/ Ending(c)
Actives == {c \in Chunks : Active(c)}

(* The peers of the transfers, the occupied ones, are not shared.          *)
Exclusive ==
  /\ \A c \in Actives : cd[c].current \in occupied
  /\ \A p \in occupied : \E c \in Actives : cd[c].current = p
  /\ \A c, d \in Actives : cd[c].current = cd[d].current => c = d

(* A request is of a transfer, and a transfer has been counted.            *)
Counted ==
  /\ \A c \in Chunks : cd[c].request # "none" => c \in Actives
  /\ \A c \in Actives : cd[c].slots >= 1
  /\ running <= Cardinality(Actives)

(* What is left to do cannot take the peer of a transfer from it: the wait *)
(* and the end of a transfer come at once; a chunk is not picked in a file *)
(* that is deleted; a peer is forgotten once it is out of reach and its    *)
(* transfer was, or will be before, stopped.                               *)
HeadOnly ==
  \A i \in DOMAIN agenda : agenda[i].op \in {"wait", "end"} => i = 1

PickAlive ==
  \A i \in DOMAIN agenda : agenda[i].op = "pick" => file[agenda[i].file] # "DELETED"

DeletedStops ==
  \A c \in Chunks : cd[c].downloading /\ file[FileOf[c]] = "DELETED" =>
    \E i \in DOMAIN agenda : agenda[i] = Stop(c)

ForgottenStops ==
  \A i \in DOMAIN agenda : agenda[i].op = "forget" =>
    /\ peer[agenda[i].peer] # "up"
    /\ \A c \in Chunks : cd[c].downloading /\ cd[c].current = agenda[i].peer =>
         \E j \in 1 .. i - 1 : agenda[j] \in {Lose(c, agenda[i].peer), Stop(c)}

AgendaSafe == HeadOnly /\ PickAlive /\ DeletedStops /\ ForgottenStops

IInv == TypeOK /\ LinksCover /\ Exclusive /\ Counted /\ AgendaSafe

-----------------------------------------------------------------------------
(* The functions of the chunks, the links and the files.                   *)

Transfers ==
  [cd : [Chunks -> ChunkDownloader], links : [Peers -> Nat], file : [Files -> Status]]

Holding(x, p) == {c \in Chunks : p \in x.cd[c].peers}

Covers(x) == \A p \in Peers : Cardinality(Holding(x, p)) <= x.links[p]

(* The transfers of y are those of x.                                      *)
SameTransfers(x, y) ==
  \A c \in Chunks : /\ y.cd[c].downloading = x.cd[c].downloading
                    /\ y.cd[c].current = x.cd[c].current
                    /\ y.cd[c].request # "none" => x.cd[c].request # "none"
                    /\ y.cd[c].slots = x.cd[c].slots

SameDeleted(x, y) == \A f \in Files : y.file[f] = "DELETED" <=> x.file[f] = "DELETED"

(* What every function of this section keeps.                              *)
Keeps(x, y) ==
  /\ y \in Transfers
  /\ SameTransfers(x, y)
  /\ SameDeleted(x, y)
  /\ Covers(x) => Covers(y)

LEMMA KeepsTransitive ==
  ASSUME NEW x, NEW y, NEW z, Keeps(x, y), Keeps(y, z)
  PROVE  Keeps(x, z)
BY DEF Keeps, SameTransfers, SameDeleted

LEMMA ChunksAreFinite ==
  /\ IsFiniteSet(Chunks)
  /\ \A S \in SUBSET Chunks : IsFiniteSet(S) /\ Cardinality(S) \in Nat
<1>1. IsFiniteSet(Chunks)
  BY TransferAssumption, FS_Interval DEF Chunks
<1>2. ASSUME NEW S \in SUBSET Chunks
      PROVE  IsFiniteSet(S) /\ Cardinality(S) \in Nat
  BY <1>1, FS_Subset, FS_CardinalityType
<1> QED
  BY <1>1, <1>2

(* The links of the peers taken out of some chunks are taken off.          *)
LEMMA WithoutKeeps ==
  ASSUME NEW x \in Transfers, NEW S \in SUBSET Chunks, NEW G \in SUBSET Peers
  PROVE  /\ Keeps(x, Without(x, S, G))
         /\ Without(x, S, G).file = x.file
<1> DEFINE y == Without(x, S, G)
           lost(p) == Cardinality({c \in S : p \in x.cd[c].peers \cap G})
           cds == [c \in Chunks |-> IF c \in S THEN [x.cd[c] EXCEPT !.peers = @ \ G]
                                               ELSE x.cd[c]]
           lks == [p \in Peers |-> IF lost(p) < x.links[p] THEN x.links[p] - lost(p) ELSE 0]
<1>1. y = [x EXCEPT !.cd = cds, !.links = lks]
  BY DEF Without
<1>2. \A p \in Peers : lost(p) \in Nat
  BY ChunksAreFinite
<1>3. cds \in [Chunks -> ChunkDownloader]
  BY DEF Transfers, ChunkDownloader
<1>4. lks \in [Peers -> Nat]
  BY <1>2 DEF Transfers
<1>5. y.cd = cds /\ y.links = lks /\ y.file = x.file /\ y \in Transfers
  BY <1>1, <1>3, <1>4 DEF Transfers
<1>6. \A c \in Chunks : /\ cds[c].downloading = x.cd[c].downloading
                        /\ cds[c].current = x.cd[c].current
                        /\ cds[c].request = x.cd[c].request
                        /\ cds[c].slots = x.cd[c].slots
  BY DEF Transfers, ChunkDownloader
<1>7. SameTransfers(x, y) /\ SameDeleted(x, y)
  BY <1>5, <1>6 DEF SameTransfers, SameDeleted
<1>8. ASSUME Covers(x), NEW p \in Peers
      PROVE  Cardinality(Holding(y, p)) <= y.links[p]
  <2> DEFINE out == {c \in S : p \in x.cd[c].peers \cap G}
  <2>1. Holding(y, p) = Holding(x, p) \ out
    <3>1. \A c \in Chunks : p \in cds[c].peers <=> p \in x.cd[c].peers /\ c \notin out
      BY DEF Transfers, ChunkDownloader
    <3> QED
      BY <1>5, <3>1 DEF Holding
  <2>2. out \subseteq Holding(x, p)
    BY DEF Holding
  <2>3. Cardinality(Holding(y, p)) = Cardinality(Holding(x, p)) - Cardinality(out)
    <3>1. IsFiniteSet(Holding(x, p)) /\ IsFiniteSet(out)
      BY ChunksAreFinite DEF Holding
    <3>2. Holding(x, p) \cap out = out
      BY <2>2
    <3> QED
      BY <2>1, <3>1, <3>2, FS_Difference
  <2>4. Cardinality(Holding(x, p)) <= x.links[p]
    BY <1>8 DEF Covers
  <2>5. /\ Cardinality(Holding(x, p)) \in Nat /\ Cardinality(out) \in Nat
        /\ Cardinality(out) <= Cardinality(Holding(x, p)) /\ x.links[p] \in Nat
    BY <2>2, ChunksAreFinite, FS_Subset DEF Holding, Transfers
  <2>6. y.links[p] = IF Cardinality(out) < x.links[p] THEN x.links[p] - Cardinality(out) ELSE 0
    BY <1>5
  <2> QED
    BY <2>3, <2>4, <2>5, <2>6
<1> QED
  BY <1>5, <1>7, <1>8 DEF Keeps, Covers

(* The end of an update: the failures are forgotten, the status is v.      *)
StatusGiven(y, f, failed, v) ==
  [y EXCEPT !.cd = [c \in Chunks |-> IF c \in failed THEN [y.cd[c] EXCEPT !.status = "QUEUED"]
                                                   ELSE y.cd[c]],
            !.file[f] = v]

(* Only the chunks that failed and the status of f change, and a file that *)
(* is deleted stays so.                                                    *)
LEMMA UpdateStatusKeeps ==
  ASSUME NEW x \in Transfers, NEW f \in Files
  PROVE  Keeps(x, UpdateStatus(x, f))
<1>1. CASE x.file[f] \in {"COMPLETE", "PAUSED", "DELETED"}
  BY <1>1 DEF UpdateStatus, Keeps, SameTransfers, SameDeleted
<1>2. CASE x.file[f] \notin {"COMPLETE", "PAUSED", "DELETED"}
  <2>1. PICK S \in SUBSET Chunks, F \in SUBSET Chunks,
             v \in {"DOWNLOADING", "QUEUED", "COMPLETE", "ERROR"} :
          UpdateStatus(x, f) = StatusGiven(Without(x, S, Unavailable), f, F, v)
    <3> DEFINE busy   == {c \in ChunksOf(f) : x.cd[c].downloading}
               seen   == {c \in ChunksOf(f) : \A b \in busy : c < b}
               failed == {c \in seen : x.cd[c].status = "ERROR"}
               open   == {c \in seen : ~x.cd[c].complete}
               usable == {c \in open : x.cd[c].peers \cap Available # {}}
               first(among) == {c \in among : \A b \in among \cap usable : c <= b}
               asked  == first(open \ failed)
               stale  == {c \in asked : x.cd[c].peers \cap Unavailable # {}}
               cleaned == IF stale = {} THEN {}
                 ELSE first(open) \cup first(open \ {c \in failed : \A b \in stale : c < b})
               status == IF busy # {} THEN "DOWNLOADING"
                         ELSE IF stale # {} THEN "QUEUED"
                         ELSE IF failed \cup asked = {} THEN "COMPLETE"
                         ELSE IF \E c \in failed : \A b \in asked : b < c THEN "ERROR"
                         ELSE "QUEUED"
    <3>1. cleaned \in SUBSET Chunks /\ failed \in SUBSET Chunks
      BY DEF ChunksOf
    <3>2. status \in {"DOWNLOADING", "QUEUED", "COMPLETE", "ERROR"}
      OBVIOUS
    <3>3. UpdateStatus(x, f) = StatusGiven(Without(x, cleaned, Unavailable), f, failed, status)
      BY <1>2, Zenon DEF UpdateStatus, StatusGiven
    <3> HIDE DEF cleaned, failed, status
    <3> QED
      BY <3>1, <3>2, <3>3
  <2> DEFINE y == Without(x, S, Unavailable)
             cds == [c \in Chunks |-> IF c \in F THEN [y.cd[c] EXCEPT !.status = "QUEUED"]
                                                ELSE y.cd[c]]
             z == UpdateStatus(x, f)
  <2>2. Keeps(x, y) /\ y.file = x.file
    BY WithoutKeeps DEF Unavailable
  <2>3. y \in Transfers
    BY <2>2 DEF Keeps
  <2>4. z = [y EXCEPT !.cd = cds, !.file[f] = v]
    BY <2>1 DEF StatusGiven
  <2> HIDE DEF y
  <2>5. cds \in [Chunks -> ChunkDownloader]
    BY <2>3 DEF Transfers, ChunkDownloader
  <2>6. z.cd = cds /\ z.links = y.links /\ z.file = [y.file EXCEPT ![f] = v]
    BY <2>3, <2>4, <2>5 DEF Transfers
  <2>7. z \in Transfers
    <3>1. [y.file EXCEPT ![f] = v] \in [Files -> Status]
      BY <2>3 DEF Transfers, Status
    <3>2. z = [cd |-> cds, links |-> y.links, file |-> [y.file EXCEPT ![f] = v]]
      BY <2>3, <2>4 DEF Transfers
    <3> QED
      BY <2>3, <2>5, <3>1, <3>2 DEF Transfers
  <2>8. \A c \in Chunks : /\ cds[c].downloading = y.cd[c].downloading
                          /\ cds[c].current = y.cd[c].current
                          /\ cds[c].request = y.cd[c].request
                          /\ cds[c].slots = y.cd[c].slots
                          /\ cds[c].peers = y.cd[c].peers
    BY <2>3 DEF Transfers, ChunkDownloader
  <2>9. SameTransfers(y, z)
    BY <2>6, <2>8 DEF SameTransfers
  <2>10. SameDeleted(y, z)
    BY <1>2, <2>2, <2>3, <2>6 DEF SameDeleted, Transfers
  <2>11. \A p \in Peers : Holding(z, p) = Holding(y, p)
    BY <2>6, <2>8 DEF Holding
  <2>12. Keeps(y, z)
    BY <2>6, <2>7, <2>9, <2>10, <2>11 DEF Keeps, Covers
  <2> QED
    BY <2>2, <2>12, KeepsTransitive
<1> QED
  BY <1>1, <1>2

LEMMA DropAndTellKeeps ==
  ASSUME NEW x \in Transfers, NEW c \in Chunks, NEW G \in SUBSET Peers
  PROVE  Keeps(x, DropAndTell(x, c, G))
<1>1. CASE x.cd[c].peers \cap G = {}
  BY <1>1 DEF DropAndTell, Keeps, SameTransfers, SameDeleted
<1>2. CASE x.cd[c].peers \cap G # {}
  <2> DEFINE y == Without(x, {c}, G)
  <2>1. Keeps(x, y)
    BY WithoutKeeps
  <2>2. Keeps(y, UpdateStatus(y, FileOf[c]))
    <3>1. FileOf[c] \in Files /\ y \in Transfers
      BY <2>1, TransferAssumption DEF Keeps
    <3> HIDE DEF y
    <3> QED
      BY <3>1, UpdateStatusKeeps
  <2>3. DropAndTell(x, c, G) = UpdateStatus(y, FileOf[c])
    BY <1>2 DEF DropAndTell
  <2> HIDE DEF y
  <2> QED
    BY <2>1, <2>2, <2>3, KeepsTransitive
<1> QED
  BY <1>1, <1>2

LEMMA RememberKeeps ==
  ASSUME NEW x \in Transfers, NEW c \in Chunks, NEW p \in Peers
  PROVE  Keeps(x, Remember(x, c, p))
<1>1. CASE p \in x.cd[c].peers
  BY <1>1 DEF Remember, Keeps, SameTransfers, SameDeleted
<1>2. CASE p \notin x.cd[c].peers
  <2> DEFINE y == [x EXCEPT !.cd[c].peers = @ \cup {p}, !.links[p] = @ + 1]
  <2>1. y \in Transfers
    <3> DEFINE cds == [x.cd EXCEPT ![c] = [x.cd[c] EXCEPT !.peers = x.cd[c].peers \cup {p}]]
               lks == [x.links EXCEPT ![p] = x.links[p] + 1]
    <3>1. cds \in [Chunks -> ChunkDownloader] /\ lks \in [Peers -> Nat]
      BY DEF Transfers, ChunkDownloader
    <3>2. y = [x EXCEPT !.cd = cds, !.links = lks]
      OBVIOUS
    <3> HIDE DEF cds, lks, y
    <3>3. y = [cd |-> cds, links |-> lks, file |-> x.file]
      BY <3>2 DEF Transfers
    <3> QED
      BY <3>1, <3>3 DEF Transfers
  <2>2. /\ \A d \in Chunks : /\ y.cd[d].downloading = x.cd[d].downloading
                             /\ y.cd[d].current = x.cd[d].current
                             /\ y.cd[d].request = x.cd[d].request
                             /\ y.cd[d].slots = x.cd[d].slots
        /\ \A d \in Chunks : y.cd[d].peers = IF d = c THEN x.cd[d].peers \cup {p} ELSE x.cd[d].peers
        /\ \A q \in Peers : y.links[q] = IF q = p THEN x.links[q] + 1 ELSE x.links[q]
        /\ y.file = x.file
    BY DEF Transfers, ChunkDownloader
  <2>3. \A q \in Peers : Holding(y, q) = IF q = p THEN Holding(x, q) \cup {c} ELSE Holding(x, q)
    BY <2>2 DEF Holding
  <2>4. ASSUME Covers(x), NEW q \in Peers
        PROVE  Cardinality(Holding(y, q)) <= y.links[q]
    <3>1. Cardinality(Holding(x, q)) <= x.links[q]
      BY <2>4 DEF Covers
    <3>2. IsFiniteSet(Holding(x, q)) /\ Cardinality(Holding(x, q)) \in Nat /\ x.links[q] \in Nat
      BY ChunksAreFinite DEF Holding, Transfers
    <3>3. Cardinality(Holding(x, q) \cup {c}) <= Cardinality(Holding(x, q)) + 1
      <4> DEFINE H == Holding(x, q)
      <4> HIDE DEF H
      <4>1. IsFiniteSet(H) /\ Cardinality(H) \in Nat
        BY <3>2 DEF H
      <4>2. Cardinality(H \cup {c}) = IF c \in H THEN Cardinality(H) ELSE Cardinality(H) + 1
        BY <4>1, FS_AddElement
      <4>3. Cardinality(H \cup {c}) <= Cardinality(H) + 1
        BY <4>1, <4>2
      <4> QED
        BY <4>3 DEF H
    <3>4. Cardinality(Holding(x, q) \cup {c}) \in Nat
      BY ChunksAreFinite DEF Holding
    <3> HIDE DEF y
    <3>5. y.links[q] = (IF q = p THEN x.links[q] + 1 ELSE x.links[q])
      BY <2>2
    <3>6. CASE q = p
      <4>1. Holding(y, q) = Holding(x, q) \cup {c}
        BY <2>3, <3>6
      <4>2. Cardinality(Holding(y, q)) <= Cardinality(Holding(x, q)) + 1
        BY <3>3, <4>1
      <4> QED
        BY <3>1, <3>2, <3>4, <3>5, <3>6, <4>1, <4>2
    <3>7. CASE q # p
      <4>1. Holding(y, q) = Holding(x, q)
        BY <2>3, <3>7
      <4> QED
        BY <3>1, <3>5, <3>7, <4>1
    <3> QED
      BY <3>6, <3>7
  <2>5. Keeps(x, y)
    BY <2>1, <2>2, <2>4 DEF Keeps, SameTransfers, SameDeleted, Covers
  <2>6. Keeps(y, UpdateStatus(y, FileOf[c]))
    <3>1. FileOf[c] \in Files
      BY TransferAssumption
    <3> HIDE DEF y
    <3> QED
      BY <2>1, <3>1, UpdateStatusKeeps
  <2>7. Remember(x, c, p) = UpdateStatus(y, FileOf[c])
    BY <1>2 DEF Remember
  <2> HIDE DEF y
  <2> QED
    BY <2>5, <2>6, <2>7, KeepsTransitive
<1> QED
  BY <1>1, <1>2

LEMMA ForgottenPeersKeeps ==
  ASSUME NEW x \in Transfers, NEW c \in Chunks
  PROVE  Keeps(x, ForgottenPeers(x, c))
<1> DEFINE y == ForgottenPeers(x, c)
<1>1. y \in Transfers
  <2> DEFINE cds == [x.cd EXCEPT ![c] = [x.cd[c] EXCEPT !.peers = {}]]
             z == [x EXCEPT !.cd[c].peers = {}]
  <2>1. cds \in [Chunks -> ChunkDownloader]
    BY DEF Transfers, ChunkDownloader
  <2>2. z = [cd |-> cds, links |-> x.links, file |-> x.file]
    BY DEF Transfers
  <2>3. y \in {x, z}
    BY DEF ForgottenPeers
  <2> HIDE DEF cds, z, y
  <2> QED
    BY <2>1, <2>2, <2>3 DEF Transfers
<1>2. /\ \A d \in Chunks : /\ y.cd[d].downloading = x.cd[d].downloading
                           /\ y.cd[d].current = x.cd[d].current
                           /\ y.cd[d].request = x.cd[d].request
                           /\ y.cd[d].slots = x.cd[d].slots
                           /\ y.cd[d].peers \subseteq x.cd[d].peers
      /\ y.links = x.links
      /\ y.file = x.file
  BY DEF ForgottenPeers, Transfers, ChunkDownloader
<1> HIDE DEF y
<1>3. ASSUME Covers(x), NEW p \in Peers
      PROVE  Cardinality(Holding(y, p)) <= y.links[p]
  <2>1. Holding(y, p) \subseteq Holding(x, p)
    BY <1>2 DEF Holding
  <2>2. /\ IsFiniteSet(Holding(x, p)) /\ Cardinality(Holding(x, p)) \in Nat
        /\ Cardinality(Holding(y, p)) \in Nat
    BY ChunksAreFinite DEF Holding
  <2>3. Cardinality(Holding(y, p)) <= Cardinality(Holding(x, p))
    BY <2>1, <2>2, FS_Subset
  <2>4. Cardinality(Holding(x, p)) <= x.links[p] /\ x.links[p] \in Nat
    BY <1>3 DEF Covers, Transfers
  <2> QED
    BY <1>2, <2>2, <2>3, <2>4
<1>4. Keeps(x, y)
  BY <1>1, <1>2, <1>3 DEF Keeps, SameTransfers, SameDeleted, Covers
<1> QED
  BY <1>4 DEF y

(* A change of the members of a chunk that its peers do not depend on.     *)
LEMMA SamePeersCover ==
  ASSUME NEW x \in Transfers, NEW y \in Transfers, Covers(x),
         \A c \in Chunks : y.cd[c].peers = x.cd[c].peers,
         y.links = x.links
  PROVE  Covers(y)
<1>1. \A p \in Peers : Holding(y, p) = Holding(x, p)
  BY DEF Holding
<1> QED
  BY <1>1 DEF Covers

-----------------------------------------------------------------------------
(* What is left to do, as a sequence.                                      *)

LEMMA TasksTyped ==
  /\ Nothing \in Tasks /\ Scan \in Tasks
  /\ \A f \in 1 .. NbFiles + 1, L \in SUBSET Peers : Loop(f, L) \in Tasks
  /\ \A f \in Files, L \in SUBSET Peers, S \in SUBSET Chunks : Pick(f, L, S) \in Tasks
  /\ \A c \in Chunks : Ask(c) \in Tasks /\ Stop(c) \in Tasks /\ End(c) \in Tasks
  /\ \A c \in Chunks, p \in Peers : Lose(c, p) \in Tasks /\ Learn(c, p) \in Tasks
  /\ \A c \in Chunks, t \in Threads : Wait(c, t) \in Tasks
  /\ \A p \in Peers : Forget(p) \in Tasks /\ Meet(p) \in Tasks
  /\ \A t \in Threads : Retire(t) \in Tasks
  /\ \A f \in Files : Update(f) \in Tasks /\ Destroy(f) \in Tasks
<1>1. Nothing \in Tasks /\ Scan \in Tasks
  BY DEF Tasks, Nothing, Scan
<1>2. \A f \in 1 .. NbFiles + 1, L \in SUBSET Peers : Loop(f, L) \in Tasks
  BY DEF Tasks, Loop
<1>3. \A f \in Files, L \in SUBSET Peers, S \in SUBSET Chunks : Pick(f, L, S) \in Tasks
  BY DEF Tasks, Pick
<1>4. \A c \in Chunks : Ask(c) \in Tasks /\ Stop(c) \in Tasks /\ End(c) \in Tasks
  BY DEF Tasks, Ask, Stop, End
<1>5. \A c \in Chunks, p \in Peers : Lose(c, p) \in Tasks /\ Learn(c, p) \in Tasks
  BY DEF Tasks, Lose, Learn
<1>6. \A c \in Chunks, t \in Threads : Wait(c, t) \in Tasks
  BY DEF Tasks, Wait
<1>7. \A p \in Peers : Forget(p) \in Tasks /\ Meet(p) \in Tasks
  BY DEF Tasks, Forget, Meet
<1>8. \A t \in Threads : Retire(t) \in Tasks
  BY DEF Tasks, Retire
<1>9. \A f \in Files : Update(f) \in Tasks /\ Destroy(f) \in Tasks
  BY DEF Tasks, Update, Destroy
<1> QED
  BY <1>1, <1>2, <1>3, <1>4, <1>5, <1>6, <1>7, <1>8, <1>9

(* A task has the members its operation reads.                             *)
LEMMA TaskMembers ==
  ASSUME NEW t \in Tasks
  PROVE  /\ t.op = "loop" => t.file \in 1 .. NbFiles + 1 /\ t.left \in SUBSET Peers
         /\ t.op = "pick" => t.file \in Files /\ t.left \in SUBSET Peers /\ t.among \in SUBSET Chunks
         /\ t.op \in {"ask", "stop", "end", "wait", "lose", "learn"} => t.chunk \in Chunks
         /\ t.op \in {"lose", "learn", "forget", "meet"} => t.peer \in Peers
         /\ t.op \in {"retire", "wait"} => t.thread \in Threads
         /\ t.op \in {"update", "destroy"} => t.file \in Files
         /\ t.op = "stop" => t = Stop(t.chunk)
         /\ t.op = "lose" => t = Lose(t.chunk, t.peer)
         /\ t.op = "end" => t = End(t.chunk)
BY DEF Tasks, Stop, Lose, End

LEMMA HeadIsTask ==
  ASSUME agenda \in Seq(Tasks), agenda # <<>>
  PROVE  /\ Head(agenda) = agenda[1] /\ agenda[1] \in Tasks /\ 1 \in DOMAIN agenda
         /\ Tail(agenda) \in Seq(Tasks)
OBVIOUS

(* A handler goes on with the tasks a step adds, then with the others.     *)
LEMMA Continued ==
  ASSUME agenda \in Seq(Tasks), agenda # <<>>, NEW tasks \in Seq(Tasks), Continue(tasks)
  PROVE  /\ agenda' \in Seq(Tasks)
         /\ \A i \in 1 .. Len(tasks) : i \in DOMAIN agenda' /\ agenda'[i] = tasks[i]
         /\ \A k \in 2 .. Len(agenda) : /\ Len(tasks) + k - 1 \in DOMAIN agenda'
                                        /\ agenda'[Len(tasks) + k - 1] = agenda[k]
         /\ \A i \in DOMAIN agenda' :
              \/ i \in 1 .. Len(tasks) /\ agenda'[i] = tasks[i]
              \/ \E k \in 2 .. Len(agenda) : i = Len(tasks) + k - 1 /\ agenda'[i] = agenda[k]
<1> DEFINE rest == Tail(agenda)
<1>1. /\ rest \in Seq(Tasks) /\ Len(rest) = Len(agenda) - 1
      /\ \A i \in 1 .. Len(rest) : rest[i] = agenda[i + 1]
  OBVIOUS
<1>2. agenda' = tasks \o rest
  BY DEF Continue
<1> HIDE DEF rest
<1>3. /\ agenda' \in Seq(Tasks) /\ Len(agenda') = Len(tasks) + Len(rest)
      /\ \A i \in 1 .. Len(agenda') : agenda'[i] = IF i <= Len(tasks) THEN tasks[i]
                                                  ELSE rest[i - Len(tasks)]
  BY <1>1, <1>2
<1>4. DOMAIN agenda' = 1 .. Len(agenda') /\ Len(tasks) \in Nat /\ Len(agenda) \in Nat
  BY <1>3
<1>5. ASSUME NEW k \in 2 .. Len(agenda)
      PROVE  /\ Len(tasks) + k - 1 \in DOMAIN agenda'
             /\ agenda'[Len(tasks) + k - 1] = agenda[k]
  <2>1. k - 1 \in 1 .. Len(rest) /\ Len(tasks) + k - 1 \in 1 .. Len(agenda')
    BY <1>1, <1>3, <1>4
  <2>2. agenda'[Len(tasks) + k - 1] = rest[k - 1]
    BY <1>3, <1>4, <2>1
  <2> QED
    BY <1>1, <1>4, <2>1, <2>2
<1>6. ASSUME NEW i \in DOMAIN agenda', i \notin 1 .. Len(tasks)
      PROVE  \E k \in 2 .. Len(agenda) : i = Len(tasks) + k - 1 /\ agenda'[i] = agenda[k]
  <2> DEFINE k == i - Len(tasks) + 1
  <2>1. k \in 2 .. Len(agenda) /\ i = Len(tasks) + k - 1
    BY <1>1, <1>3, <1>4, <1>6
  <2> QED
    BY <1>5, <2>1
<1>7. \A i \in 1 .. Len(tasks) : i \in DOMAIN agenda' /\ agenda'[i] = tasks[i]
  BY <1>1, <1>3, <1>4
<1> QED
  BY <1>3, <1>5, <1>6, <1>7

(* A task for each chunk is a sequence of tasks, indexed by the chunks.    *)
LEMMA TasksOfChunks ==
  ASSUME NEW s \in [Chunks -> Tasks]
  PROVE  s \in Seq(Tasks) /\ Len(s) = NbChunks /\ DOMAIN s = Chunks
BY TransferAssumption DEF Chunks

-----------------------------------------------------------------------------
(* What the parts of the invariant depend on.                              *)

LEMMA NowTyped ==
  ASSUME TypeOK
  PROVE  Now \in Transfers
BY DEF TypeOK, Now, Transfers

LEMMA TypedNow ==
  ASSUME Now \in Transfers
  PROVE  /\ cd \in [Chunks -> ChunkDownloader]
         /\ file \in [Files -> Status]
         /\ links \in [Peers -> Nat]
<1>1. Now.cd = cd /\ Now.file = file /\ Now.links = links
  BY DEF Now
<1> QED
  BY <1>1 DEF Transfers

LEMMA CoversIsLinksCover == Covers(Now) <=> LinksCover
BY DEF Covers, Holding, LinksCover, Having, Now

(* The transfers and what counts them stay as they are.                    *)
LEMMA TransfersStay ==
  ASSUME LinksCover, Exclusive, Counted,
         Covers(Now'), \A c \in Chunks : Active(c)' <=> Active(c),
         \A c \in Chunks : /\ cd'[c].current = cd[c].current
                           /\ cd'[c].request # "none" => cd[c].request # "none"
                           /\ cd'[c].slots = cd[c].slots,
         occupied' = occupied, running' = running
  PROVE  LinksCover' /\ Exclusive' /\ Counted'
<1>1. LinksCover'
  BY DEF Covers, Holding, LinksCover, Having, Now
<1>2. Actives' = Actives
  BY DEF Actives
<1>4. Actives \subseteq Chunks
  BY DEF Actives
<1>5. Exclusive'
  BY <1>2, <1>4 DEF Exclusive
<1>6. Counted'
  BY <1>2, <1>4 DEF Counted
<1> QED
  BY <1>1, <1>5, <1>6

(* No transfer is waited for or ends in the tasks: none is ending next.    *)
LEMMA NoneEnding ==
  ASSUME agenda \in Seq(Tasks), agenda # <<>>, HeadOnly,
         NEW tasks \in Seq(Tasks), Continue(tasks),
         \A i \in 1 .. Len(tasks) : tasks[i].op \notin {"wait", "end"}
  PROVE  \A c : ~Ending(c)'
<1>1. SUFFICES ASSUME agenda' # <<>>
               PROVE  agenda'[1].op \notin {"wait", "end"}
  BY DEF Ending
<1>2. 1 \in DOMAIN agenda'
  BY <1>1, Continued
<1>3. \/ 1 \in 1 .. Len(tasks) /\ agenda'[1] = tasks[1]
      \/ \E k \in 2 .. Len(agenda) : agenda'[1] = agenda[k]
  BY <1>2, Continued
<1>4. \A k \in 2 .. Len(agenda) : agenda[k].op \notin {"wait", "end"}
  BY DEF HeadOnly
<1> QED
  BY <1>3, <1>4

(* The handler goes on: what is left still leaves the transfers their      *)
(* peers.                                                                  *)
LEMMA AgendaGoesOn ==
  ASSUME agenda \in Seq(Tasks), agenda # <<>>, AgendaSafe,
         NEW tasks \in Seq(Tasks), Continue(tasks),
         peer' = peer,
         \A f \in Files : file'[f] = "DELETED" <=> file[f] = "DELETED",
         \A i \in 1 .. Len(tasks) : /\ tasks[i].op \in {"wait", "end"} => i = 1
                                    /\ tasks[i].op = "pick" => file[tasks[i].file] # "DELETED"
                                    /\ tasks[i].op # "forget",
         \A c \in Chunks : cd'[c].downloading =>
           \/ cd[c].downloading /\ cd'[c].current = cd[c].current
           \/ peer[cd'[c].current] = "up" /\ file[FileOf[c]] # "DELETED",
         \A c \in Chunks : cd'[c].downloading => agenda[1] # Stop(c),
         \A c \in Chunks : cd'[c].downloading /\ agenda[1] = Lose(c, cd[c].current) =>
           \E i \in 1 .. Len(tasks) : tasks[i] = Stop(c)
  PROVE  AgendaSafe'
<1>1. \A i \in DOMAIN agenda' :
        \/ i \in 1 .. Len(tasks) /\ agenda'[i] = tasks[i]
        \/ \E k \in 2 .. Len(agenda) : i = Len(tasks) + k - 1 /\ agenda'[i] = agenda[k]
  BY Continued
<1>2. DOMAIN agenda = 1 .. Len(agenda) /\ Len(agenda) \in Nat /\ Len(tasks) \in Nat
  OBVIOUS
<1>3. HeadOnly'
  <2>1. SUFFICES ASSUME NEW i \in DOMAIN agenda', agenda'[i].op \in {"wait", "end"}
                 PROVE  i = 1
    BY DEF HeadOnly
  <2>2. CASE i \in 1 .. Len(tasks) /\ agenda'[i] = tasks[i]
    BY <2>1, <2>2
  <2>3. CASE \E k \in 2 .. Len(agenda) : i = Len(tasks) + k - 1 /\ agenda'[i] = agenda[k]
    BY <1>2, <2>1, <2>3 DEF AgendaSafe, HeadOnly
  <2> QED
    BY <1>1, <2>2, <2>3
<1>4. PickAlive'
  <2>1. SUFFICES ASSUME NEW i \in DOMAIN agenda', agenda'[i].op = "pick"
                 PROVE  file'[agenda'[i].file] # "DELETED"
    BY DEF PickAlive
  <2>2. agenda'[i].file \in Files
    BY <2>1, Continued, TaskMembers
  <2>3. CASE i \in 1 .. Len(tasks) /\ agenda'[i] = tasks[i]
    BY <2>1, <2>2, <2>3
  <2>4. CASE \E k \in 2 .. Len(agenda) : i = Len(tasks) + k - 1 /\ agenda'[i] = agenda[k]
    BY <1>2, <2>1, <2>2, <2>4 DEF AgendaSafe, PickAlive
  <2> QED
    BY <1>1, <2>3, <2>4
<1>5. DeletedStops'
  <2>1. SUFFICES ASSUME NEW c \in Chunks, cd'[c].downloading, file'[FileOf[c]] = "DELETED"
                 PROVE  \E i \in DOMAIN agenda' : agenda'[i] = Stop(c)
    BY DEF DeletedStops
  <2>2. FileOf[c] \in Files
    BY TransferAssumption
  <2>3. cd[c].downloading /\ file[FileOf[c]] = "DELETED"
    BY <2>1, <2>2
  <2>4. PICK k \in DOMAIN agenda : agenda[k] = Stop(c)
    BY <2>3 DEF AgendaSafe, DeletedStops
  <2>5. k \in 2 .. Len(agenda)
    BY <1>2, <2>1, <2>4
  <2> QED
    BY <2>4, <2>5, Continued
<1>6. ForgottenStops'
  <2>1. SUFFICES ASSUME NEW i \in DOMAIN agenda', agenda'[i].op = "forget"
                 PROVE  /\ peer'[agenda'[i].peer] # "up"
                        /\ \A c \in Chunks : cd'[c].downloading /\ cd'[c].current = agenda'[i].peer =>
                             \E j \in 1 .. i - 1 : agenda'[j] \in {Lose(c, agenda'[i].peer), Stop(c)}
    BY DEF ForgottenStops
  <2>2. PICK k \in 2 .. Len(agenda) : i = Len(tasks) + k - 1 /\ agenda'[i] = agenda[k]
    BY <1>1, <2>1
  <2>3. peer'[agenda'[i].peer] # "up"
    BY <1>2, <2>1, <2>2 DEF AgendaSafe, ForgottenStops
  <2>4. ASSUME NEW c \in Chunks, cd'[c].downloading, cd'[c].current = agenda'[i].peer
        PROVE  \E j \in 1 .. i - 1 : agenda'[j] \in {Lose(c, agenda'[i].peer), Stop(c)}
    <3>1. cd[c].downloading /\ cd[c].current = agenda[k].peer
      BY <2>2, <2>3, <2>4
    <3>2. PICK j \in 1 .. k - 1 : agenda[j] \in {Lose(c, agenda[k].peer), Stop(c)}
      BY <1>2, <2>1, <2>2, <3>1 DEF AgendaSafe, ForgottenStops
    <3>3. CASE j = 1
      <4>1. PICK m \in 1 .. Len(tasks) : tasks[m] = Stop(c)
        BY <2>4, <3>1, <3>2, <3>3
      <4>2. agenda'[m] = Stop(c) /\ m \in 1 .. i - 1
        BY <1>2, <2>2, <4>1, Continued
      <4> QED
        BY <4>2
    <3>4. CASE j # 1
      <4>1. j \in 2 .. Len(agenda) /\ Len(tasks) + j - 1 \in 1 .. i - 1
        BY <1>2, <2>2, <3>2, <3>4
      <4>2. agenda'[Len(tasks) + j - 1] = agenda[j]
        BY <4>1, Continued
      <4> QED
        BY <2>2, <3>2, <4>1, <4>2
    <3> QED
      BY <3>3, <3>4
  <2> QED
    BY <2>3, <2>4
<1> QED
  BY <1>3, <1>4, <1>5, <1>6 DEF AgendaSafe

(* A handler begins that does not take a peer from a transfer.             *)
LEMMA AgendaBegins ==
  ASSUME AgendaSafe, NEW tasks \in Seq(Tasks), Handle(tasks),
         \A f \in Files : file'[f] = "DELETED" <=> file[f] = "DELETED",
         \A i \in 1 .. Len(tasks) : /\ tasks[i].op \in {"wait", "end"} => i = 1
                                    /\ tasks[i].op \notin {"pick", "forget"},
         \A c \in Chunks : cd'[c].downloading => cd[c].downloading
  PROVE  AgendaSafe'
<1>1. agenda = <<>> /\ agenda' = tasks /\ DOMAIN tasks = 1 .. Len(tasks)
  BY DEF Handle
<1>2. HeadOnly' /\ PickAlive' /\ ForgottenStops'
  BY <1>1 DEF HeadOnly, PickAlive, ForgottenStops
<1>3. DeletedStops'
  <2>1. \A c \in Chunks : FileOf[c] \in Files
    BY TransferAssumption
  <2> QED
    BY <1>1, <2>1 DEF AgendaSafe, DeletedStops
<1> QED
  BY <1>2, <1>3 DEF AgendaSafe

(* A thread of the pool does not touch what the main thread has left.      *)
LEMMA AgendaStays ==
  ASSUME AgendaSafe, agenda' = agenda, agenda \in Seq(Tasks),
         \A f \in Files : file'[f] = "DELETED" <=> file[f] = "DELETED",
         \A p \in Peers : peer[p] # "up" => peer'[p] # "up",
         \A c \in Chunks : /\ cd'[c].downloading = cd[c].downloading
                           /\ cd'[c].current = cd[c].current
  PROVE  AgendaSafe'
<1>1. HeadOnly'
  BY DEF AgendaSafe, HeadOnly
<1>2. PickAlive'
  BY TaskMembers DEF AgendaSafe, PickAlive
<1>3. DeletedStops'
  <2>1. \A c \in Chunks : FileOf[c] \in Files
    BY TransferAssumption
  <2> QED
    BY <2>1 DEF AgendaSafe, DeletedStops
<1>4. ForgottenStops'
  BY TaskMembers DEF AgendaSafe, ForgottenStops
<1> QED
  BY <1>1, <1>2, <1>3, <1>4 DEF AgendaSafe

-----------------------------------------------------------------------------
(* The steps that leave the transfers as they are.                         *)

PoolTyped ==
  /\ thread \in [Threads -> Thread]
  /\ activeThreads \in Seq(Threads) /\ inactiveThreads \in Seq(Threads)
  /\ posted \in Seq(Threads)

PeersTyped == peer \in [Peers -> {"up", "blocked", "dead"}]

LEMMA QuietStep ==
  ASSUME IInv, Keeps(Now, Now'), occupied' = occupied, running' = running,
         PeersTyped', PoolTyped', agenda' \in Seq(Tasks), AgendaSafe',
         \A c \in Chunks : Active(c)' <=> Active(c)
  PROVE  IInv'
<1>1. Now' \in Transfers /\ SameTransfers(Now, Now') /\ (Covers(Now) => Covers(Now'))
  BY DEF Keeps
<1>2. LinksCover' /\ Exclusive' /\ Counted'
  <2>1. \A c \in Chunks : /\ cd'[c].current = cd[c].current
                          /\ cd'[c].request # "none" => cd[c].request # "none"
                          /\ cd'[c].slots = cd[c].slots
    BY <1>1 DEF SameTransfers, Now
  <2>2. Covers(Now')
    BY <1>1, CoversIsLinksCover DEF IInv
  <2> QED
    BY <2>1, <2>2, TransfersStay DEF IInv
<1>3. /\ cd' \in [Chunks -> ChunkDownloader] /\ file' \in [Files -> Status]
      /\ links' \in [Peers -> Nat]
  <2>1. Now'.cd = cd' /\ Now'.file = file' /\ Now'.links = links'
    BY DEF Now
  <2> QED
    BY <1>1, <2>1 DEF Transfers
<1>4. TypeOK'
  BY <1>3 DEF TypeOK, PeersTyped, PoolTyped, IInv
<1> QED
  BY <1>2, <1>4 DEF IInv

LEMMA QuietTask ==
  ASSUME IInv, agenda # <<>>, agenda[1].op \notin {"wait", "end"},
         NEW tasks \in Seq(Tasks), Continue(tasks),
         \A i \in 1 .. Len(tasks) : /\ tasks[i].op \notin {"wait", "end", "forget"}
                                    /\ tasks[i].op = "pick" => file[tasks[i].file] # "DELETED",
         Keeps(Now, Now'), occupied' = occupied, running' = running, peer' = peer, PoolTyped',
         \A c \in Chunks : cd[c].downloading => agenda[1] # Stop(c),
         \A c \in Chunks : cd[c].downloading /\ agenda[1] = Lose(c, cd[c].current) =>
           \E i \in 1 .. Len(tasks) : tasks[i] = Stop(c)
  PROVE  IInv'
<1>1. agenda \in Seq(Tasks) /\ AgendaSafe /\ HeadOnly /\ PeersTyped
  BY DEF IInv, TypeOK, AgendaSafe, PeersTyped
<1>2. /\ \A c \in Chunks : cd'[c].downloading = cd[c].downloading /\ cd'[c].current = cd[c].current
      /\ \A f \in Files : file'[f] = "DELETED" <=> file[f] = "DELETED"
  BY DEF Keeps, SameTransfers, SameDeleted, Now
<1>3. agenda' \in Seq(Tasks)
  BY <1>1, Continued
<1>4. AgendaSafe'
  BY <1>1, <1>2, AgendaGoesOn
<1>5. \A c : ~Ending(c)'
  BY <1>1, NoneEnding
<1>6. \A c \in Chunks : Active(c)' <=> Active(c)
  BY <1>2, <1>5 DEF Active, Ending
<1>7. PeersTyped'
  BY <1>1 DEF PeersTyped
<1> QED
  BY <1>3, <1>4, <1>6, <1>7, QuietStep

LEMMA QuietEvent ==
  ASSUME IInv, NEW tasks \in Seq(Tasks), Handle(tasks),
         \A i \in 1 .. Len(tasks) : /\ tasks[i].op \notin {"wait", "pick", "forget"}
                                    /\ tasks[i].op = "end" => i = 1 /\ cd[tasks[i].chunk].downloading,
         Keeps(Now, Now'), occupied' = occupied, running' = running, PeersTyped', PoolTyped'
  PROVE  IInv'
<1>1. agenda = <<>> /\ agenda' = tasks /\ AgendaSafe
  BY DEF IInv, Handle
<1>2. /\ \A c \in Chunks : cd'[c].downloading = cd[c].downloading
      /\ \A f \in Files : file'[f] = "DELETED" <=> file[f] = "DELETED"
  BY DEF Keeps, SameTransfers, SameDeleted, Now
<1>3. AgendaSafe'
  BY <1>1, <1>2, AgendaBegins
<1>4. \A c \in Chunks : Active(c)' <=> Active(c)
  <2>1. ASSUME NEW c \in Chunks, Ending(c)'
        PROVE  cd[c].downloading
    <3>1. tasks # <<>> /\ tasks[1].op \in {"wait", "end"} /\ tasks[1].chunk = c
      BY <1>1, <2>1 DEF Ending
    <3>2. 1 \in 1 .. Len(tasks)
      BY <3>1
    <3> QED
      BY <3>1, <3>2
  <2> QED
    BY <1>1, <1>2, <2>1 DEF Active, Ending
<1> QED
  BY <1>1, <1>3, <1>4, QuietStep

LEMMA QuietWorker ==
  ASSUME IInv, agenda' = agenda, Keeps(Now, Now'), occupied' = occupied, running' = running,
         PeersTyped', PoolTyped', \A p \in Peers : peer[p] # "up" => peer'[p] # "up"
  PROVE  IInv'
<1>1. /\ \A c \in Chunks : cd'[c].downloading = cd[c].downloading /\ cd'[c].current = cd[c].current
      /\ \A f \in Files : file'[f] = "DELETED" <=> file[f] = "DELETED"
  BY DEF Keeps, SameTransfers, SameDeleted, Now
<1>2. agenda \in Seq(Tasks) /\ AgendaSafe
  BY DEF IInv, TypeOK
<1>3. AgendaSafe'
  BY <1>1, <1>2, AgendaStays
<1>4. \A c \in Chunks : Active(c)' <=> Active(c)
  BY <1>1 DEF Active, Ending
<1> QED
  BY <1>2, <1>3, <1>4, QuietStep

(* Three ways for the transfers to be kept.                                *)
LEMMA UnchangedKeeps ==
  ASSUME TypeOK, UNCHANGED <<cd, links, file>>
  PROVE  Keeps(Now, Now')
<1>1. Now' = Now /\ Now \in Transfers
  BY NowTyped DEF Now
<1> QED
  BY <1>1 DEF Keeps, SameTransfers, SameDeleted

LEMMA BecomeKeeps ==
  ASSUME NEW x, Keeps(Now, x), Become(x)
  PROVE  Keeps(Now, Now')
<1>1. x = [cd |-> x.cd, links |-> x.links, file |-> x.file]
  BY DEF Keeps, Transfers
<1>2. Now' = x
  BY <1>1 DEF Become, Now
<1> QED
  BY <1>2

(* The chunks change, their peers and transfers do not.                    *)
LEMMA ChunksKeep ==
  ASSUME TypeOK, cd' \in [Chunks -> ChunkDownloader], UNCHANGED <<links, file>>,
         \A c \in Chunks : /\ cd'[c].downloading = cd[c].downloading
                           /\ cd'[c].current = cd[c].current
                           /\ cd'[c].request # "none" => cd[c].request # "none"
                           /\ cd'[c].slots = cd[c].slots
                           /\ cd'[c].peers = cd[c].peers
  PROVE  Keeps(Now, Now')
<1>1. Now \in Transfers /\ Now' \in Transfers
  BY NowTyped DEF Now, TypeOK, Transfers
<1>2. SameTransfers(Now, Now') /\ SameDeleted(Now, Now')
  BY DEF SameTransfers, SameDeleted, Now
<1>3. Covers(Now) => Covers(Now')
  BY <1>1, SamePeersCover DEF Now
<1> QED
  BY <1>1, <1>2, <1>3 DEF Keeps

-----------------------------------------------------------------------------
(* The steps of a handler.                                                 *)

LEMMA PoolStays ==
  ASSUME IInv, UNCHANGED pool
  PROVE  PoolTyped'
BY DEF IInv, TypeOK, PoolTyped, pool

LEMMA NowTask ==
  ASSUME IInv, NEW op, Task(op)
  PROVE  /\ TypeOK /\ agenda # <<>>
         /\ agenda[1] \in Tasks /\ Head(agenda) = agenda[1] /\ agenda[1].op = op
BY HeadIsTask DEF IInv, TypeOK, Task

(* A step that stops no transfer and takes no peer from a chunk at once.   *)
LEMMA PlainTask ==
  ASSUME IInv, NEW op, Task(op), op \notin {"wait", "end", "stop", "lose"},
         NEW tasks \in Seq(Tasks), Continue(tasks),
         \A i \in 1 .. Len(tasks) : /\ tasks[i].op \notin {"wait", "end", "forget"}
                                    /\ tasks[i].op = "pick" => file[tasks[i].file] # "DELETED",
         Keeps(Now, Now'), occupied' = occupied, running' = running, peer' = peer, PoolTyped'
  PROVE  IInv'
<1>1. agenda # <<>> /\ agenda[1].op \notin {"wait", "end", "stop", "lose"}
  BY NowTask
<1>2. \A c, p : agenda[1] # Stop(c) /\ agenda[1] # Lose(c, p)
  BY <1>1 DEF Stop, Lose
<1> QED
  BY <1>1, <1>2, QuietTask

LEMMA PlainEnd ==
  ASSUME IInv, NEW op, Task(op), op \notin {"wait", "end", "stop", "lose"}, Continue(<<>>),
         Keeps(Now, Now'), occupied' = occupied, running' = running, peer' = peer, PoolTyped'
  PROVE  IInv'
<1> DEFINE tasks == <<>>
<1>1. tasks \in Seq(Tasks) /\ Len(tasks) = 0 /\ Continue(tasks)
  OBVIOUS
<1> HIDE DEF tasks
<1>2. \A i \in 1 .. Len(tasks) : FALSE
  BY <1>1
<1> QED
  BY <1>1, <1>2, PlainTask, Zenon

LEMMA ScanTheQueueKeeps == ASSUME IInv, ScanTheQueue PROVE IInv'
<1> DEFINE t == Loop(1, {p \in Peers : links[p] > 0} \ occupied)
<1>1. Task("scan") /\ Continue(<<t>>) /\ UNCHANGED <<cd, links, file>>
  BY DEF ScanTheQueue
<1>2. t \in Tasks /\ t.op = "loop"
  <2>1. 1 \in 1 .. NbFiles + 1
    BY TransferAssumption
  <2>2. t \in Tasks
    BY <2>1, TasksTyped
  <2> QED
    BY <2>2 DEF Loop
<1>3. Keeps(Now, Now') /\ PoolTyped'
  BY <1>1, UnchangedKeeps, PoolStays DEF IInv, ScanTheQueue
<1> HIDE DEF t
<1>4. <<t>> \in Seq(Tasks) /\ \A i \in 1 .. Len(<<t>>) : <<t>>[i] = t
  BY <1>2
<1> QED
  BY <1>1, <1>2, <1>3, <1>4, PlainTask DEF ScanTheQueue

(* A task of each chunk, then others.                                      *)
LEMMA TasksThen ==
  ASSUME NEW s \in [Chunks -> Tasks], NEW u \in Seq(Tasks)
  PROVE  /\ s \o u \in Seq(Tasks)
         /\ \A c \in Chunks : c \in DOMAIN (s \o u) /\ (s \o u)[c] = s[c]
         /\ \A i \in 1 .. Len(s \o u) :
              \/ i \in Chunks /\ (s \o u)[i] = s[i]
              \/ i > NbChunks /\ \E j \in 1 .. Len(u) : (s \o u)[i] = u[j]
<1>1. s \in Seq(Tasks) /\ Len(s) = NbChunks /\ NbChunks \in Nat /\ Chunks = 1 .. NbChunks
  BY TasksOfChunks, TransferAssumption DEF Chunks
<1> QED
  BY <1>1

LEMMA ScanLoopKeeps == ASSUME IInv, ScanLoop PROVE IInv'
<1> DEFINE f == agenda[1].file
           left == agenda[1].left
           upTo(c) == {d \in ChunksOf(f) : d <= c}
<1>1. /\ Task("loop") /\ UNCHANGED <<cd, links, file>> /\ Head(agenda) = agenda[1]
      /\ UNCHANGED <<occupied, running, peer, pool>>
  BY NowTask DEF ScanLoop
<1>2. f \in 1 .. NbFiles + 1 /\ left \in SUBSET Peers
  BY <1>1, NowTask, TaskMembers
<1>3. Keeps(Now, Now') /\ PoolTyped'
  BY <1>1, UnchangedKeeps, PoolStays DEF IInv
<1>4. ASSUME NEW tasks \in Seq(Tasks), Continue(tasks),
             \A i \in 1 .. Len(tasks) : /\ tasks[i].op \notin {"wait", "end", "forget"}
                                        /\ tasks[i].op = "pick" => file[tasks[i].file] # "DELETED"
      PROVE  IInv'
  BY <1>1, <1>3, <1>4, PlainTask
<1>5. ASSUME f \in Files, file[f] \in {"QUEUED", "DOWNLOADING"},
             NEW S \in SUBSET Chunks, NEW A \in SUBSET Chunks,
             Continue(ForEach(S, Ask) \o <<Pick(f, left, A)>>)
      PROVE  IInv'
  <2> DEFINE s == ForEach(S, Ask)
             u == Pick(f, left, A)
  <2>1. s \in [Chunks -> Tasks] /\ \A c \in Chunks : s[c].op \in {"ask", "nothing"}
    BY TasksTyped DEF ForEach, Ask, Nothing
  <2>2. u \in Tasks /\ u.op = "pick" /\ u.file = f
    <3>1. u \in Tasks
      BY <1>2, <1>5, TasksTyped
    <3> QED
      BY <3>1 DEF Pick
  <2> HIDE DEF s, u
  <2>3. <<u>> \in Seq(Tasks) /\ \A j \in 1 .. Len(<<u>>) : <<u>>[j] = u
    BY <2>2
  <2>4. /\ s \o <<u>> \in Seq(Tasks)
        /\ \A i \in 1 .. Len(s \o <<u>>) : \/ (s \o <<u>>)[i].op \in {"ask", "nothing"}
                                           \/ (s \o <<u>>)[i] = u
    BY <2>1, <2>3, TasksThen
  <2>5. Continue(s \o <<u>>)
    BY <1>5 DEF s, u
  <2> QED
    BY <1>4, <1>5, <2>2, <2>4, <2>5
<1>6. CASE Continue(<<>>)
  BY <1>1, <1>3, <1>6, PlainEnd
<1>7. CASE f <= NbFiles /\ file[f] \notin {"QUEUED", "DOWNLOADING"} /\ Continue(<<Loop(f + 1, left)>>)
  <2> DEFINE u == Loop(f + 1, left)
  <2>1. f + 1 \in 1 .. NbFiles + 1
    BY <1>2, <1>7, TransferAssumption
  <2>2. u \in Tasks /\ u.op = "loop"
    <3>1. u \in Tasks
      BY <1>2, <2>1, TasksTyped
    <3> QED
      BY <3>1 DEF Loop
  <2> HIDE DEF u
  <2>3. <<u>> \in Seq(Tasks) /\ \A i \in 1 .. Len(<<u>>) : <<u>>[i] = u
    BY <2>2
  <2>4. Continue(<<u>>)
    BY <1>7 DEF u
  <2> QED
    BY <1>4, <2>2, <2>3, <2>4
<1>8. CASE f <= NbFiles /\ file[f] \in {"QUEUED", "DOWNLOADING"}
           /\ \/ Continue(ForEach(ChunksOf(f), Ask) \o <<Pick(f, left, ChunksOf(f))>>)
              \/ \E c \in Ready(f) : Continue(ForEach(upTo(c), Ask) \o <<Pick(f, left, {c})>>)
  <2>1. f \in Files /\ ChunksOf(f) \in SUBSET Chunks /\ Ready(f) \subseteq Chunks
    BY <1>2, <1>8, TransferAssumption DEF Files, ChunksOf, Ready
  <2>2. \A c \in Ready(f) : upTo(c) \in SUBSET Chunks /\ {c} \in SUBSET Chunks
    BY <2>1
  <2> HIDE DEF f, left, upTo
  <2> QED
    BY <1>5, <1>8, <2>1, <2>2
<1>9. \/ Continue(<<>>)
      \/ f <= NbFiles /\ file[f] \notin {"QUEUED", "DOWNLOADING"} /\ Continue(<<Loop(f + 1, left)>>)
      \/ /\ f <= NbFiles /\ file[f] \in {"QUEUED", "DOWNLOADING"}
         /\ \/ Continue(ForEach(ChunksOf(f), Ask) \o <<Pick(f, left, ChunksOf(f))>>)
            \/ \E c \in Ready(f) : Continue(ForEach(upTo(c), Ask) \o <<Pick(f, left, {c})>>)
  BY <1>1, Zenon DEF ScanLoop
<1> QED
  BY <1>6, <1>7, <1>8, <1>9

LEMMA AskReadyKeeps == ASSUME IInv, AskReady PROVE IInv'
<1> DEFINE c == agenda[1].chunk
           x == IF cd[c].downloading \/ cd[c].complete THEN Now ELSE DropAndTell(Now, c, Unavailable)
<1>1. /\ Task("ask") /\ Continue(<<>>) /\ Become(x)
      /\ UNCHANGED <<occupied, running, peer, pool>>
  BY NowTask DEF AskReady
<1>2. c \in Chunks /\ Now \in Transfers /\ Unavailable \in SUBSET Peers
  BY <1>1, NowTask, TaskMembers, NowTyped DEF Unavailable
<1>3. Keeps(Now, Now) /\ Keeps(Now, DropAndTell(Now, c, Unavailable))
  BY <1>2, DropAndTellKeeps DEF Keeps, SameTransfers, SameDeleted
<1>4. Keeps(Now, x)
  BY <1>3
<1> HIDE DEF x, c
<1>5. Keeps(Now, Now') /\ PoolTyped'
  BY <1>1, <1>4, BecomeKeeps, PoolStays
<1> QED
  BY <1>1, <1>5, PlainEnd

LEMMA LearnPeerKeeps == ASSUME IInv, LearnPeer PROVE IInv'
<1> DEFINE x == Remember(Now, agenda[1].chunk, agenda[1].peer)
<1>1. /\ Task("learn") /\ Continue(<<>>) /\ Become(x)
      /\ UNCHANGED <<occupied, running, peer, pool>>
  BY NowTask DEF LearnPeer
<1>2. agenda[1].chunk \in Chunks /\ agenda[1].peer \in Peers /\ Now \in Transfers
  BY <1>1, NowTask, TaskMembers, NowTyped
<1>3. Keeps(Now, x)
  BY <1>2, RememberKeeps
<1> HIDE DEF x
<1>4. Keeps(Now, Now') /\ PoolTyped'
  BY <1>1, <1>3, BecomeKeeps, PoolStays
<1> QED
  BY <1>1, <1>4, PlainEnd

LEMMA UpdateFileKeeps == ASSUME IInv, UpdateFile PROVE IInv'
<1> DEFINE x == UpdateStatus(Now, agenda[1].file)
<1>1. /\ Task("update") /\ Continue(<<>>) /\ Become(x)
      /\ UNCHANGED <<occupied, running, peer, pool>>
  BY NowTask DEF UpdateFile
<1>2. agenda[1].file \in Files /\ Now \in Transfers
  BY <1>1, NowTask, TaskMembers, NowTyped
<1>3. Keeps(Now, x)
  BY <1>2, UpdateStatusKeeps
<1> HIDE DEF x
<1>4. Keeps(Now, Now') /\ PoolTyped'
  BY <1>1, <1>3, BecomeKeeps, PoolStays
<1> QED
  BY <1>1, <1>4, PlainEnd

LEMMA MeetPeerKeeps == ASSUME IInv, MeetPeer PROVE IInv'
<1> DEFINE tasks == IF agenda[1].peer \in occupied THEN <<>> ELSE <<Scan>>
<1>1. /\ Task("meet") /\ Continue(tasks) /\ UNCHANGED <<cd, links, file>>
      /\ UNCHANGED <<occupied, running, peer, pool>>
  BY NowTask DEF MeetPeer
<1>2. tasks \in Seq(Tasks) /\ \A i \in 1 .. Len(tasks) : tasks[i].op = "scan"
  <2>1. <<>> \in Seq(Tasks) /\ <<Scan>> \in Seq(Tasks)
    BY TasksTyped
  <2>2. /\ \A i \in 1 .. Len(<<>>) : <<>>[i].op = "scan"
        /\ \A i \in 1 .. Len(<<Scan>>) : <<Scan>>[i].op = "scan"
    BY DEF Scan
  <2>3. tasks = <<>> \/ tasks = <<Scan>>
    OBVIOUS
  <2> HIDE DEF tasks
  <2> QED
    BY <2>1, <2>2, <2>3
<1> HIDE DEF tasks
<1>3. Keeps(Now, Now') /\ PoolTyped'
  BY <1>1, UnchangedKeeps, PoolStays DEF IInv
<1> QED
  BY <1>1, <1>2, <1>3, PlainTask

LEMMA NextTaskKeeps == ASSUME IInv, NextTask PROVE IInv'
<1>1. Keeps(Now, Now') /\ PoolTyped'
  BY UnchangedKeeps, PoolStays DEF IInv, NextTask
<1> QED
  BY <1>1, PlainEnd DEF NextTask

(* A file whose creation failed was not deleted.                           *)
LEMMA PickNoneKeeps == ASSUME IInv, PickNone PROVE IInv'
<1> DEFINE t == agenda[1]
           u == Loop(t.file + 1, t.left)
<1>1. /\ Task("pick") /\ Continue(<<u>>) /\ UNCHANGED <<cd, links>>
      /\ UNCHANGED <<occupied, running, peer, pool>>
      /\ \/ UNCHANGED file
         \/ file' = [file EXCEPT ![t.file] = "ERROR"]
  BY NowTask DEF PickNone
<1>2. t.file \in Files /\ t.left \in SUBSET Peers /\ t.op = "pick" /\ TypeOK /\ 1 \in DOMAIN agenda
  BY <1>1, NowTask, TaskMembers, HeadIsTask DEF TypeOK
<1>3. file[t.file] # "DELETED"
  BY <1>2 DEF IInv, AgendaSafe, PickAlive
<1>4. <<u>> \in Seq(Tasks) /\ \A i \in 1 .. Len(<<u>>) : <<u>>[i].op = "loop"
  <2>1. t.file + 1 \in 1 .. NbFiles + 1
    BY <1>2, TransferAssumption DEF Files
  <2>2. u \in Tasks
    BY <1>2, <2>1, TasksTyped
  <2>3. u.op = "loop"
    BY DEF Loop
  <2> HIDE DEF u
  <2> QED
    BY <2>2, <2>3
<1>5. file' \in [Files -> Status] /\ \A f \in Files : file'[f] = "DELETED" <=> file[f] = "DELETED"
  BY <1>1, <1>2, <1>3 DEF TypeOK, Status
<1>6. Keeps(Now, Now')
  <2>1. Now \in Transfers /\ Now' \in Transfers
    BY <1>1, <1>2, <1>5, NowTyped DEF Now, TypeOK, Transfers
  <2>2. SameTransfers(Now, Now') /\ SameDeleted(Now, Now')
    BY <1>1, <1>5 DEF SameTransfers, SameDeleted, Now
  <2>3. Covers(Now) => Covers(Now')
    BY <1>1, <2>1, SamePeersCover DEF Now
  <2> QED
    BY <2>1, <2>2, <2>3 DEF Keeps
<1>7. PoolTyped'
  BY <1>1, PoolStays
<1> HIDE DEF u
<1> QED
  BY <1>1, <1>4, <1>6, <1>7, PlainTask

-----------------------------------------------------------------------------
(* The tasks that touch the pool, or a peer.                               *)

LEMMA LeastNatural ==
  ASSUME NEW S \in SUBSET Nat, S # {}
  PROVE  \E n \in S : \A m \in S : n <= m
<1> DEFINE R == {p \in Nat \X Nat : p[1] < p[2]}
<1>1. IsWellFoundedOn(R, Nat)
  BY NatLessThanWellFounded, Zenon DEF OpToRel
<1>2. \A x, y \in Nat : x < y => <<x, y>> \in R
  OBVIOUS
<1> HIDE DEF R
<1>3. PICK n \in S : \A m \in S : ~ (<<m, n>> \in R)
  BY <1>1, WFMin, Zenon
<1>4. ASSUME NEW m \in S
      PROVE  n <= m
  <2>1. n \in Nat /\ m \in Nat
    OBVIOUS
  <2>2. ~ (m < n)
    BY <1>2, <1>3, <2>1
  <2> QED
    BY <2>1, <2>2
<1> QED
  BY <1>4

LEMMA RemoveFirstTyped ==
  ASSUME NEW S, NEW s \in Seq(S), NEW e
  PROVE  RemoveFirst(s, e) \in Seq(S)
<1> DEFINE I == {i \in 1 .. Len(s) : s[i] = e}
<1>1. CASE I = {}
  BY <1>1 DEF RemoveFirst
<1>2. CASE I # {}
  <2>1. I \in SUBSET Nat
    OBVIOUS
  <2>2. Min(I) \in I
    BY <1>2, <2>1, LeastNatural DEF Min
  <2>3. SelectInSeq(s, LAMBDA v : v = e) = Min(I)
    BY <1>2, Zenon DEF SelectInSeq
  <2>4. RemoveFirst(s, e) = RemoveAt(s, Min(I))
    <3>1. \E i \in 1 .. Len(s) : s[i] = e
      BY <1>2
    <3> QED
      BY <2>3, <3>1, Zenon DEF RemoveFirst
  <2>5. ASSUME NEW i \in 1 .. Len(s)
        PROVE  RemoveAt(s, i) \in Seq(S)
    <3>1. SubSeq(s, 1, i - 1) \in Seq(S) /\ SubSeq(s, i + 1, Len(s)) \in Seq(S)
      BY SubSeqProperties
    <3> QED
      BY <3>1 DEF RemoveAt
  <2> QED
    BY <2>2, <2>4, <2>5
<1> QED
  BY <1>1, <1>2

LEMMA RetireThreadKeeps == ASSUME IInv, RetireThread PROVE IInv'
<1> DEFINE t == agenda[1].thread
<1>1. /\ Task("retire") /\ Continue(<<>>) /\ UNCHANGED <<cd, file, links, occupied, running, peer, posted>>
      /\ activeThreads' = RemoveFirst(activeThreads, t)
      /\ inactiveThreads' = Append(inactiveThreads, t)
      /\ thread' = [thread EXCEPT ![t].runnable = None]
  BY NowTask DEF RetireThread
<1>2. t \in Threads /\ TypeOK
  BY <1>1, NowTask, TaskMembers
<1> HIDE DEF t
<1>3. PoolTyped'
  <2>1. activeThreads' \in Seq(Threads)
    BY <1>1, <1>2, RemoveFirstTyped DEF TypeOK
  <2>2. inactiveThreads' \in Seq(Threads) /\ posted' \in Seq(Threads)
    BY <1>1, <1>2 DEF TypeOK
  <2>3. thread' \in [Threads -> Thread]
    BY <1>1, <1>2 DEF TypeOK, Thread
  <2> QED
    BY <2>1, <2>2, <2>3 DEF PoolTyped
<1>4. Keeps(Now, Now')
  BY <1>1, <1>2, UnchangedKeeps
<1> QED
  BY <1>1, <1>3, <1>4, PlainEnd

LEMMA DestroyFileKeeps == ASSUME IInv, DestroyFile PROVE IInv'
<1> DEFINE gone == ChunksOf(agenda[1].file)
           x == Without(Now, gone, Peers)
<1>1. /\ Task("destroy") /\ Continue(<<>>) /\ Become(x)
      /\ thread' = [t \in Threads |-> IF thread[t].runnable \in gone
                                      THEN [thread[t] EXCEPT !.runnable = None]
                                      ELSE thread[t]]
      /\ UNCHANGED <<occupied, running, peer, activeThreads, inactiveThreads, posted>>
  BY NowTask DEF DestroyFile
<1>2. gone \in SUBSET Chunks /\ TypeOK /\ Now \in Transfers
  BY <1>1, NowTask, NowTyped DEF ChunksOf
<1>3. Keeps(Now, x)
  BY <1>2, WithoutKeeps
<1> HIDE DEF x, gone
<1>4. Keeps(Now, Now')
  BY <1>1, <1>3, BecomeKeeps
<1>5. PoolTyped'
  <2>1. thread' \in [Threads -> Thread]
    BY <1>1, <1>2 DEF TypeOK, Thread
  <2> QED
    BY <1>1, <1>2, <2>1 DEF TypeOK, PoolTyped
<1> QED
  BY <1>1, <1>4, <1>5, PlainEnd

(* The transfer from a peer that is forgotten was stopped before.          *)
LEMMA ForgetPeerKeeps == ASSUME IInv, ForgetPeer PROVE IInv'
<1> DEFINE p == agenda[1].peer
<1>1. /\ Task("forget") /\ Continue(<<>>) /\ UNCHANGED <<cd, file, links, running, peer, pool>>
      /\ occupied' = occupied \ {p}
  BY NowTask DEF ForgetPeer
<1>2. p \in Peers /\ TypeOK /\ 1 \in DOMAIN agenda /\ agenda[1].op = "forget"
  BY <1>1, NowTask, TaskMembers, HeadIsTask DEF TypeOK
<1>3. p \notin occupied
  <2>1. SUFFICES ASSUME p \in occupied PROVE FALSE
    OBVIOUS
  <2>2. PICK c \in Actives : cd[c].current = p
    BY <2>1 DEF IInv, Exclusive
  <2>3. c \in Chunks /\ cd[c].downloading
    BY <1>2, <2>2 DEF Actives, Active, Ending
  <2>4. \E j \in 1 .. 1 - 1 : agenda[j] \in {Lose(c, p), Stop(c)}
    BY <1>2, <2>2, <2>3 DEF IInv, AgendaSafe, ForgottenStops
  <2> QED
    BY <2>4
<1>4. occupied' = occupied
  BY <1>1, <1>3
<1>5. Keeps(Now, Now') /\ PoolTyped'
  BY <1>1, <1>2, UnchangedKeeps, PoolStays
<1> QED
  BY <1>1, <1>4, <1>5, PlainEnd

(* The failure of a chunk that loses its peer does not disturb the rest.   *)
LEMMA LosePeerKeeps == ASSUME IInv, LosePeer PROVE IInv'
<1> DEFINE c == agenda[1].chunk
           p == agenda[1].peer
           was == cd[c].current = p
           x == DropAndTell(Now, c, {p})
           y == [x EXCEPT !.cd[c].status = "ERROR"]
           tasks == IF was THEN <<Stop(c)>> ELSE <<>>
<1>1. /\ Task("lose") /\ Become(IF was THEN y ELSE x) /\ Continue(tasks)
      /\ UNCHANGED <<occupied, running, peer, pool>>
  BY NowTask DEF LosePeer
<1>2. /\ c \in Chunks /\ p \in Peers /\ Now \in Transfers /\ agenda # <<>>
      /\ agenda[1] = Lose(c, p) /\ agenda[1].op = "lose"
  BY <1>1, NowTask, TaskMembers, NowTyped
<1>3. Keeps(Now, x) /\ x \in Transfers
  <2>1. Keeps(Now, x)
    BY <1>2, DropAndTellKeeps
  <2> HIDE DEF x
  <2> QED
    BY <2>1 DEF Keeps
<1>4. Keeps(x, y)
  <2> DEFINE cds == [x.cd EXCEPT ![c] = [x.cd[c] EXCEPT !.status = "ERROR"]]
  <2>1. y = [x EXCEPT !.cd = cds]
    OBVIOUS
  <2> HIDE DEF x, c
  <2>2. cds \in [Chunks -> ChunkDownloader]
    <3>1. x.cd \in [Chunks -> ChunkDownloader]
      BY <1>3 DEF Transfers
    <3>2. [x.cd[c] EXCEPT !.status = "ERROR"] \in ChunkDownloader
      BY <1>2, <3>1 DEF ChunkDownloader
    <3> QED
      BY <3>1, <3>2
  <2>3. \A d \in Chunks : /\ cds[d].downloading = x.cd[d].downloading
                          /\ cds[d].current = x.cd[d].current
                          /\ cds[d].request = x.cd[d].request
                          /\ cds[d].slots = x.cd[d].slots
                          /\ cds[d].peers = x.cd[d].peers
    BY <1>2, <1>3 DEF Transfers, ChunkDownloader
  <2> HIDE DEF y, cds
  <2>4. y = [cd |-> cds, links |-> x.links, file |-> x.file]
    BY <1>3, <2>1 DEF Transfers
  <2>5. y \in Transfers /\ y.cd = cds /\ y.links = x.links /\ y.file = x.file
    BY <1>3, <2>2, <2>4 DEF Transfers
  <2>6. SameTransfers(x, y) /\ SameDeleted(x, y)
    BY <2>3, <2>5 DEF SameTransfers, SameDeleted
  <2>7. Covers(x) => Covers(y)
    BY <1>3, <2>3, <2>5, SamePeersCover
  <2> QED
    BY <2>5, <2>6, <2>7 DEF Keeps
<1>5. Keeps(Now, Now')
  <2> HIDE DEF x, y
  <2>1. Keeps(Now, IF was THEN y ELSE x)
    BY <1>3, <1>4, KeepsTransitive
  <2> QED
    BY <1>1, <2>1, BecomeKeeps
<1> HIDE DEF x, y
<1>6. /\ tasks \in Seq(Tasks) /\ \A i \in 1 .. Len(tasks) : tasks[i].op = "stop"
      /\ was => 1 \in 1 .. Len(tasks) /\ tasks[1] = Stop(c)
  <2>1. Stop(c) \in Tasks /\ Stop(c).op = "stop"
    BY <1>2, TasksTyped DEF Stop
  <2> HIDE DEF c
  <2>2. CASE was
    BY <2>1, <2>2
  <2>3. CASE ~was
    BY <2>3
  <2> QED
    BY <2>2, <2>3
<1>7. \A d \in Chunks : agenda[1] # Stop(d)
  BY <1>2 DEF Stop
<1>8. \A d \in Chunks : agenda[1] = Lose(d, cd[d].current) =>
        \E i \in 1 .. Len(tasks) : tasks[i] = Stop(d)
  <2>1. ASSUME NEW d \in Chunks, agenda[1] = Lose(d, cd[d].current)
        PROVE  was /\ d = c
    BY <1>2, <2>1 DEF Lose
  <2> QED
    BY <1>6, <2>1
<1>9. PoolTyped'
  BY <1>1, PoolStays
<1> HIDE DEF tasks, c, p
<1> QED
  BY <1>1, <1>2, <1>5, <1>6, <1>7, <1>8, <1>9, QuietTask

-----------------------------------------------------------------------------
(* The tasks that start, stop and end a transfer.                          *)

LEMMA OneTask ==
  ASSUME NEW u \in Tasks
  PROVE  /\ <<u>> \in Seq(Tasks) /\ Len(<<u>>) = 1 /\ <<u>>[1] = u
         /\ \A i \in 1 .. Len(<<u>>) : i = 1 /\ <<u>>[i] = u
OBVIOUS

LEMMA GoesOnWith ==
  ASSUME agenda \in Seq(Tasks), agenda # <<>>, NEW u \in Tasks, Continue(<<u>>)
  PROVE  agenda' \in Seq(Tasks) /\ agenda' # <<>> /\ agenda'[1] = u
<1> DEFINE tasks == <<u>>
<1>1. tasks \in Seq(Tasks) /\ Len(tasks) = 1 /\ tasks[1] = u /\ Continue(tasks)
  BY OneTask
<1> HIDE DEF tasks
<1>2. agenda' \in Seq(Tasks) /\ \A i \in 1 .. Len(tasks) : i \in DOMAIN agenda' /\ agenda'[i] = tasks[i]
  BY <1>1, Continued
<1>3. 1 \in DOMAIN agenda' /\ agenda'[1] = u
  BY <1>1, <1>2
<1> QED
  BY <1>2, <1>3

LEMMA WaitRunnableFinishedKeeps == ASSUME IInv, WaitRunnableFinished PROVE IInv'
<1> DEFINE c == agenda[1].chunk
           u == End(c)
<1>1. /\ Task("wait") /\ Continue(<<u>>) /\ UNCHANGED <<cd, file, links, occupied, running, peer, pool>>
  BY NowTask DEF WaitRunnableFinished
<1>2. /\ c \in Chunks /\ TypeOK /\ agenda # <<>> /\ agenda \in Seq(Tasks)
      /\ agenda[1].op = "wait" /\ AgendaSafe
  BY <1>1, NowTask, TaskMembers DEF IInv, TypeOK
<1>3. u \in Tasks /\ u.op = "end" /\ u.chunk = c
  <2>1. u \in Tasks
    BY <1>2, TasksTyped
  <2> QED
    BY <2>1 DEF End
<1> HIDE DEF u
<1>4. /\ <<u>> \in Seq(Tasks) /\ Len(<<u>>) = 1 /\ <<u>>[1] = u
      /\ \A i \in 1 .. Len(<<u>>) : i = 1 /\ <<u>>[i] = u
  BY <1>3, OneTask
<1>5. agenda' \in Seq(Tasks) /\ agenda' # <<>> /\ agenda'[1] = u
  BY <1>1, <1>2, <1>3, GoesOnWith
<1>6. \A d \in Chunks : agenda[1] # Stop(d) /\ agenda[1] # Lose(d, cd[d].current)
  BY <1>2 DEF Stop, Lose
<1>7. AgendaSafe'
  BY <1>1, <1>2, <1>3, <1>4, <1>6, AgendaGoesOn
<1>8. \A d \in Chunks : Active(d)' <=> Active(d)
  BY <1>1, <1>2, <1>3, <1>5 DEF Active, Ending
<1>9. Keeps(Now, Now') /\ PoolTyped' /\ PeersTyped'
  BY <1>1, <1>2, UnchangedKeeps, PoolStays DEF TypeOK, PeersTyped
<1> QED
  BY <1>1, <1>5, <1>7, <1>8, <1>9, QuietStep

(* A transfer that is stopped keeps its peer until it is ended.            *)
LEMMA StopChunkKeeps == ASSUME IInv, StopChunk PROVE IInv'
<1> DEFINE c == agenda[1].chunk
<1>1. /\ Task("stop") /\ UNCHANGED <<file, links, occupied, running, peer, pool>>
  BY DEF StopChunk
<1>2. /\ c \in Chunks /\ TypeOK /\ agenda # <<>> /\ agenda \in Seq(Tasks) /\ Head(agenda) = agenda[1]
      /\ agenda[1] = Stop(c) /\ agenda[1].op = "stop" /\ AgendaSafe
  BY <1>1, NowTask, TaskMembers DEF IInv, TypeOK
<1>3. /\ \A d \in Chunks : agenda[1] # Lose(d, cd[d].current)
      /\ \A d \in Chunks : agenda[1] = Stop(d) => d = c
  BY <1>2 DEF Stop, Lose
<1>4. CASE ~cd[c].downloading /\ Continue(<<>>) /\ UNCHANGED cd
  <2> DEFINE tasks == <<>>
  <2>1. tasks \in Seq(Tasks) /\ Continue(tasks) /\ \A i \in 1 .. Len(tasks) : FALSE
    BY <1>4
  <2> HIDE DEF tasks
  <2>2. \A d \in Chunks : cd[d].downloading => agenda[1] # Stop(d)
    BY <1>3, <1>4
  <2>3. Keeps(Now, Now') /\ PoolTyped'
    BY <1>1, <1>2, <1>4, UnchangedKeeps, PoolStays
  <2> HIDE DEF c
  <2> QED
    BY <1>1, <1>2, <1>3, <2>1, <2>2, <2>3, QuietTask, Zenon
<1>5. ASSUME cd[c].downloading, cd' = [cd EXCEPT ![c].downloading = FALSE],
             NEW u \in Tasks, u.op \in {"wait", "end"}, u.chunk = c, Continue(<<u>>)
      PROVE  IInv'
  <2>1. /\ <<u>> \in Seq(Tasks) /\ Len(<<u>>) = 1 /\ <<u>>[1] = u
        /\ \A i \in 1 .. Len(<<u>>) : i = 1 /\ <<u>>[i] = u
    BY <1>5, OneTask
  <2>2. agenda' \in Seq(Tasks) /\ agenda' # <<>> /\ agenda'[1] = u
    BY <1>2, <1>5, GoesOnWith
  <2>3. /\ cd' \in [Chunks -> ChunkDownloader]
        /\ \A d \in Chunks : /\ cd'[d].downloading <=> cd[d].downloading /\ d # c
                             /\ cd'[d].current = cd[d].current
                             /\ cd'[d].request = cd[d].request
                             /\ cd'[d].slots = cd[d].slots
                             /\ cd'[d].peers = cd[d].peers
    <3>1. cd \in [Chunks -> ChunkDownloader] /\ c \in Chunks
      BY <1>2 DEF TypeOK
    <3> HIDE DEF c
    <3>2. cd' = [cd EXCEPT ![c] = [cd[c] EXCEPT !.downloading = FALSE]]
      BY <1>5
    <3>3. [cd[c] EXCEPT !.downloading = FALSE] \in ChunkDownloader
      BY <3>1 DEF ChunkDownloader
    <3>4. \A d \in Chunks : cd'[d] = IF d = c THEN [cd[c] EXCEPT !.downloading = FALSE] ELSE cd[d]
      BY <3>1, <3>2
    <3>5. \A d \in Chunks : cd[d] \in ChunkDownloader
      BY <3>1
    <3> QED
      BY <3>1, <3>2, <3>3, <3>4, <3>5 DEF ChunkDownloader
  <2> HIDE DEF c
  <2>4. AgendaSafe'
    <3>1. \A i \in 1 .. Len(<<u>>) : /\ <<u>>[i].op \in {"wait", "end"} => i = 1
                                     /\ <<u>>[i].op # "pick" /\ <<u>>[i].op # "forget"
      BY <1>5, <2>1
    <3>2. /\ \A d \in Chunks : cd'[d].downloading => cd[d].downloading /\ cd'[d].current = cd[d].current
          /\ \A d \in Chunks : cd'[d].downloading => agenda[1] # Stop(d)
      BY <1>3, <2>3
    <3> DEFINE tasks == <<u>>
    <3>3. tasks \in Seq(Tasks) /\ Continue(tasks)
      BY <1>5, <2>1
    <3>4. /\ agenda # <<>> /\ agenda \in Seq(Tasks) /\ AgendaSafe
          /\ peer' = peer /\ file' = file
      BY <1>1, <1>2
    <3> HIDE DEF tasks
    <3>5. \A i \in 1 .. Len(tasks) : /\ tasks[i].op \in {"wait", "end"} => i = 1
                                     /\ tasks[i].op # "pick" /\ tasks[i].op # "forget"
      BY <3>1 DEF tasks
    <3> QED
      BY <1>3, <3>2, <3>3, <3>4, <3>5, AgendaGoesOn
  <2>5. \A d \in Chunks : Active(d)' <=> Active(d)
    BY <1>2, <1>5, <2>2, <2>3 DEF Active, Ending
  <2>6. Covers(Now')
    <3>1. Now \in Transfers /\ Now' \in Transfers
      BY <1>1, <1>2, <2>3, NowTyped DEF Now, Transfers, TypeOK
    <3> QED
      BY <1>1, <2>3, <3>1, SamePeersCover, CoversIsLinksCover DEF IInv, Now
  <2>7. LinksCover' /\ Exclusive' /\ Counted'
    BY <1>1, <2>3, <2>5, <2>6, TransfersStay DEF IInv
  <2>8. TypeOK'
    BY <1>1, <1>2, <2>2, <2>3 DEF TypeOK, pool
  <2> QED
    BY <2>4, <2>7, <2>8 DEF IInv
<1>6. CASE cd[c].downloading /\ cd' = [cd EXCEPT ![c].downloading = FALSE] /\ Continue(<<End(c)>>)
  <2>1. End(c) \in Tasks /\ End(c).op = "end" /\ End(c).chunk = c
    <3>1. End(c) \in Tasks
      BY <1>2, TasksTyped
    <3> QED
      BY <3>1 DEF End
  <2> HIDE DEF c
  <2> QED
    BY <1>5, <1>6, <2>1
<1>7. ASSUME cd[c].downloading, cd' = [cd EXCEPT ![c].downloading = FALSE],
             NEW t \in Threads, Continue(<<Wait(c, t)>>)
      PROVE  IInv'
  <2>1. Wait(c, t) \in Tasks /\ Wait(c, t).op = "wait" /\ Wait(c, t).chunk = c
    <3>1. Wait(c, t) \in Tasks
      BY <1>2, TasksTyped
    <3> QED
      BY <3>1 DEF Wait
  <2> HIDE DEF c
  <2> QED
    BY <1>5, <1>7, <2>1
<1>8. \A i \in ThreadOf(c) : activeThreads[i] \in Threads
  BY <1>2 DEF ThreadOf, TypeOK
<1>9. \/ ~cd[c].downloading /\ Continue(<<>>) /\ UNCHANGED cd
      \/ /\ cd[c].downloading /\ cd' = [cd EXCEPT ![c].downloading = FALSE]
         /\ \/ Continue(<<End(c)>>)
            \/ \E i \in ThreadOf(c) : Continue(<<Wait(c, activeThreads[i])>>)
  BY <1>2, Zenon DEF StopChunk
<1> HIDE DEF c
<1> QED
  BY <1>4, <1>6, <1>7, <1>8, <1>9

(* A chunk begins that was not active, from a peer that was not occupied.  *)
LEMMA PickChunkKeeps == ASSUME IInv, PickChunk PROVE IInv'
<1> DEFINE t == agenda[1]
<1>1. Task("pick") /\ UNCHANGED <<peer, pool>>
  BY DEF PickChunk
<1>2. /\ TypeOK /\ agenda # <<>> /\ agenda \in Seq(Tasks) /\ Head(agenda) = t /\ 1 \in DOMAIN agenda
      /\ t.op = "pick" /\ t.file \in Files /\ t.left \in SUBSET Peers /\ AgendaSafe
  BY <1>1, NowTask, TaskMembers, HeadIsTask DEF IInv, TypeOK
<1>3. PICK c \in Ready(t.file) : \E p \in FreePeers(Now, c) :
        /\ Become(StartDownloading(Now, c, p))
        /\ occupied' = occupied \cup {p}
        /\ running' = running + 1
        /\ Continue(<<Loop(t.file, t.left \ {p})>>)
  BY <1>2, Zenon DEF PickChunk
<1>4. PICK p \in FreePeers(Now, c) :
        /\ Become(StartDownloading(Now, c, p))
        /\ occupied' = occupied \cup {p}
        /\ running' = running + 1
        /\ Continue(<<Loop(t.file, t.left \ {p})>>)
  BY <1>3
<1>5. /\ c \in Chunks /\ FileOf[c] = t.file /\ ~cd[c].downloading /\ cd[c].slots < MaxSlots
      /\ p \in Peers /\ peer[p] = "up" /\ p \notin occupied
  <2>1. c \in Chunks /\ FileOf[c] = t.file /\ ~cd[c].downloading /\ cd[c].slots < MaxSlots
    BY DEF Ready, ChunksOf
  <2>2. p \in Available /\ p \notin occupied
    BY DEF FreePeers
  <2> QED
    BY <2>1, <2>2 DEF Available
<1>6. file[t.file] # "DELETED"
  BY <1>2 DEF AgendaSafe, PickAlive
<1>7. /\ cd' = [cd EXCEPT ![c] = [cd[c] EXCEPT !.current = p, !.downloading = TRUE,
                                              !.request = "sent", !.slots = cd[c].slots + 1]]
      /\ file' = [file EXCEPT ![FileOf[c]] = "DOWNLOADING"]
      /\ links' = links
  BY <1>4, <1>5 DEF Become, StartDownloading, Now
<1>8. [cd[c] EXCEPT !.current = p, !.downloading = TRUE,
                    !.request = "sent", !.slots = cd[c].slots + 1] \in ChunkDownloader
  <2>1. cd[c] \in ChunkDownloader
    BY <1>2, <1>5 DEF TypeOK
  <2>2. cd[c].slots + 1 \in 0 .. MaxSlots
    BY <1>5, <2>1, TransferAssumption DEF ChunkDownloader
  <2> QED
    BY <1>5, <2>1, <2>2 DEF ChunkDownloader
<1>9. /\ cd' \in [Chunks -> ChunkDownloader]
      /\ \A d \in Chunks \ {c} : cd'[d] = cd[d]
      /\ cd'[c].current = p /\ cd'[c].downloading /\ cd'[c].slots = cd[c].slots + 1
      /\ cd'[c].peers = cd[c].peers
  <2>1. cd \in [Chunks -> ChunkDownloader] /\ cd[c] \in ChunkDownloader
    BY <1>2, <1>5 DEF TypeOK
  <2> QED
    BY <1>5, <1>7, <1>8, <2>1 DEF ChunkDownloader
<1>10. file' \in [Files -> Status] /\ \A f \in Files : file'[f] = "DELETED" <=> file[f] = "DELETED"
  BY <1>2, <1>5, <1>6, <1>7 DEF TypeOK, Status
<1> DEFINE u == Loop(t.file, t.left \ {p})
<1>11. u \in Tasks /\ u.op = "loop"
  <2>1. t.file \in 1 .. NbFiles + 1
    BY <1>2, TransferAssumption DEF Files
  <2>2. u \in Tasks
    BY <1>2, <2>1, TasksTyped
  <2> QED
    BY <2>2 DEF Loop
<1>12. Continue(<<u>>)
  BY <1>4
<1> HIDE DEF u, t
<1>13. /\ <<u>> \in Seq(Tasks) /\ \A i \in 1 .. Len(<<u>>) : <<u>>[i] = u
  BY <1>11, OneTask
<1>14. agenda' \in Seq(Tasks)
  BY <1>2, <1>12, <1>13, Continued
<1>15. AgendaSafe'
  <2>1. \A d \in Chunks : agenda[1] # Stop(d) /\ agenda[1] # Lose(d, cd[d].current)
    BY <1>2 DEF Stop, Lose, t
  <2>2. \A d \in Chunks : cd'[d].downloading =>
           \/ cd[d].downloading /\ cd'[d].current = cd[d].current
           \/ peer[cd'[d].current] = "up" /\ file[FileOf[d]] # "DELETED"
    BY <1>5, <1>6, <1>9
  <2> QED
    BY <1>1, <1>2, <1>10, <1>11, <1>12, <1>13, <2>1, <2>2, AgendaGoesOn
<1>16. Actives' = Actives \cup {c} /\ c \notin Actives
  <2>1. \A d : ~Ending(d)'
    BY <1>2, <1>11, <1>12, <1>13, NoneEnding DEF AgendaSafe
  <2>2. \A d : ~Ending(d)
    BY <1>2 DEF Ending, t
  <2> QED
    BY <1>5, <1>9, <2>1, <2>2 DEF Actives, Active
<1>17. Actives \subseteq Chunks
  BY DEF Actives
<1>18. Exclusive'
  <2>1. \A d \in Actives : cd'[d].current = cd[d].current /\ cd[d].current \in occupied
    BY <1>9, <1>16, <1>17 DEF IInv, Exclusive
  <2>2. \A d \in Actives' : cd'[d].current \in occupied'
    BY <1>4, <1>9, <1>16, <2>1
  <2>3. \A q \in occupied' : \E d \in Actives' : cd'[d].current = q
    BY <1>4, <1>9, <1>16, <2>1 DEF IInv, Exclusive
  <2>4. \A d, e \in Actives' : cd'[d].current = cd'[e].current => d = e
    BY <1>5, <1>9, <1>16, <2>1 DEF IInv, Exclusive
  <2> QED
    BY <2>2, <2>3, <2>4 DEF Exclusive
<1>19. Counted'
  <2>1. \A d \in Chunks : cd'[d].request # "none" => d \in Actives'
    BY <1>9, <1>16 DEF IInv, Counted
  <2>2. cd[c].slots \in Nat
    BY <1>2, <1>5, TransferAssumption DEF TypeOK, ChunkDownloader
  <2>3. \A d \in Actives' : cd'[d].slots >= 1
    BY <1>9, <1>16, <1>17, <2>2 DEF IInv, Counted
  <2>4. Cardinality(Actives') = Cardinality(Actives) + 1 /\ Cardinality(Actives) \in Nat
    <3> DEFINE A == Actives
    <3> HIDE DEF A
    <3>1. IsFiniteSet(A) /\ Cardinality(A) \in Nat /\ c \notin A
      BY <1>16, <1>17, ChunksAreFinite DEF A
    <3>2. Cardinality(A \cup {c}) = Cardinality(A) + 1
      BY <3>1, FS_AddElement
    <3> QED
      BY <1>16, <3>1, <3>2 DEF A
  <2>5. running' <= Cardinality(Actives')
    BY <1>2, <1>4, <2>4 DEF IInv, Counted, TypeOK
  <2> QED
    BY <2>1, <2>3, <2>5 DEF Counted
<1>20. LinksCover'
  <2>1. Now \in Transfers /\ Now' \in Transfers
    BY <1>2, <1>7, <1>9, <1>10, NowTyped DEF Now, Transfers, TypeOK
  <2>2. \A d \in Chunks : cd'[d].peers = cd[d].peers
    BY <1>9
  <2>3. Now'.links = Now.links /\ \A d \in Chunks : Now'.cd[d].peers = Now.cd[d].peers
    BY <1>7, <2>2 DEF Now
  <2>4. Covers(Now')
    BY <2>1, <2>3, SamePeersCover, CoversIsLinksCover DEF IInv
  <2> QED
    BY <2>4 DEF Covers, Holding, LinksCover, Having, Now
<1>21. TypeOK'
  <2>1. running' \in Int /\ occupied' \subseteq Peers
    BY <1>2, <1>4, <1>5 DEF TypeOK
  <2> QED
    BY <1>1, <1>2, <1>7, <1>9, <1>10, <1>14, <2>1 DEF TypeOK, pool
<1> QED
  BY <1>15, <1>18, <1>19, <1>20, <1>21 DEF IInv

(* The end of a transfer: its peer, its slots and its request are given    *)
(* back, those of the other transfers are not.                             *)
LEMMA DownloadingEndedKeeps == ASSUME IInv, DownloadingEnded PROVE IInv'
<1> DEFINE c == agenda[1].chunk
           p == cd[c].current
           ended == [Now EXCEPT !.cd[c].downloading = FALSE, !.cd[c].request = "none"]
           told == UpdateStatus(ended, FileOf[c])
           freed == [told EXCEPT !.cd[c].current = None]
           x == ForgottenPeers(freed, c)
           tasks == IF p \in Available THEN <<Scan>> ELSE <<>>
<1>1. /\ TypeOK /\ agenda # <<>> /\ agenda \in Seq(Tasks) /\ Head(agenda) = agenda[1]
      /\ agenda[1].op = "end" /\ c \in Chunks /\ AgendaSafe /\ Now \in Transfers
  <2>1. Task("end")
    BY DEF DownloadingEnded
  <2> QED
    BY <2>1, NowTask, TaskMembers, NowTyped DEF IInv, TypeOK
<1>2. /\ Become(x) /\ UNCHANGED <<peer, pool>>
      /\ running' = running - cd[c].slots
      /\ occupied' = occupied \ {p}
      /\ Continue(tasks)
  BY <1>1, Zenon DEF DownloadingEnded, ChunkDownloaderFinished, SetPeerAsFree
<1>3. c \in Actives /\ p \in occupied /\ p \in Peers
  <2>1. c \in Actives
    BY <1>1 DEF Actives, Active, Ending
  <2>2. p \in occupied
    BY <2>1 DEF IInv, Exclusive
  <2> QED
    BY <1>1, <2>1, <2>2 DEF TypeOK
<1> HIDE DEF c
<1>4. /\ ended \in Transfers /\ ended.links = links /\ ended.file = file
      /\ \A d \in Chunks : ended.cd[d] = IF d = c THEN [cd[c] EXCEPT !.downloading = FALSE, !.request = "none"]
                                                  ELSE cd[d]
  <2> DEFINE r == [cd[c] EXCEPT !.downloading = FALSE, !.request = "none"]
             cds == [cd EXCEPT ![c] = r]
  <2>1. cd \in [Chunks -> ChunkDownloader] /\ cd[c] \in ChunkDownloader
    BY <1>1 DEF TypeOK
  <2>2. r \in ChunkDownloader
    BY <2>1 DEF ChunkDownloader
  <2>3. ended = [cd |-> cds, links |-> links, file |-> file]
    <3> DEFINE half == [cd EXCEPT ![c] = [cd[c] EXCEPT !.downloading = FALSE]]
               m == [Now EXCEPT !.cd[c].downloading = FALSE]
    <3>1. m = [cd |-> half, links |-> links, file |-> file]
      <4>1. m = [Now EXCEPT !.cd = [Now.cd EXCEPT ![c] = [Now.cd[c] EXCEPT !.downloading = FALSE]]]
        BY Zenon
      <4>2. Now = [cd |-> cd, links |-> links, file |-> file] /\ Now.cd = cd
        BY DEF Now
      <4> HIDE DEF m
      <4>3. m = [Now EXCEPT !.cd = half]
        BY <4>1, <4>2
      <4> HIDE DEF half
      <4> QED
        BY <4>2, <4>3
    <3>2. ended = [m EXCEPT !.cd[c].request = "none"]
      BY Zenon
    <3>3. cds = [half EXCEPT ![c] = [half[c] EXCEPT !.request = "none"]]
      BY <1>1, <2>1
    <3>4. [m EXCEPT !.cd[c].request = "none"]
            = [m EXCEPT !.cd = [m.cd EXCEPT ![c] = [m.cd[c] EXCEPT !.request = "none"]]]
      BY Zenon
    <3> HIDE DEF half, m, ended, cds
    <3> QED
      BY <3>1, <3>2, <3>3, <3>4
  <2> HIDE DEF ended, r
  <2>4. cds \in [Chunks -> ChunkDownloader] /\ \A d \in Chunks : cds[d] = IF d = c THEN r ELSE cd[d]
    BY <1>1, <2>1, <2>2
  <2> HIDE DEF cds
  <2>5. ended \in Transfers
    BY <1>1, <2>3, <2>4 DEF TypeOK, Transfers
  <2> QED
    BY <2>3, <2>4, <2>5 DEF r
<1>5. /\ ended.cd[c].downloading = FALSE /\ ended.cd[c].request = "none"
      /\ \A d \in Chunks : /\ ended.cd[d].slots = cd[d].slots /\ ended.cd[d].peers = cd[d].peers
                           /\ d # c => ended.cd[d] = cd[d]
  <2> DEFINE r == [cd[c] EXCEPT !.downloading = FALSE, !.request = "none"]
  <2>1. cd[c] \in ChunkDownloader
    BY <1>1 DEF TypeOK
  <2>2. r.downloading = FALSE /\ r.request = "none" /\ r.slots = cd[c].slots /\ r.peers = cd[c].peers
    BY <2>1 DEF ChunkDownloader
  <2> HIDE DEF ended, r
  <2>3. \A d \in Chunks : ended.cd[d] = IF d = c THEN r ELSE cd[d]
    BY <1>4 DEF r
  <2> QED
    BY <1>1, <2>2, <2>3
<1>6. Covers(ended)
  <2>1. \A d \in Chunks : ended.cd[d].peers = Now.cd[d].peers
    BY <1>5 DEF Now
  <2>2. Now.links = links /\ Covers(Now)
    BY CoversIsLinksCover DEF IInv, Now
  <2> HIDE DEF ended
  <2> QED
    BY <1>1, <1>4, <2>1, <2>2, SamePeersCover
<1>7. Keeps(ended, told)
  <2>1. FileOf[c] \in Files
    BY <1>1, TransferAssumption
  <2> HIDE DEF ended
  <2> QED
    BY <1>4, <2>1, UpdateStatusKeeps
<1> HIDE DEF ended, told
<1>8. told \in Transfers
  BY <1>7 DEF Keeps
<1>9. /\ freed \in Transfers /\ freed.links = told.links /\ freed.file = told.file
      /\ \A d \in Chunks : freed.cd[d] = IF d = c THEN [told.cd[c] EXCEPT !.current = None] ELSE told.cd[d]
  <2> DEFINE r == [told.cd[c] EXCEPT !.current = None]
             cds == [told.cd EXCEPT ![c] = r]
  <2>1. told.cd \in [Chunks -> ChunkDownloader] /\ told.cd[c] \in ChunkDownloader
    BY <1>1, <1>8 DEF Transfers
  <2>2. r \in ChunkDownloader
    BY <2>1 DEF ChunkDownloader
  <2>3. freed = [told EXCEPT !.cd = cds]
    OBVIOUS
  <2> HIDE DEF freed, r
  <2>4. cds \in [Chunks -> ChunkDownloader] /\ \A d \in Chunks : cds[d] = IF d = c THEN r ELSE told.cd[d]
    BY <1>1, <2>1, <2>2
  <2> HIDE DEF cds
  <2>5. freed = [cd |-> cds, links |-> told.links, file |-> told.file]
    BY <1>8, <2>3 DEF Transfers
  <2>6. freed \in Transfers
    BY <1>8, <2>4, <2>5 DEF Transfers
  <2> QED
    BY <2>4, <2>5, <2>6 DEF r
<1> HIDE DEF freed
<1>10. /\ \A d \in Chunks : /\ freed.cd[d].slots = told.cd[d].slots
                            /\ freed.cd[d].request = told.cd[d].request
                            /\ freed.cd[d].downloading = told.cd[d].downloading
                            /\ freed.cd[d].peers = told.cd[d].peers
                            /\ d # c => freed.cd[d].current = told.cd[d].current
  <2>1. \A d \in Chunks : told.cd[d] \in ChunkDownloader
    BY <1>8 DEF Transfers
  <2> QED
    BY <1>1, <1>9, <2>1 DEF ChunkDownloader
<1>11. Covers(freed)
  <2>1. Covers(told)
    BY <1>6, <1>7 DEF Keeps
  <2> QED
    BY <1>8, <1>9, <1>10, <2>1, SamePeersCover
<1>12. Keeps(freed, x)
  BY <1>1, <1>9, ForgottenPeersKeeps
<1> HIDE DEF x
<1>13. /\ x \in Transfers /\ Covers(x) /\ Now' = x
  <2>1. x \in Transfers /\ Covers(x)
    BY <1>11, <1>12 DEF Keeps
  <2>2. x = [cd |-> x.cd, links |-> x.links, file |-> x.file]
    BY <2>1 DEF Transfers
  <2> QED
    BY <1>2, <2>1, <2>2 DEF Become, Now
<1>14. /\ cd' = x.cd /\ links' = x.links /\ file' = x.file
  BY <1>2 DEF Become
<1>15. /\ ~cd'[c].downloading /\ cd'[c].request = "none"
       /\ \A d \in Chunks : cd'[d].slots = cd[d].slots
       /\ \A d \in Chunks \ {c} : /\ cd'[d].downloading = cd[d].downloading
                                  /\ cd'[d].current = cd[d].current
                                  /\ cd'[d].request # "none" => cd[d].request # "none"
  <2>1. \A d \in Chunks : /\ x.cd[d].downloading = ended.cd[d].downloading
                          /\ d # c => x.cd[d].current = ended.cd[d].current
                          /\ x.cd[d].request # "none" => ended.cd[d].request # "none"
                          /\ x.cd[d].slots = ended.cd[d].slots
    BY <1>7, <1>10, <1>12 DEF Keeps, SameTransfers
  <2> QED
    BY <1>1, <1>5, <1>14, <2>1
<1>16. \A f \in Files : file'[f] = "DELETED" <=> file[f] = "DELETED"
  BY <1>4, <1>7, <1>9, <1>12, <1>14 DEF Keeps, SameDeleted
<1>17. /\ tasks \in Seq(Tasks)
       /\ \A i \in 1 .. Len(tasks) : tasks[i].op = "scan"
  <2>1. Scan \in Tasks /\ Scan.op = "scan"
    BY TasksTyped DEF Scan
  <2>2. CASE p \in Available
    BY <2>1, <2>2
  <2>3. CASE p \notin Available
    BY <2>3
  <2> QED
    BY <2>2, <2>3
<1> HIDE DEF tasks
<1>18. AgendaSafe'
  <2>1. \A d \in Chunks : agenda[1] # Stop(d) /\ agenda[1] # Lose(d, cd[d].current)
    BY <1>1 DEF Stop, Lose
  <2>2. \A d \in Chunks : cd'[d].downloading => cd[d].downloading /\ cd'[d].current = cd[d].current
    BY <1>15
  <2> QED
    BY <1>1, <1>2, <1>16, <1>17, <2>1, <2>2, AgendaGoesOn
<1>19. Actives' = Actives \ {c}
  <2>1. \A d : ~Ending(d)'
    BY <1>1, <1>2, <1>17, NoneEnding DEF AgendaSafe
  <2>2. \A d : Ending(d) => d = c
    BY DEF Ending, c
  <2> QED
    BY <1>1, <1>15, <2>1, <2>2 DEF Actives, Active
<1>20. Actives \subseteq Chunks
  BY DEF Actives
<1>21. Exclusive'
  <2>1. \A d \in Actives' : /\ cd'[d].current = cd[d].current /\ cd[d].current \in occupied
                            /\ cd[d].current # p
    BY <1>3, <1>15, <1>19, <1>20 DEF IInv, Exclusive
  <2>2. \A d \in Actives' : cd'[d].current \in occupied'
    BY <1>2, <2>1
  <2>3. \A q \in occupied' : \E d \in Actives' : cd'[d].current = q
    BY <1>2, <1>19, <2>1 DEF IInv, Exclusive
  <2>4. \A d, e \in Actives' : cd'[d].current = cd'[e].current => d = e
    BY <1>19, <2>1 DEF IInv, Exclusive
  <2> QED
    BY <2>2, <2>3, <2>4 DEF Exclusive
<1>22. Counted'
  <2>1. \A d \in Chunks : cd'[d].request # "none" => d \in Actives'
    BY <1>15, <1>19 DEF IInv, Counted
  <2>2. \A d \in Actives' : cd'[d].slots >= 1
    BY <1>15, <1>19, <1>20 DEF IInv, Counted
  <2>3. Cardinality(Actives') = Cardinality(Actives) - 1 /\ Cardinality(Actives) \in Nat
    <3> DEFINE A == Actives
    <3> HIDE DEF A
    <3>1. IsFiniteSet(A) /\ Cardinality(A) \in Nat /\ c \in A
      BY <1>3, <1>20, ChunksAreFinite DEF A
    <3>2. Cardinality(A \ {c}) = Cardinality(A) - 1
      BY <3>1, FS_RemoveElement
    <3> QED
      BY <1>19, <3>1, <3>2 DEF A
  <2>4. cd[c].slots \in Nat /\ cd[c].slots >= 1
    BY <1>1, <1>3, TransferAssumption DEF TypeOK, ChunkDownloader, IInv, Counted
  <2>5. running' <= Cardinality(Actives')
    BY <1>1, <1>2, <2>3, <2>4 DEF IInv, Counted, TypeOK
  <2> QED
    BY <2>1, <2>2, <2>5 DEF Counted
<1>23. LinksCover'
  BY <1>13 DEF Covers, Holding, LinksCover, Having, Now
<1>24. TypeOK'
  <2>1. running' \in Int /\ occupied' \subseteq Peers
    <3>1. cd[c].slots \in Nat
      BY <1>1, TransferAssumption DEF TypeOK, ChunkDownloader
    <3> QED
      BY <1>1, <1>2, <3>1 DEF TypeOK
  <2>2. agenda' \in Seq(Tasks)
    BY <1>1, <1>2, <1>17, Continued
  <2>3. cd' \in [Chunks -> ChunkDownloader] /\ links' \in [Peers -> Nat] /\ file' \in [Files -> Status]
    BY <1>13, <1>14 DEF Transfers
  <2> QED
    BY <1>1, <1>2, <2>1, <2>2, <2>3 DEF TypeOK, pool
<1> QED
  BY <1>18, <1>21, <1>22, <1>23, <1>24 DEF IInv

LEMMA MainStepKeeps == ASSUME IInv, MainStep PROVE IInv'
BY ScanTheQueueKeeps, ScanLoopKeeps, AskReadyKeeps, PickNoneKeeps, PickChunkKeeps,
   StopChunkKeeps, WaitRunnableFinishedKeeps, DownloadingEndedKeeps, LosePeerKeeps,
   ForgetPeerKeeps, LearnPeerKeeps, MeetPeerKeeps, UpdateFileKeeps, RetireThreadKeeps,
   DestroyFileKeeps, NextTaskKeeps DEF MainStep

-----------------------------------------------------------------------------
(* The events of the main thread.                                          *)

LEMMA NoAgenda ==
  ASSUME IInv, NEW tasks, Handle(tasks)
  PROVE  /\ TypeOK /\ Now \in Transfers /\ agenda = <<>> /\ agenda' = tasks /\ AgendaSafe
         /\ \A c \in Chunks : Active(c) <=> cd[c].downloading
         /\ \A c \in Chunks : cd[c].request # "none" => cd[c].downloading /\ cd[c].current \in Peers
         /\ PeersTyped
<1>1. TypeOK /\ Now \in Transfers /\ agenda = <<>> /\ agenda' = tasks /\ AgendaSafe /\ PeersTyped
  BY NowTyped DEF IInv, Handle, TypeOK, PeersTyped
<1>2. \A c \in Chunks : Active(c) <=> cd[c].downloading
  BY <1>1 DEF Active, Ending, TypeOK, ChunkDownloader
<1>3. \A c \in Chunks : cd[c].request # "none" => cd[c].downloading /\ cd[c].current \in Peers
  BY <1>1, <1>2 DEF IInv, Counted, Exclusive, Actives, TypeOK
<1> QED
  BY <1>1, <1>2, <1>3

(* A handler of tasks that neither pick, wait, end nor forget.             *)
PlainOps == {"nothing", "scan", "stop", "lose", "learn", "update", "meet", "retire", "destroy"}

LEMMA PlainEvent ==
  ASSUME IInv, NEW tasks \in Seq(Tasks), Handle(tasks),
         \A i \in 1 .. Len(tasks) : tasks[i].op \in PlainOps,
         Keeps(Now, Now'), occupied' = occupied, running' = running, PeersTyped', PoolTyped'
  PROVE  IInv'
<1>1. \A i \in 1 .. Len(tasks) : tasks[i].op \notin {"wait", "pick", "forget", "end"}
  BY DEF PlainOps
<1> QED
  BY <1>1, QuietEvent

LEMMA PlainOne ==
  ASSUME IInv, NEW u \in Tasks, u.op \in PlainOps, Handle(<<u>>),
         Keeps(Now, Now'), occupied' = occupied, running' = running, PeersTyped', PoolTyped'
  PROVE  IInv'
<1> DEFINE tasks == <<u>>
<1>1. tasks \in Seq(Tasks) /\ Handle(tasks) /\ \A i \in 1 .. Len(tasks) : tasks[i] = u
  BY OneTask
<1> HIDE DEF tasks
<1> QED
  BY <1>1, PlainEvent

LEMMA PlainNone ==
  ASSUME IInv, Handle(<<>>),
         Keeps(Now, Now'), occupied' = occupied, running' = running, PeersTyped', PoolTyped'
  PROVE  IInv'
<1> DEFINE tasks == <<>>
<1>1. tasks \in Seq(Tasks) /\ Handle(tasks) /\ \A i \in 1 .. Len(tasks) : FALSE
  OBVIOUS
<1> HIDE DEF tasks
<1> QED
  BY <1>1, PlainEvent, Zenon

(* A task of each chunk, then others.                                      *)
LEMMA PlainChunks ==
  ASSUME IInv, NEW s \in [Chunks -> Tasks], \A c \in Chunks : s[c].op \in PlainOps,
         NEW u \in Seq(Tasks), \A i \in 1 .. Len(u) : u[i].op \in PlainOps, Handle(s \o u),
         Keeps(Now, Now'), occupied' = occupied, running' = running, PeersTyped', PoolTyped'
  PROVE  IInv'
<1> DEFINE tasks == s \o u
<1>1. tasks \in Seq(Tasks) /\ \A i \in 1 .. Len(tasks) : tasks[i].op \in PlainOps
  BY TasksThen
<1>2. Handle(tasks)
  OBVIOUS
<1> HIDE DEF tasks
<1> QED
  BY <1>1, <1>2, PlainEvent

LEMMA PeersStay ==
  ASSUME IInv, UNCHANGED <<peer, pool>>
  PROVE  PeersTyped' /\ PoolTyped'
BY PoolStays DEF IInv, TypeOK, PeersTyped

LEMMA AddPeerKeeps ==
  ASSUME IInv, NEW c \in Chunks, NEW p \in Peers, AddPeer(c, p)
  PROVE  IInv'
<1> DEFINE x == Remember(Now, c, p)
           u == Meet(p)
<1>1. Become(x) /\ Handle(<<u>>) /\ UNCHANGED <<occupied, running, peer, pool>>
  BY DEF AddPeer
<1>2. Keeps(Now, x)
  BY <1>1, NoAgenda, RememberKeeps
<1>3. u \in Tasks /\ u.op \in PlainOps
  <2>1. u \in Tasks
    BY TasksTyped
  <2> QED
    BY <2>1 DEF Meet, PlainOps
<1> HIDE DEF x, u
<1>4. Keeps(Now, Now') /\ PeersTyped' /\ PoolTyped'
  BY <1>1, <1>2, BecomeKeeps, PeersStay
<1> QED
  BY <1>1, <1>3, <1>4, PlainOne

LEMMA RmPeerKeeps ==
  ASSUME IInv, NEW c \in Chunks, NEW p \in Peers, RmPeer(c, p)
  PROVE  IInv'
<1> DEFINE x == DropAndTell(Now, c, {p})
<1>1. Become(x) /\ Handle(<<>>) /\ UNCHANGED <<occupied, running, peer, pool>>
  BY DEF RmPeer
<1>2. Keeps(Now, x)
  BY <1>1, NoAgenda, DropAndTellKeeps
<1> HIDE DEF x
<1>3. Keeps(Now, Now') /\ PeersTyped' /\ PoolTyped'
  BY <1>1, <1>2, BecomeKeeps, PeersStay
<1> QED
  BY <1>1, <1>3, PlainNone

LEMMA PeerBecomesAvailableKeeps ==
  ASSUME IInv, NEW p \in Peers, PeerBecomesAvailable(p)
  PROVE  IInv'
<1> DEFINE mine == {c \in Chunks : Source[FileOf[c]] = p /\ file[FileOf[c]] # "DELETED"}
           s == ForEach(mine, LAMBDA c : Learn(c, p))
           u == Meet(p)
<1>1. /\ Handle(s \o <<u>>) /\ peer' = [peer EXCEPT ![p] = "up"]
      /\ UNCHANGED <<cd, file, links, occupied, running, pool>>
  BY DEF PeerBecomesAvailable
<1>2. s \in [Chunks -> Tasks] /\ \A c \in Chunks : s[c].op \in PlainOps
  <2>1. s = [c \in Chunks |-> IF c \in mine THEN Learn(c, p) ELSE Nothing]
    BY DEF ForEach
  <2>2. \A c \in Chunks : Learn(c, p) \in Tasks /\ Learn(c, p).op \in PlainOps
    BY TasksTyped DEF Learn, PlainOps
  <2>3. Nothing \in Tasks /\ Nothing.op \in PlainOps
    BY TasksTyped DEF Nothing, PlainOps
  <2> HIDE DEF s, mine
  <2> QED
    BY <2>1, <2>2, <2>3
<1>3. u \in Tasks /\ u.op \in PlainOps
  <2>1. u \in Tasks
    BY TasksTyped
  <2> QED
    BY <2>1 DEF Meet, PlainOps
<1> HIDE DEF s, u
<1>4. <<u>> \in Seq(Tasks) /\ \A i \in 1 .. Len(<<u>>) : <<u>>[i].op \in PlainOps
  BY <1>3, OneTask
<1>5. TypeOK
  BY DEF IInv
<1>6. PeersTyped' /\ PoolTyped' /\ Keeps(Now, Now')
  BY <1>1, <1>5, PoolStays, UnchangedKeeps DEF TypeOK, PeersTyped
<1> QED
  BY <1>1, <1>2, <1>4, <1>6, PlainChunks

(* A chunk that is downloaded from the peer has not been deleted: it loses *)
(* the peer before the peer is forgotten.                                  *)
LEMMA PeerBecomesUnavailableKeeps ==
  ASSUME IInv, NEW p \in Peers, PeerBecomesUnavailable(p)
  PROVE  IInv'
<1> DEFINE left == {c \in Chunks : file[FileOf[c]] # "DELETED"}
           s == ForEach(left, LAMBDA c : Lose(c, p))
           u == Forget(p)
           tasks == s \o <<u>>
<1>1. /\ Handle(tasks) /\ peer' = [peer EXCEPT ![p] = "dead"]
      /\ UNCHANGED <<cd, file, links, occupied, running, pool>>
  BY DEF PeerBecomesUnavailable
<1>2. /\ s \in [Chunks -> Tasks]
      /\ \A c \in Chunks : s[c].op \in {"lose", "nothing"}
      /\ \A c \in left : s[c] = Lose(c, p)
  <2>1. s = [c \in Chunks |-> IF c \in left THEN Lose(c, p) ELSE Nothing]
    BY DEF ForEach
  <2>2. \A c \in Chunks : Lose(c, p) \in Tasks /\ Lose(c, p).op = "lose"
    BY TasksTyped DEF Lose
  <2>3. Nothing \in Tasks /\ Nothing.op = "nothing"
    BY TasksTyped DEF Nothing
  <2>4. left \subseteq Chunks
    OBVIOUS
  <2> HIDE DEF s, left
  <2> QED
    BY <2>1, <2>2, <2>3, <2>4
<1>3. u \in Tasks /\ u.op = "forget" /\ u.peer = p
  <2>1. u \in Tasks
    BY TasksTyped
  <2> QED
    BY <2>1 DEF Forget
<1>4. \A c \in Chunks : cd[c].downloading => c \in left
  BY <1>1, NoAgenda DEF AgendaSafe, DeletedStops
<1>5. TypeOK /\ agenda = <<>> /\ agenda' = tasks /\ AgendaSafe
  BY <1>1, NoAgenda
<1> HIDE DEF s, u, left
<1>6. <<u>> \in Seq(Tasks) /\ \A i \in 1 .. Len(<<u>>) : <<u>>[i] = u
  BY <1>3, OneTask
<1>7. /\ tasks \in Seq(Tasks)
      /\ \A c \in Chunks : c \in DOMAIN tasks /\ tasks[c] = s[c]
      /\ \A i \in 1 .. Len(tasks) : \/ i \in Chunks /\ tasks[i] = s[i]
                                    \/ i > NbChunks /\ tasks[i] = u
  <2> DEFINE v == <<u>>
  <2>1. v \in Seq(Tasks) /\ \A j \in 1 .. Len(v) : v[j] = u
    BY <1>6
  <2> HIDE DEF v
  <2>2. /\ s \o v \in Seq(Tasks)
        /\ \A c \in Chunks : c \in DOMAIN (s \o v) /\ (s \o v)[c] = s[c]
        /\ \A i \in 1 .. Len(s \o v) : (i \in Chunks /\ (s \o v)[i] = s[i])
                                        \/ (i > NbChunks /\ (s \o v)[i] = u)
    BY <1>2, <2>1, TasksThen
  <2> QED
    BY <2>2 DEF v
<1>8. DOMAIN tasks = 1 .. Len(tasks)
  BY <1>7
<1> HIDE DEF tasks
<1>9. HeadOnly' /\ PickAlive'
  BY <1>2, <1>3, <1>5, <1>7, <1>8 DEF HeadOnly, PickAlive
<1>10. DeletedStops'
  BY <1>1, <1>5 DEF DeletedStops, AgendaSafe
<1>11. ForgottenStops'
  <2>1. SUFFICES ASSUME NEW i \in 1 .. Len(tasks), tasks[i].op = "forget"
                 PROVE  /\ peer'[tasks[i].peer] # "up"
                        /\ \A c \in Chunks : cd'[c].downloading /\ cd'[c].current = tasks[i].peer =>
                             \E j \in 1 .. i - 1 : tasks[j] \in {Lose(c, tasks[i].peer), Stop(c)}
    BY <1>5, <1>8 DEF ForgottenStops
  <2>2. tasks[i] = u /\ i > NbChunks
    BY <1>2, <1>7, <2>1
  <2>3. peer'[p] # "up"
    BY <1>1, <1>5 DEF TypeOK
  <2>4. ASSUME NEW c \in Chunks, cd'[c].downloading
        PROVE  c \in 1 .. i - 1 /\ tasks[c] = Lose(c, p)
    <3>1. c \in left
      BY <1>1, <1>4, <2>4
    <3>2. c \in 1 .. i - 1
      BY <2>2, TransferAssumption DEF Chunks
    <3> QED
      BY <1>2, <1>7, <3>1, <3>2
  <2> QED
    BY <1>3, <2>2, <2>3, <2>4
<1>12. PeersTyped' /\ PoolTyped' /\ Keeps(Now, Now') /\ agenda' \in Seq(Tasks)
  BY <1>1, <1>5, <1>7, PoolStays, UnchangedKeeps DEF TypeOK, PeersTyped
<1>13. \A c \in Chunks : Active(c)' <=> Active(c)
  <2>1. agenda' # <<>> => agenda'[1].op \notin {"wait", "end"}
    <3>1. agenda' # <<>> => 1 \in 1 .. Len(tasks)
      BY <1>5, <1>7
    <3> QED
      BY <1>2, <1>3, <1>5, <1>7, <3>1
  <2> QED
    BY <1>1, <1>5, <2>1 DEF Active, Ending
<1> QED
  BY <1>1, <1>9, <1>10, <1>11, <1>12, <1>13, QuietStep DEF AgendaSafe

LEMMA ResultRefusedKeeps ==
  ASSUME IInv, NEW c \in Chunks, ResultRefused(c)
  PROVE  IInv'
<1> DEFINE x == DropAndTell(Now, c, {cd[c].current})
           u == End(c)
<1>1. /\ Become(x) /\ Handle(<<u>>) /\ UNCHANGED <<occupied, running, peer, pool>>
      /\ cd[c].request = "sent"
  BY DEF ResultRefused
<1>2. cd[c].downloading /\ cd[c].current \in Peers /\ Now \in Transfers
  BY <1>1, NoAgenda
<1>3. Keeps(Now, x)
  BY <1>2, DropAndTellKeeps
<1>4. u \in Tasks /\ u.op = "end" /\ u.chunk = c
  <2>1. u \in Tasks
    BY TasksTyped
  <2> QED
    BY <2>1 DEF End
<1> HIDE DEF x, u
<1>5. <<u>> \in Seq(Tasks) /\ \A i \in 1 .. Len(<<u>>) : i = 1 /\ <<u>>[i] = u
  BY <1>4, OneTask
<1>6. Keeps(Now, Now') /\ PeersTyped' /\ PoolTyped'
  BY <1>1, <1>3, BecomeKeeps, PeersStay
<1> QED
  BY <1>1, <1>2, <1>4, <1>5, <1>6, QuietEvent

LEMMA ResultWithoutKeeps ==
  ASSUME IInv, NEW c \in Chunks, ResultWithout(c)
  PROVE  IInv'
<1> DEFINE u == End(c)
<1>1. /\ Handle(<<u>>) /\ UNCHANGED <<cd, links, file, occupied, running, peer, pool>>
      /\ cd[c].request = "sent"
  BY DEF ResultWithout
<1>2. cd[c].downloading /\ TypeOK
  BY <1>1, NoAgenda
<1>3. u \in Tasks /\ u.op = "end" /\ u.chunk = c
  <2>1. u \in Tasks
    BY TasksTyped
  <2> QED
    BY <2>1 DEF End
<1> HIDE DEF u
<1>4. <<u>> \in Seq(Tasks) /\ \A i \in 1 .. Len(<<u>>) : i = 1 /\ <<u>>[i] = u
  BY <1>3, OneTask
<1>5. Keeps(Now, Now') /\ PeersTyped' /\ PoolTyped'
  BY <1>1, <1>2, UnchangedKeeps, PeersStay
<1> QED
  BY <1>1, <1>2, <1>3, <1>4, <1>5, QuietEvent

(* The runnable of a thread, and how a thread is given one.                *)
LEMMA StreamKeeps ==
  ASSUME IInv, NEW c \in Chunks, Stream(c)
  PROVE  IInv'
<1> DEFINE used == ToSet(activeThreads) \cup ToSet(inactiveThreads)
           serve(t) == /\ thread' = [thread EXCEPT ![t] = [runnable |-> c, phase |-> "woken"]]
                       /\ activeThreads' = Append(activeThreads, t)
<1>1. /\ Handle(<<>>) /\ UNCHANGED <<file, links, occupied, running, peer, posted>>
      /\ cd[c].request = "sent" /\ cd' = [cd EXCEPT ![c].request = "stream"]
  BY DEF Stream
<1>2. TypeOK /\ PeersTyped'
  BY <1>1, NoAgenda DEF PeersTyped
<1>3. /\ cd' \in [Chunks -> ChunkDownloader]
      /\ \A d \in Chunks : /\ cd'[d].downloading = cd[d].downloading
                           /\ cd'[d].current = cd[d].current
                           /\ cd'[d].request # "none" => cd[d].request # "none"
                           /\ cd'[d].slots = cd[d].slots
                           /\ cd'[d].peers = cd[d].peers
  <2>1. cd \in [Chunks -> ChunkDownloader] /\ \A d \in Chunks : cd[d] \in ChunkDownloader
    BY <1>2 DEF TypeOK
  <2>2. [cd[c] EXCEPT !.request = "stream"] \in ChunkDownloader
    BY <2>1 DEF ChunkDownloader
  <2>3. \A d \in Chunks : cd'[d] = IF d = c THEN [cd[c] EXCEPT !.request = "stream"] ELSE cd[d]
    BY <1>1, <2>1
  <2> QED
    BY <1>1, <2>1, <2>2, <2>3 DEF ChunkDownloader
<1>4. Keeps(Now, Now')
  BY <1>1, <1>2, <1>3, ChunksKeep
<1>5. ASSUME NEW t \in Threads, serve(t), inactiveThreads' \in Seq(Threads)
      PROVE  PoolTyped'
  BY <1>1, <1>2, <1>5 DEF TypeOK, PoolTyped, Thread
<1>6. PoolTyped'
  <2>1. CASE inactiveThreads # <<>> /\ serve(Last(inactiveThreads))
             /\ inactiveThreads' = Front(inactiveThreads)
    <3>1. inactiveThreads \in Seq(Threads)
      BY <1>2 DEF TypeOK
    <3>2. Last(inactiveThreads) \in Threads /\ Front(inactiveThreads) \in Seq(Threads)
      BY <2>1, <3>1 DEF Last, Front
    <3> QED
      BY <1>5, <2>1, <3>2
  <2>2. CASE inactiveThreads = <<>> /\ Threads \ used # {}
             /\ serve(CHOOSE t \in Threads \ used : TRUE) /\ UNCHANGED inactiveThreads
    <3>1. (CHOOSE t \in Threads \ used : TRUE) \in Threads
      BY <2>2
    <3>2. inactiveThreads' \in Seq(Threads)
      BY <1>2, <2>2 DEF TypeOK
    <3> QED
      BY <1>5, <2>2, <3>1, <3>2
  <2> QED
    BY <2>1, <2>2, Zenon DEF Stream
<1> QED
  BY <1>1, <1>2, <1>4, <1>6, PlainNone

LEMMA RunnableFinishedKeeps == ASSUME IInv, RunnableFinished PROVE IInv'
<1> DEFINE t == Head(posted)
           c == thread[t].runnable
           u == Retire(t)
           e == End(c)
<1>1. /\ posted # <<>> /\ posted' = Tail(posted)
      /\ Handle((IF c # None /\ cd[c].downloading THEN <<e>> ELSE <<>>) \o <<u>>)
      /\ UNCHANGED <<cd, links, file, occupied, running, peer, thread, activeThreads, inactiveThreads>>
  BY DEF RunnableFinished
<1>2. TypeOK /\ PeersTyped' /\ Keeps(Now, Now')
  BY <1>1, UnchangedKeeps DEF IInv, TypeOK, PeersTyped
<1>3. t \in Threads /\ c \in Chunks \cup {None} /\ PoolTyped'
  <2>1. t \in Threads /\ Tail(posted) \in Seq(Threads)
    BY <1>1, <1>2 DEF TypeOK
  <2>2. c \in Chunks \cup {None}
    BY <1>2, <2>1 DEF TypeOK, Thread
  <2> QED
    BY <1>1, <1>2, <2>1, <2>2 DEF TypeOK, PoolTyped
<1>4. u \in Tasks /\ u.op = "retire"
  <2>1. u \in Tasks
    BY <1>3, TasksTyped
  <2> QED
    BY <2>1 DEF Retire
<1>5. CASE c # None /\ cd[c].downloading
  <2>1. e \in Tasks /\ e.op = "end" /\ e.chunk = c
    <3>1. e \in Tasks
      BY <1>3, <1>5, TasksTyped
    <3> QED
      BY <3>1 DEF End
  <2> DEFINE tasks == <<e>> \o <<u>>
  <2>2. Handle(tasks)
    BY <1>1, <1>5
  <2> HIDE DEF e, u, c, t
  <2>3. /\ tasks \in Seq(Tasks)
        /\ \A i \in 1 .. Len(tasks) : (i = 1 /\ tasks[i] = e) \/ tasks[i] = u
    <3> DEFINE v == <<e>>
               w == <<u>>
    <3>1. v \in Seq(Tasks) /\ Len(v) = 1 /\ v[1] = e
      BY <2>1
    <3>2. w \in Seq(Tasks) /\ Len(w) = 1 /\ w[1] = u
      BY <1>4
    <3> HIDE DEF v, w
    <3>3. /\ v \o w \in Seq(Tasks) /\ Len(v \o w) = 2
          /\ (v \o w)[1] = e /\ (v \o w)[2] = u
      <4>1. /\ v \o w \in Seq(Tasks) /\ Len(v \o w) = Len(v) + Len(w)
            /\ \A i \in 1 .. Len(v) + Len(w) :
                 (v \o w)[i] = IF i <= Len(v) THEN v[i] ELSE w[i - Len(v)]
        BY <3>1, <3>2, ConcatProperties
      <4>2. (v \o w)[1] = v[1] /\ (v \o w)[2] = w[2 - 1]
        BY <3>1, <3>2, <4>1
      <4> QED
        BY <3>1, <3>2, <4>1, <4>2
    <3>4. \A i \in 1 .. 2 : i = 1 \/ i = 2
      OBVIOUS
    <3> QED
      BY <3>3, <3>4 DEF v, w
  <2> HIDE DEF tasks
  <2> QED
    BY <1>1, <1>2, <1>3, <1>4, <1>5, <2>1, <2>2, <2>3, QuietEvent
<1>6. CASE ~ (c # None /\ cd[c].downloading)
  <2>1. Handle(<<u>>)
    <3> HIDE DEF u
    <3>1. <<>> \o <<u>> = <<u>>
      BY <1>4
    <3> QED
      BY <1>1, <1>6, <3>1
  <2> HIDE DEF e, u, c, t
  <2> QED
    BY <1>1, <1>2, <1>3, <1>4, <2>1, PlainOne DEF PlainOps
<1> QED
  BY <1>5, <1>6

(* A file is paused or taken up again.                                     *)
LEMMA StatusKeeps ==
  ASSUME TypeOK, NEW f \in Files, NEW v \in Status \ {"DELETED"}, file[f] # "DELETED",
         file' = [file EXCEPT ![f] = v], UNCHANGED <<cd, links>>
  PROVE  Keeps(Now, Now')
<1>1. file' \in [Files -> Status] /\ \A g \in Files : file'[g] = "DELETED" <=> file[g] = "DELETED"
  BY DEF TypeOK
<1>2. Now \in Transfers /\ Now' \in Transfers
  BY <1>1, NowTyped DEF Now, TypeOK, Transfers
<1>3. SameTransfers(Now, Now') /\ SameDeleted(Now, Now')
  BY <1>1 DEF SameTransfers, SameDeleted, Now
<1>4. Covers(Now) => Covers(Now')
  BY <1>2, SamePeersCover DEF Now
<1> QED
  BY <1>2, <1>3, <1>4 DEF Keeps

LEMMA StopTasks ==
  ASSUME NEW f \in Files
  PROVE  /\ ForEach(ChunksOf(f), Stop) \in [Chunks -> Tasks]
         /\ \A c \in Chunks : ForEach(ChunksOf(f), Stop)[c].op \in {"stop", "nothing"}
         /\ \A c \in Chunks : FileOf[c] = f => ForEach(ChunksOf(f), Stop)[c] = Stop(c)
<1> DEFINE s == ForEach(ChunksOf(f), Stop)
<1>1. s = [c \in Chunks |-> IF c \in ChunksOf(f) THEN Stop(c) ELSE Nothing]
  BY DEF ForEach
<1>2. \A c \in Chunks : Stop(c) \in Tasks /\ Stop(c).op = "stop"
  BY TasksTyped DEF Stop
<1>3. Nothing \in Tasks /\ Nothing.op = "nothing"
  BY TasksTyped DEF Nothing
<1>4. \A c \in Chunks : FileOf[c] = f => c \in ChunksOf(f)
  BY DEF ChunksOf
<1> HIDE DEF s
<1>5. /\ s \in [Chunks -> Tasks] /\ \A c \in Chunks : s[c].op \in {"stop", "nothing"}
      /\ \A c \in Chunks : FileOf[c] = f => s[c] = Stop(c)
  BY <1>1, <1>2, <1>3, <1>4
<1> QED
  BY <1>5 DEF s

LEMMA PauseDownloadKeeps ==
  ASSUME IInv, NEW f \in Files, PauseDownload(f)
  PROVE  IInv'
<1> DEFINE s == ForEach(ChunksOf(f), Stop)
<1>1. /\ Handle(s) /\ UNCHANGED <<cd, links, occupied, running, peer, pool>>
      /\ file' = [file EXCEPT ![f] = "PAUSED"] /\ file[f] # "DELETED"
  BY DEF PauseDownload
<1>2. s \in Seq(Tasks) /\ \A i \in 1 .. Len(s) : s[i].op \in PlainOps
  <2>1. s \in [Chunks -> Tasks] /\ \A c \in Chunks : s[c].op \in PlainOps
    BY StopTasks DEF PlainOps
  <2> HIDE DEF s
  <2>2. s \in Seq(Tasks) /\ DOMAIN s = Chunks /\ DOMAIN s = 1 .. Len(s)
    BY <2>1, TasksOfChunks
  <2> QED
    BY <2>1, <2>2
<1>3. Keeps(Now, Now') /\ PeersTyped' /\ PoolTyped'
  BY <1>1, StatusKeeps, PeersStay DEF IInv, Status
<1> HIDE DEF s
<1> QED
  BY <1>1, <1>2, <1>3, PlainEvent

LEMMA ResumeDownloadKeeps ==
  ASSUME IInv, NEW f \in Files, ResumeDownload(f)
  PROVE  IInv'
<1>1. /\ Handle(<<Scan>>) /\ UNCHANGED <<cd, links, occupied, running, peer, pool>>
      /\ file' = [file EXCEPT ![f] = "QUEUED"] /\ file[f] # "DELETED"
  BY DEF ResumeDownload
<1>2. Scan \in Tasks /\ Scan.op \in PlainOps
  BY TasksTyped DEF Scan, PlainOps
<1>3. Keeps(Now, Now') /\ PeersTyped' /\ PoolTyped'
  BY <1>1, StatusKeeps, PeersStay DEF IInv, Status
<1> QED
  BY <1>1, <1>2, <1>3, PlainOne

(* The transfers of a file that is removed are stopped before it is gone.  *)
LEMMA RemoveDownloadKeeps ==
  ASSUME IInv, NEW f \in Files, RemoveDownload(f)
  PROVE  IInv'
<1> DEFINE s == ForEach(ChunksOf(f), Stop)
           u == Destroy(f)
           tasks == s \o <<u>>
<1>1. /\ Handle(tasks) /\ UNCHANGED <<cd, links, occupied, running, peer, pool>>
      /\ file' = [file EXCEPT ![f] = "DELETED"]
  BY DEF RemoveDownload
<1>2. TypeOK /\ Now \in Transfers /\ agenda = <<>> /\ agenda' = tasks /\ AgendaSafe
  BY <1>1, NoAgenda
<1>3. /\ s \in [Chunks -> Tasks] /\ \A c \in Chunks : s[c].op \in {"stop", "nothing"}
      /\ \A c \in Chunks : FileOf[c] = f => s[c] = Stop(c)
  BY StopTasks
<1>4. u \in Tasks /\ u.op = "destroy"
  <2>1. u \in Tasks
    BY TasksTyped
  <2> QED
    BY <2>1 DEF Destroy
<1> HIDE DEF s, u
<1>5. /\ tasks \in Seq(Tasks)
      /\ \A c \in Chunks : c \in DOMAIN tasks /\ tasks[c] = s[c]
      /\ \A i \in 1 .. Len(tasks) : tasks[i].op \in {"stop", "nothing", "destroy"}
  <2> DEFINE v == <<u>>
  <2>1. v \in Seq(Tasks) /\ \A j \in 1 .. Len(v) : v[j] = u
    BY <1>4
  <2> HIDE DEF v
  <2>2. /\ s \o v \in Seq(Tasks)
        /\ \A c \in Chunks : c \in DOMAIN (s \o v) /\ (s \o v)[c] = s[c]
        /\ \A i \in 1 .. Len(s \o v) : (s \o v)[i].op \in {"stop", "nothing", "destroy"}
    BY <1>3, <1>4, <2>1, TasksThen
  <2> QED
    BY <2>2 DEF v
<1>6. DOMAIN tasks = 1 .. Len(tasks)
  BY <1>5
<1> HIDE DEF tasks
<1>7. HeadOnly' /\ PickAlive' /\ ForgottenStops'
  BY <1>2, <1>5, <1>6 DEF HeadOnly, PickAlive, ForgottenStops
<1>8. DeletedStops'
  <2>1. SUFFICES ASSUME NEW c \in Chunks, cd'[c].downloading, file'[FileOf[c]] = "DELETED"
                 PROVE  \E i \in DOMAIN tasks : tasks[i] = Stop(c)
    BY <1>2 DEF DeletedStops
  <2>2. FileOf[c] \in Files
    BY TransferAssumption
  <2>3. FileOf[c] = f
    BY <1>1, <1>2, <2>1, <2>2 DEF AgendaSafe, DeletedStops, TypeOK
  <2> QED
    BY <1>3, <1>5, <2>3
<1>9. \A c \in Chunks : Active(c)' <=> Active(c)
  <2>1. agenda' # <<>> => agenda'[1].op \notin {"wait", "end"}
    <3>1. agenda' # <<>> => 1 \in 1 .. Len(tasks)
      BY <1>2, <1>5
    <3> QED
      BY <1>2, <1>5, <3>1
  <2> QED
    BY <1>1, <1>2, <2>1 DEF Active, Ending
<1>10. TypeOK'
  <2>1. file' \in [Files -> Status]
    BY <1>1, <1>2 DEF TypeOK, Status
  <2> QED
    BY <1>1, <1>2, <1>5, <2>1 DEF TypeOK, pool
<1>11. Covers(Now')
  <2>1. Now' \in Transfers
    BY <1>10 DEF TypeOK, Now, Transfers
  <2>2. Now'.links = Now.links /\ \A c \in Chunks : Now'.cd[c].peers = Now.cd[c].peers
    BY <1>1 DEF Now
  <2> QED
    BY <1>2, <2>1, <2>2, SamePeersCover, CoversIsLinksCover DEF IInv
<1>12. LinksCover' /\ Exclusive' /\ Counted'
  BY <1>1, <1>9, <1>11, TransfersStay DEF IInv
<1> QED
  BY <1>7, <1>8, <1>10, <1>12 DEF IInv, AgendaSafe

LEMMA RestartDownloadKeeps ==
  ASSUME IInv, NEW f \in Files, RestartDownload(f)
  PROVE  IInv'
<1> DEFINE p == Source[f]
           s == ForEach(ChunksOf(f), LAMBDA c : Learn(c, p))
           u == Update(f)
           v == <<Update(f), Meet(p)>>
<1>1. /\ UNCHANGED <<cd, file, links, occupied, running, peer, pool>>
      /\ Handle(s \o v) \/ Handle(<<u>>)
  BY DEF RestartDownload
<1>2. p \in Peers
  BY TransferAssumption
<1>3. s \in [Chunks -> Tasks] /\ \A c \in Chunks : s[c].op \in PlainOps
  <2>1. s = [c \in Chunks |-> IF c \in ChunksOf(f) THEN Learn(c, p) ELSE Nothing]
    BY DEF ForEach
  <2>2. \A c \in Chunks : Learn(c, p) \in Tasks /\ Learn(c, p).op \in PlainOps
    BY <1>2, TasksTyped DEF Learn, PlainOps
  <2>3. Nothing \in Tasks /\ Nothing.op \in PlainOps
    BY TasksTyped DEF Nothing, PlainOps
  <2> HIDE DEF s
  <2> QED
    BY <2>1, <2>2, <2>3
<1>4. u \in Tasks /\ u.op \in PlainOps
  <2>1. u \in Tasks
    BY TasksTyped
  <2> QED
    BY <2>1 DEF Update, PlainOps
<1>5. v \in Seq(Tasks) /\ \A i \in 1 .. Len(v) : v[i].op \in PlainOps
  <2> DEFINE m == Meet(p)
  <2>1. m \in Tasks /\ m.op \in PlainOps
    <3>1. m \in Tasks
      BY <1>2, TasksTyped
    <3> QED
      BY <3>1 DEF Meet, PlainOps
  <2>2. v = <<u, m>>
    OBVIOUS
  <2> HIDE DEF u, m, v
  <2> QED
    BY <1>4, <2>1, <2>2
<1> HIDE DEF s, u, v
<1>6. Keeps(Now, Now') /\ PeersTyped' /\ PoolTyped'
  BY <1>1, UnchangedKeeps, PeersStay DEF IInv
<1>7. CASE Handle(s \o v)
  BY <1>1, <1>3, <1>5, <1>6, <1>7, PlainChunks
<1>8. CASE Handle(<<u>>)
  BY <1>1, <1>4, <1>6, <1>8, PlainOne
<1> QED
  BY <1>1, <1>7, <1>8

LEMMA MainEventKeeps == ASSUME IInv, MainEvent PROVE IInv'
BY AddPeerKeeps, RmPeerKeeps, PeerBecomesAvailableKeeps, PeerBecomesUnavailableKeeps,
   ResultRefusedKeeps, ResultWithoutKeeps, StreamKeeps, RunnableFinishedKeeps,
   PauseDownloadKeeps, ResumeDownloadKeeps, RemoveDownloadKeeps, RestartDownloadKeeps
   DEF MainEvent

-----------------------------------------------------------------------------
(* The threads of the pool.                                                *)

LEMMA ExitTyped ==
  ASSUME TypeOK, NEW t \in Threads, Exit(t)
  PROVE  PoolTyped'
BY DEF TypeOK, PoolTyped, Thread, Exit

LEMMA RunnerIsChunk ==
  ASSUME NEW c \in Chunks, NEW v \in {"QUEUED", "ERROR"},
         TypeOK, cd' = [cd EXCEPT ![c].status = v] \/ cd' = [cd EXCEPT ![c].complete = TRUE],
         UNCHANGED <<links, file>>
  PROVE  Keeps(Now, Now')
<1> DEFINE r == [cd[c] EXCEPT !.status = v]
           q == [cd[c] EXCEPT !.complete = TRUE]
<1>1. cd \in [Chunks -> ChunkDownloader] /\ cd[c] \in ChunkDownloader
  BY DEF TypeOK
<1>2. /\ r \in ChunkDownloader /\ q \in ChunkDownloader
      /\ r.downloading = cd[c].downloading /\ q.downloading = cd[c].downloading
      /\ r.current = cd[c].current /\ q.current = cd[c].current
      /\ r.request = cd[c].request /\ q.request = cd[c].request
      /\ r.slots = cd[c].slots /\ q.slots = cd[c].slots
      /\ r.peers = cd[c].peers /\ q.peers = cd[c].peers
  BY <1>1 DEF ChunkDownloader
<1>3. cd' = [cd EXCEPT ![c] = r] \/ cd' = [cd EXCEPT ![c] = q]
  OBVIOUS
<1> HIDE DEF r, q
<1>4. PICK w \in {r, q} : cd' = [cd EXCEPT ![c] = w]
  BY <1>3
<1>5. /\ cd' \in [Chunks -> ChunkDownloader]
      /\ \A d \in Chunks : cd'[d] = IF d = c THEN w ELSE cd[d]
  BY <1>1, <1>2, <1>4
<1>6. \A d \in Chunks : /\ cd'[d].downloading = cd[d].downloading
                        /\ cd'[d].current = cd[d].current
                        /\ cd'[d].request # "none" => cd[d].request # "none"
                        /\ cd'[d].slots = cd[d].slots
                        /\ cd'[d].peers = cd[d].peers
  BY <1>2, <1>5
<1> QED
  BY <1>5, <1>6, ChunksKeep

LEMMA RunStartsKeeps ==
  ASSUME IInv, NEW t \in Threads, RunStarts(t)
  PROVE  IInv'
<1> DEFINE c == thread[t].runnable
<1>1. /\ UNCHANGED <<file, links, occupied, running, peer, activeThreads, inactiveThreads, posted, agenda>>
      /\ thread' = [thread EXCEPT ![t].phase = "running"]
      /\ cd' = IF c = None THEN cd ELSE [cd EXCEPT ![c].status = "QUEUED"]
      /\ TypeOK
  BY DEF RunStarts, IInv
<1>2. PoolTyped' /\ PeersTyped' /\ c \in Chunks \cup {None}
  BY <1>1 DEF TypeOK, PoolTyped, PeersTyped, Thread
<1> HIDE DEF c
<1>3. Keeps(Now, Now')
  <2>1. CASE c = None
    BY <1>1, <2>1, UnchangedKeeps
  <2>2. CASE c # None
    <3>1. c \in Chunks /\ cd' = [cd EXCEPT ![c].status = "QUEUED"]
      BY <1>1, <1>2, <2>2
    <3> QED
      BY <1>1, <3>1, RunnerIsChunk
  <2> QED
    BY <2>1, <2>2
<1> QED
  BY <1>1, <1>2, <1>3, QuietWorker

LEMMA PostFinishedKeeps ==
  ASSUME IInv, NEW t \in Threads, PostFinished(t)
  PROVE  IInv'
<1>1. /\ UNCHANGED <<cd, file, links, occupied, running, peer, activeThreads, inactiveThreads, agenda>>
      /\ thread' = [thread EXCEPT ![t].phase = "idle"]
      /\ posted' = Append(posted, t) /\ TypeOK
  BY DEF PostFinished, IInv
<1>2. PoolTyped'
  <2>1. thread' \in [Threads -> Thread]
    BY <1>1 DEF TypeOK, Thread
  <2>2. posted' \in Seq(Threads)
    BY <1>1 DEF TypeOK
  <2> QED
    BY <1>1, <2>1, <2>2 DEF TypeOK, PoolTyped
<1>3. PeersTyped' /\ Keeps(Now, Now')
  BY <1>1, UnchangedKeeps DEF TypeOK, PeersTyped
<1> QED
  BY <1>1, <1>2, <1>3, QuietWorker

LEMMA RunAbortedKeeps ==
  ASSUME IInv, NEW t \in Threads, RunAborted(t)
  PROVE  IInv'
<1>1. Exit(t) /\ UNCHANGED <<cd, file, links, occupied, running, peer, agenda>> /\ TypeOK
  BY DEF RunAborted, IInv
<1>2. PoolTyped' /\ PeersTyped' /\ Keeps(Now, Now')
  BY <1>1, UnchangedKeeps, ExitTyped DEF TypeOK, PeersTyped
<1> QED
  BY <1>1, <1>2, QuietWorker

LEMMA RunCompletesKeeps ==
  ASSUME IInv, NEW t \in Threads, NEW c \in Chunks, RunCompletes(t, c) \/ RunFails(t, c)
  PROVE  IInv'
<1>1. /\ Exit(t) /\ UNCHANGED <<file, links, occupied, running, peer, agenda>> /\ TypeOK
      /\ cd' = [cd EXCEPT ![c].status = "ERROR"] \/ cd' = [cd EXCEPT ![c].complete = TRUE]
  BY DEF RunCompletes, RunFails, IInv
<1>2. PoolTyped' /\ PeersTyped' /\ Keeps(Now, Now')
  BY <1>1, RunnerIsChunk, ExitTyped DEF TypeOK, PeersTyped
<1> QED
  BY <1>1, <1>2, QuietWorker

(* A peer is blocked: it was not out of reach before, it is now.           *)
LEMMA RunMismatchKeeps ==
  ASSUME IInv, NEW t \in Threads, NEW c \in Chunks, RunMismatch(t, c)
  PROVE  IInv'
<1> DEFINE p == cd[c].current
<1>1. /\ Exit(t) /\ UNCHANGED <<file, links, occupied, running, agenda>> /\ TypeOK
      /\ cd' = [cd EXCEPT ![c].status = "ERROR"]
      /\ peer' = [peer EXCEPT ![p] = IF @ = "up" THEN "blocked" ELSE @]
  BY DEF RunMismatch, IInv
<1> HIDE DEF p
<1>2. PeersTyped' /\ \A q \in Peers : peer[q] # "up" => peer'[q] # "up"
  BY <1>1 DEF TypeOK, PeersTyped
<1>3. PoolTyped' /\ Keeps(Now, Now')
  BY <1>1, RunnerIsChunk, ExitTyped
<1> QED
  BY <1>1, <1>2, <1>3, QuietWorker

LEMMA RunSwitchesKeeps ==
  ASSUME IInv, NEW t \in Threads, NEW c \in Chunks, RunSwitches(t, c)
  PROVE  IInv'
<1> DEFINE x == DropAndTell(Now, c, Unavailable)
<1>1. /\ Become(x) /\ UNCHANGED <<occupied, running, peer, agenda>>
      /\ Exit(t) \/ UNCHANGED pool
      /\ TypeOK
  BY DEF RunSwitches, IInv
<1>2. Keeps(Now, x)
  BY <1>1, NowTyped, DropAndTellKeeps DEF Unavailable
<1> HIDE DEF x
<1>3. PoolTyped' /\ PeersTyped' /\ Keeps(Now, Now')
  BY <1>1, <1>2, BecomeKeeps, ExitTyped, PoolStays DEF TypeOK, PeersTyped
<1> QED
  BY <1>1, <1>3, QuietWorker

LEMMA WorkerStepKeeps ==
  ASSUME IInv, NEW t \in Threads, WorkerStep(t)
  PROVE  IInv'
BY RunStartsKeeps, RunAbortedKeeps, PostFinishedKeeps, RunCompletesKeeps, RunMismatchKeeps,
   RunSwitchesKeeps DEF WorkerStep

-----------------------------------------------------------------------------
LEMMA InitSound == ASSUME Init PROVE IInv
<1>1. TypeOK
  <2>1. [peers |-> {}, current |-> None, downloading |-> FALSE, request |-> "none",
         complete |-> FALSE, status |-> "QUEUED", slots |-> 0] \in ChunkDownloader
    BY TransferAssumption DEF ChunkDownloader
  <2>2. cd \in [Chunks -> ChunkDownloader]
    BY <2>1 DEF Init
  <2>3. <<>> \in Seq(Threads) /\ <<>> \in Seq(Tasks)
    OBVIOUS
  <2>4. file \in [Files -> Status] /\ links \in [Peers -> Nat]
        /\ peer \in [Peers -> {"up", "blocked", "dead"}] /\ thread \in [Threads -> Thread]
    BY DEF Init, Status, Thread
  <2>5. occupied \subseteq Peers /\ running \in Int
    BY DEF Init
  <2>6. /\ activeThreads \in Seq(Threads) /\ inactiveThreads \in Seq(Threads)
        /\ posted \in Seq(Threads) /\ agenda \in Seq(Tasks)
    BY <2>3 DEF Init
  <2> QED
    BY <2>2, <2>4, <2>5, <2>6, Zenon DEF TypeOK
<1>2. /\ \A c \in Chunks : cd[c].peers = {} /\ cd[c].downloading = FALSE /\ cd[c].request = "none"
      /\ agenda = <<>> /\ occupied = {} /\ running = 0 /\ \A p \in Peers : links[p] = 0
  BY DEF Init
<1>3. LinksCover
  <2>1. \A p \in Peers : Having(p) = {}
    BY <1>2 DEF Having
  <2>2. Cardinality({}) = 0
    BY FS_EmptySet
  <2> QED
    BY <1>2, <2>1, <2>2 DEF LinksCover
<1>4. Actives = {}
  BY <1>2 DEF Actives, Active, Ending
<1>5. Exclusive /\ Counted
  BY <1>2, <1>4, FS_EmptySet DEF Exclusive, Counted
<1>6. AgendaSafe
  BY <1>2 DEF AgendaSafe, HeadOnly, PickAlive, DeletedStops, ForgottenStops
<1> QED
  BY <1>1, <1>3, <1>5, <1>6 DEF IInv

LEMMA StutterKeeps == ASSUME IInv, UNCHANGED vars PROVE IInv'
<1>1. PoolTyped' /\ PeersTyped' /\ Keeps(Now, Now')
  BY UnchangedKeeps DEF IInv, TypeOK, PoolTyped, PeersTyped, vars, pool
<1> QED
  BY <1>1, QuietWorker DEF vars

LEMMA NextSound == ASSUME IInv, [Next]_vars PROVE IInv'
BY MainStepKeeps, MainEventKeeps, WorkerStepKeeps, StutterKeeps DEF Next

(* The inductive invariant holds of every behaviour.                       *)
THEOREM InvariantHolds == Spec => []IInv
<1>1. Init => IInv
  BY InitSound
<1>2. IInv /\ [Next]_vars => IInv'
  BY NextSound
<1> QED
  BY <1>1, <1>2, PTL DEF Spec

(* The state of the manager, of its chunks and of the pool has its type:   *)
(* the peer given back at the end of a transfer is one, whatever came      *)
(* between its start and its end (setPeerAsFree dereferences it).          *)
THEOREM TypeCorrect == Spec => []TypeOK
BY InvariantHolds, PTL DEF IInv

(* Two chunks are never downloaded from one peer at the same time, however *)
(* the handlers, the events and the threads interleave.                    *)
THEOREM PeerHasOneChunk == Spec => []OneChunkPerPeer
<1>1. ASSUME IInv PROVE OneChunkPerPeer
  BY <1>1 DEF IInv, Exclusive, Actives, Active, OneChunkPerPeer
<1> QED
  BY <1>1, InvariantHolds, PTL

(* Between two handlers, the occupied peers are those of the transfers.    *)
THEOREM NoPeerStaysOccupied == Spec => []OccupiedIsDownloading
<1>1. ASSUME IInv PROVE OccupiedIsDownloading
  <2>1. SUFFICES ASSUME agenda = <<>>
                 PROVE  occupied = {cd[c].current : c \in {d \in Chunks : cd[d].downloading}}
    BY DEF OccupiedIsDownloading
  <2>2. Actives = {d \in Chunks : cd[d].downloading}
    BY <1>1, <2>1 DEF Actives, Active, Ending, IInv, TypeOK, ChunkDownloader
  <2> QED
    BY <1>1, <2>2 DEF IInv, Exclusive
<1> QED
  BY <1>1, InvariantHolds, PTL

(* LinkedPeers never counts less chunks than a peer has.                   *)
THEOREM LinksAreEnough == Spec => []LinksCover
BY InvariantHolds, PTL DEF IInv

(* The manager never believes that more transfers run than do.             *)
THEOREM RunningIsTrue == Spec => []RunningNotOvercounted
<1>1. ASSUME IInv PROVE RunningNotOvercounted
  <2>1. SUFFICES ASSUME agenda = <<>>
                 PROVE  running <= Cardinality(Downloading)
    BY DEF RunningNotOvercounted
  <2>2. Actives = Downloading
    BY <1>1, <2>1 DEF Actives, Active, Ending, Downloading, IInv, TypeOK, ChunkDownloader
  <2> QED
    BY <1>1, <2>2 DEF IInv, Counted
<1> QED
  BY <1>1, InvariantHolds, PTL
=============================================================================
