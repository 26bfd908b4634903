------------------------ MODULE DirRetrievalProofs ------------------------
(***************************************************************************)
(* Proofs about DirRetrieval for every set of directories and of peers.    *)
(*                                                                         *)
(* Sound is what every function of one download preserves, and Good what   *)
(* every call of retrieveEntries and every rescan re-establishes.  The     *)
(* heart is ScanGood: when at most the peer just freed is idle, the one    *)
(* request a scan sends is enough to leave no peer idle.                   *)
(***************************************************************************)
EXTENDS DirRetrieval, TLAPS

Sound(e) ==
  /\ e \in Download
  /\ e.asking => e.source /\ (Refuses(e) => e.status = "DELETED")

AllSound(dls) == dls \in [Dirs -> Download] /\ \A d \in Dirs : Sound(dls[d])

\* The result r leaves no directory that could be asked.
Good(r, avail) ==
  /\ AllSound(r.dl)
  /\ r.occ \subseteq Peers
  /\ \A d \in InQueue(r.dl) : ~CanAsk(d, r.dl[d], r.occ, avail)

-----------------------------------------------------------------------------
(* retrieveEntries on one download.                                        *)

\* A call in vain changes neither the source nor what the status forbids.
LEMMA NotAskedSound ==
  ASSUME NEW e, Sound(e)
  PROVE  /\ Sound(NotAsked(e))
         /\ NotAsked(e).source = e.source
         /\ Refuses(NotAsked(e)) <=> Refuses(e)
         /\ Refuses(e) => NotAsked(e) = e
         /\ NotAsked(e).status = "DELETED" <=> e.status = "DELETED"
<1>1. CASE Refuses(e)
  BY <1>1 DEF NotAsked
<1>2. CASE ~Refuses(e) /\ e.source
  <2>1. NotAsked(e) = [e EXCEPT !.asking = FALSE]
    BY <1>2 DEF NotAsked
  <2> QED  BY <1>2, <2>1 DEF Sound, Download, Refuses
<1>3. CASE ~Refuses(e) /\ ~e.source
  <2>1. NotAsked(e) = [e EXCEPT !.status = "UNKNOWN_PEER_SOURCE"]
    BY <1>3 DEF NotAsked
  <2> QED  BY <1>3, <2>1 DEF Sound, Download, Refuses, Status
<1> QED  BY <1>1, <1>2, <1>3

\* A request is sent by a download that knows its peer and may ask.
LEMMA AskedSound ==
  ASSUME NEW d, NEW e, NEW occ, NEW avail, Sound(e), CanAsk(d, e, occ, avail)
  PROVE  Sound(Asked(e)) /\ Asked(e).status = e.status
BY DEF Sound, Asked, CanAsk, Refuses, Download

\* retrieveEntries called for d alone, when no other download could be asked.
LEMMA RetrieveGood ==
  ASSUME NEW d \in Dirs, NEW e, Sound(e), AllSound(dl), occupied \subseteq Peers,
         \A g \in InQueue(dl) \ {d} : ~CanAsk(g, dl[g], occupied, Available),
         ConstantsAssumption
  PROVE  /\ Good(RetrieveEntries(d, e, dl, occupied), Available)
         /\ \A g \in Dirs : Refuses(RetrieveEntries(d, e, dl, occupied).dl[g])
              => RetrieveEntries(d, e, dl, occupied).dl[g] = [dl EXCEPT ![d] = e][g]
<1> DEFINE r == RetrieveEntries(d, e, dl, occupied)
<1>1. CASE CanAsk(d, e, occupied, Available)
  <2>1. r = [dl |-> [dl EXCEPT ![d] = Asked(e)], occ |-> occupied \cup {Source[d]}]
    BY <1>1 DEF RetrieveEntries
  <2>2. AllSound(r.dl)
    BY <1>1, <2>1, AskedSound DEF AllSound, Sound
  <2>3. r.occ \subseteq Peers
    BY <2>1 DEF ConstantsAssumption
  <2>4. ASSUME NEW g \in InQueue(r.dl) PROVE ~CanAsk(g, r.dl[g], r.occ, Available)
    BY <2>1, <2>4 DEF CanAsk, InQueue, AllSound
  <2>5. Good(r, Available)
    <3> HIDE DEF r
    <3> QED  BY <2>2, <2>3, <2>4 DEF Good
  <2>6. \A g \in Dirs : Refuses(r.dl[g]) => r.dl[g] = [dl EXCEPT ![d] = e][g]
    BY <1>1, <2>1, AskedSound DEF AllSound, CanAsk, Refuses
  <2> QED  BY <2>5, <2>6
<1>2. CASE ~CanAsk(d, e, occupied, Available)
  <2>1. r = [dl |-> [dl EXCEPT ![d] = NotAsked(e)], occ |-> occupied]
    BY <1>2 DEF RetrieveEntries
  <2>2. AllSound(r.dl)
    BY <2>1, NotAskedSound DEF AllSound, Sound
  <2>3. ~CanAsk(d, NotAsked(e), occupied, Available)
    BY <1>2, NotAskedSound DEF CanAsk
  <2>4. ASSUME NEW g \in InQueue(r.dl) PROVE ~CanAsk(g, r.dl[g], r.occ, Available)
    <3>1. CASE g = d
      BY <2>1, <2>3, <3>1 DEF AllSound
    <3>2. CASE g # d
      BY <2>1, <2>4, <3>2 DEF InQueue, AllSound
    <3> QED  BY <3>1, <3>2
  <2>5. r.occ \subseteq Peers
    BY <2>1
  <2>6. Good(r, Available)
    <3> HIDE DEF r
    <3> QED  BY <2>2, <2>4, <2>5 DEF Good
  <2>7. \A g \in Dirs : Refuses(r.dl[g]) => r.dl[g] = [dl EXCEPT ![d] = e][g]
    BY <2>1, NotAskedSound DEF AllSound
  <2> QED  BY <2>6, <2>7
<1> QED  BY <1>1, <1>2

-----------------------------------------------------------------------------
(* The rescans.                                                            *)

\* Trying some downloads in vain.
LEMMA RefusedSound ==
  ASSUME NEW dls, AllSound(dls), NEW set
  PROVE  /\ AllSound(Refused(set, dls))
         /\ \A d \in Dirs :
              /\ Refused(set, dls)[d].source = dls[d].source
              /\ Refuses(Refused(set, dls)[d]) <=> Refuses(dls[d])
              /\ Refuses(dls[d]) \/ d \notin set => Refused(set, dls)[d] = dls[d]
              /\ Refused(set, dls)[d].status = "DELETED" <=> dls[d].status = "DELETED"
<1>1. ASSUME NEW d \in Dirs
      PROVE  /\ Sound(Refused(set, dls)[d])
             /\ Refused(set, dls)[d].source = dls[d].source
             /\ Refuses(Refused(set, dls)[d]) <=> Refuses(dls[d])
             /\ Refuses(dls[d]) \/ d \notin set => Refused(set, dls)[d] = dls[d]
             /\ Refused(set, dls)[d].status = "DELETED" <=> dls[d].status = "DELETED"
  <2>1. Refused(set, dls)[d] = IF d \in set THEN NotAsked(dls[d]) ELSE dls[d]
    BY DEF Refused
  <2>2. Sound(dls[d])
    BY DEF AllSound
  <2> QED  BY <2>1, <2>2, NotAskedSound
<1>2. Refused(set, dls) \in [Dirs -> Download]
  BY <1>1 DEF Refused, Sound
<1> QED  BY <1>1, <1>2 DEF AllSound

\* peerNoLongerAskingForEntries: if only directories of p could be asked, then
\* none could be asked after the scan, and it left alone those not in the queue
\* and those that refuse.
LEMMA ScanGood ==
  ASSUME ConstantsAssumption,
         NEW p \in Peers, NEW dls, AllSound(dls), NEW occ \in SUBSET Peers, NEW avail,
         \A d \in InQueue(dls) : CanAsk(d, dls[d], occ, avail) => Source[d] = p,
         NEW r \in ScanFor(p, dls, occ, avail)
  PROVE  /\ Good(r, avail)
         /\ \A d \in Dirs : d \notin InQueue(dls) \/ Refuses(dls[d]) \/ Refuses(r.dl[d])
                        => r.dl[d] = dls[d]
<1>1. \A d \in Dirs : d \in Able(dls, occ, avail) <=> d \in InQueue(dls) /\ CanAsk(d, dls[d], occ, avail)
  BY DEF Able, InQueue
<1>2. CASE r = Result(dls, occ) /\ ~\E d \in InQueue(dls) : Source[d] = p
  BY <1>2 DEF Result, Good
<1>3. CASE Able(dls, occ, avail) = {} /\ r = Result(Refused(InQueue(dls), dls), occ)
  <2>1. r.dl = Refused(InQueue(dls), dls) /\ r.occ = occ
    BY <1>3 DEF Result
  <2>2. ASSUME NEW d \in InQueue(r.dl) PROVE ~CanAsk(d, r.dl[d], r.occ, avail)
    <3>1. d \in Dirs
      BY DEF InQueue
    <3>2. CASE d \in InQueue(dls)
      BY <1>1, <1>3, <2>1, <3>1, <3>2, RefusedSound DEF CanAsk
    <3>3. CASE d \notin InQueue(dls)
      BY <2>1, <3>1, <3>3, RefusedSound DEF InQueue
    <3> QED  BY <3>2, <3>3
  <2> QED  BY <2>1, <2>2, RefusedSound DEF Good
<1>4. CASE \E d \in Able(dls, occ, avail), before \in SUBSET (InQueue(dls) \ Able(dls, occ, avail)) :
             r = FirstAsked(d, before, dls, occ)
  <2>1. PICK d \in Able(dls, occ, avail), before \in SUBSET (InQueue(dls) \ Able(dls, occ, avail)) :
             r = FirstAsked(d, before, dls, occ)
    BY <1>4
  <2>2. d \in InQueue(dls) /\ CanAsk(d, dls[d], occ, avail) /\ d \in Dirs
    BY <1>1, <2>1 DEF Able, InQueue
  <2>3. Source[d] = p
    BY <2>2
  <2> DEFINE others == Refused(before, dls)
  <2>4. /\ AllSound(others)
        /\ \A g \in Dirs :
             /\ others[g].source = dls[g].source
             /\ Refuses(others[g]) <=> Refuses(dls[g])
             /\ Refuses(dls[g]) \/ g \notin before => others[g] = dls[g]
             /\ others[g].status = "DELETED" <=> dls[g].status = "DELETED"
    BY RefusedSound
  <2> HIDE DEF others
  <2>5. r.dl = [others EXCEPT ![d] = Asked(dls[d])] /\ r.occ = occ \cup {p}
    BY <2>1, <2>3 DEF FirstAsked, Result, others
  <2>6. Sound(Asked(dls[d])) /\ Asked(dls[d]).status = dls[d].status
    BY <2>2, AskedSound DEF AllSound
  <2>7. AllSound(r.dl)
    <3>1. r.dl \in [Dirs -> Download]
      BY <2>4, <2>5, <2>6 DEF AllSound, Sound
    <3>2. ASSUME NEW g \in Dirs PROVE Sound(r.dl[g])
      <4>1. CASE g = d
        BY <2>4, <2>5, <2>6, <4>1 DEF AllSound
      <4>2. CASE g # d
        BY <2>4, <2>5, <4>2 DEF AllSound
      <4> QED  BY <4>1, <4>2
    <3> QED  BY <3>1, <3>2 DEF AllSound
  <2>8. r.occ \subseteq Peers
    BY <2>5
  <2>11. ASSUME NEW g \in Dirs, Refuses(r.dl[g]) PROVE Refuses(dls[g])
    BY <2>2, <2>4, <2>5, <2>6, <2>11 DEF AllSound, Refuses
  <2>9. ASSUME NEW g \in Dirs, g \notin InQueue(dls) \/ Refuses(dls[g])
        PROVE  r.dl[g] = dls[g]
    <3>1. g # d
      BY <2>2, <2>9 DEF CanAsk
    <3>2. g \notin before \/ Refuses(dls[g])
      BY <2>1, <2>9
    <3> QED  BY <2>4, <2>5, <3>1, <3>2 DEF AllSound
  <2>10. ASSUME NEW g \in InQueue(r.dl) PROVE ~CanAsk(g, r.dl[g], r.occ, avail)
    <3>1. g \in Dirs
      BY DEF InQueue
    <3>2. g \in InQueue(dls)
      BY <2>9, <3>1 DEF InQueue
    <3>3. CASE g = d
      BY <2>3, <2>5, <3>3 DEF CanAsk
    <3>4. CASE g # d
      <4>1. r.dl[g] = others[g]
        BY <2>4, <2>5, <3>1, <3>4 DEF AllSound
      <4> QED  BY <2>4, <2>5, <3>1, <3>2, <4>1 DEF CanAsk
    <3> QED  BY <3>3, <3>4
  <2> QED  BY <2>7, <2>8, <2>9, <2>11, <2>10 DEF Good
<1>5. \/ r \in EntriesScan(dls, occ, avail)
      \/ r = Result(dls, occ) /\ ~\E d \in InQueue(dls) : Source[d] = p
  BY DEF ScanFor
<1>6. r \in EntriesScan(dls, occ, avail) /\ Able(dls, occ, avail) = {}
        => r = Result(Refused(InQueue(dls), dls), occ)
  BY DEF EntriesScan
<1>7. r \in EntriesScan(dls, occ, avail) /\ Able(dls, occ, avail) # {}
        => \E d \in Able(dls, occ, avail),
              before \in SUBSET (InQueue(dls) \ Able(dls, occ, avail)) :
             r = FirstAsked(d, before, dls, occ)
  BY DEF EntriesScan
<1> QED  BY <1>2, <1>3, <1>4, <1>5, <1>6, <1>7

\* OccupiedPeers::setPeerAsFree, when no directory could be asked before.
LEMMA FreeGood ==
  ASSUME ConstantsAssumption,
         NEW p \in Peers, NEW dls, AllSound(dls), NEW occ \in SUBSET Peers,
         \A d \in InQueue(dls) : ~CanAsk(d, dls[d], occ, Available),
         NEW r \in SetPeerAsFree(p, dls, occ)
  PROVE  /\ Good(r, Available)
         /\ \A d \in Dirs : d \notin InQueue(dls) \/ Refuses(dls[d]) \/ Refuses(r.dl[d])
                        => r.dl[d] = dls[d]
<1>1. CASE p \in Available
  <2> DEFINE left == occ \ {p}
  <2>1. r \in ScanFor(p, dls, left, Available)
    BY <1>1 DEF SetPeerAsFree
  <2>2. \A d \in InQueue(dls) : CanAsk(d, dls[d], left, Available) => Source[d] = p
    BY DEF CanAsk
  <2>3. left \in SUBSET Peers
    OBVIOUS
  <2> HIDE DEF left
  <2> DEFINE open == Available
  <2>4. r \in ScanFor(p, dls, left, open)
    BY <2>1
  <2>5. \A d \in InQueue(dls) : CanAsk(d, dls[d], left, open) => Source[d] = p
    BY <2>2
  <2>6. /\ Good(r, open)
        /\ \A d \in Dirs : d \notin InQueue(dls) \/ Refuses(dls[d]) \/ Refuses(r.dl[d])
                       => r.dl[d] = dls[d]
    <3> HIDE DEF open
    <3>1. Good(r, open)
      BY <2>3, <2>4, <2>5, ScanGood
    <3>2. \A d \in Dirs : d \notin InQueue(dls) \/ Refuses(dls[d]) \/ Refuses(r.dl[d])
                       => r.dl[d] = dls[d]
      BY <2>3, <2>4, <2>5, ScanGood
    <3> QED  BY <3>1, <3>2
  <2> QED  BY <2>6
<1>2. CASE p \notin Available
  <2>1. r.dl = dls /\ r.occ = occ \ {p}
    BY <1>2 DEF SetPeerAsFree, Result
  <2> QED  BY <1>2, <2>1 DEF Good, CanAsk
<1> QED  BY <1>1, <1>2

\* OccupiedPeers::newPeer, when only directories of the new peer could be asked.
LEMMA NewPeerGood ==
  ASSUME ConstantsAssumption,
         NEW p \in Peers, NEW dls, AllSound(dls), NEW occ \in SUBSET Peers, NEW avail,
         \A d \in InQueue(dls) : CanAsk(d, dls[d], occ, avail) => Source[d] = p,
         NEW r \in NewPeer(p, dls, occ, avail)
  PROVE  /\ Good(r, avail)
         /\ \A d \in Dirs : Refuses(r.dl[d]) => r.dl[d] = dls[d]
<1>1. CASE p \in occ
  <2>1. r.dl = dls /\ r.occ = occ
    BY <1>1 DEF NewPeer, Result
  <2> QED  BY <1>1, <2>1 DEF Good, CanAsk
<1>2. CASE p \notin occ
  BY <1>2, ScanGood DEF NewPeer
<1> QED  BY <1>1, <1>2

-----------------------------------------------------------------------------
(* The inductive invariant.                                                *)

Sets ==
  /\ starting \subseteq Dirs
  /\ doomed \subseteq Dirs
  /\ occupied \subseteq Peers
  /\ alive \subseteq Peers
  /\ blocked \subseteq Peers

IInv == AllSound(dl) /\ Sets /\ NoIdlePeer /\ NotFoundIsRetried

LEMMA NoIdlePeerMeaning ==
  NoIdlePeer <=> \A d \in InQueue(dl) : ~CanAsk(d, dl[d], occupied, Available)
BY DEF NoIdlePeer, Able

\* start of a new or erroneous download.
LEMMA StartGood ==
  ASSUME ConstantsAssumption, IInv, NEW d \in Dirs, NEW e, Sound(e), ~e.asking,
         NEW r \in {RetrieveEntries(d, u, dl, occupied) : u \in Updated(d, e)}
  PROVE  /\ Good(r, Available)
         /\ \A g \in Dirs : r.dl[g].status = "ENTRY_NOT_FOUND" => r.dl[g] = dl[g]
<1>1. PICK u \in Updated(d, e) : r = RetrieveEntries(d, u, dl, occupied)
  OBVIOUS
<1>2. PICK s \in {"QUEUED", "UNKNOWN_PEER_SOURCE", "ERROR"} : u = [e EXCEPT !.status = s]
  BY <1>1 DEF Updated
<1>3. Sound(u) /\ u.status # "ENTRY_NOT_FOUND"
  BY <1>2 DEF Sound, Download, Status
<1>4. /\ Good(r, Available)
      /\ \A g \in Dirs : Refuses(r.dl[g]) => r.dl[g] = [dl EXCEPT ![d] = u][g]
  BY <1>1, <1>3, RetrieveGood, NoIdlePeerMeaning DEF IInv, Sets
<1> QED  BY <1>3, <1>4 DEF IInv, AllSound, Refuses

\* The state a Good result becomes, the queue being what it was.
LEMMA GoodNext ==
  ASSUME NEW r, Good(r, Available'), dl' = r.dl, occupied' = r.occ,
         \A d \in Dirs : d \in InQueue(dl)' => d \in InQueue(r.dl)
  PROVE  AllSound(dl)' /\ (occupied \subseteq Peers)' /\ NoIdlePeer'
<1>1. AllSound(dl)' /\ (occupied \subseteq Peers)'
  BY DEF Good, AllSound, Sound, Refuses
<1>2. \A d \in Dirs : d \in InQueue(dl)' => ~CanAsk(d, r.dl[d], r.occ, Available')
  BY DEF Good
<1>3. NoIdlePeer'
  BY <1>2 DEF NoIdlePeer, Able, CanAsk, Refuses, InQueue
<1> QED  BY <1>1, <1>3

\* Start(d, e), the queue and the peers being left alone.
LEMMA StartStep ==
  ASSUME ConstantsAssumption, IInv, NEW d \in Dirs, NEW e, Sound(e), ~e.asking,
         Start(d, e), UNCHANGED <<doomed, alive, blocked>>,
         (starting \subseteq Dirs)'
  PROVE  IInv'
<1>1. PICK r \in {RetrieveEntries(d, u, dl, occupied) : u \in Updated(d, e)} :
        dl' = r.dl /\ occupied' = r.occ
  BY DEF Start, Becomes
<1>2. /\ Good(r, Available')
      /\ \A g \in Dirs : r.dl[g].status = "ENTRY_NOT_FOUND" => r.dl[g] = dl[g]
  BY <1>1, StartGood DEF Available
<1>3. \A g \in Dirs : g \in InQueue(dl)' => g \in InQueue(r.dl)
  BY <1>1 DEF InQueue
<1>4. NotFoundIsRetried'
  BY <1>1, <1>2 DEF IInv, NotFoundIsRetried
<1> QED  BY <1>1, <1>2, <1>3, <1>4, GoodNext DEF IInv, Sets

LEMMA NewDownloadSound == Sound(NewDownload) /\ ~NewDownload.asking
BY DEF Sound, NewDownload, Download, Status, Refuses

LEMMA AddDownloadStep ==
  ASSUME ConstantsAssumption, IInv, NEW d \in Dirs, AddDownload(d)
  PROVE  IInv'
BY StartStep, NewDownloadSound DEF AddDownload, IInv, Sets

LEMMA AddChildStep ==
  ASSUME ConstantsAssumption, IInv, NEW d \in Dirs, AddChild(d)
  PROVE  IInv'
BY StartStep, NewDownloadSound DEF AddChild, IInv, Sets

LEMMA RestartErroneousStep ==
  ASSUME ConstantsAssumption, IInv, NEW d \in Dirs, RestartErroneous(d)
  PROVE  IInv'
<1>1. Sound(dl[d]) /\ ~dl[d].asking
  BY DEF IInv, AllSound, Sound, RestartErroneous, Refuses
<1> QED  BY <1>1, StartStep DEF RestartErroneous, IInv, Sets

\* The directory leaves the queue and its children are not yet in it.
LEMMA NewEntriesStep ==
  ASSUME IInv, NEW d \in Dirs, NEW children \in SUBSET Dirs, NewEntries(d, children)
  PROVE  IInv'
<1>1. dl' = [dl EXCEPT ![d].asking = FALSE] /\ doomed' = {d} /\ doomed = {}
  BY DEF NewEntries, Quiet
<1>2. AllSound(dl)'
  <2>1. \A g \in Dirs : Sound(dl[g])
    BY DEF IInv, AllSound
  <2>2. dl' \in [Dirs -> Download]
    BY <1>1 DEF IInv, AllSound, Download
  <2>3. ASSUME NEW g \in Dirs PROVE Sound(dl[g])'
    <3>1. dl'[g] = IF g = d THEN [dl[d] EXCEPT !.asking = FALSE] ELSE dl[g]
      BY <1>1 DEF IInv, AllSound
    <3> QED  BY <2>1, <3>1 DEF Sound, Refuses, Download
  <2> QED  BY <2>2, <2>3 DEF AllSound
<1>3. ASSUME NEW g \in Dirs, g \in InQueue(dl)'
      PROVE  g \in InQueue(dl) /\ dl'[g] = dl[g]
  BY <1>1, <1>3 DEF InQueue, IInv, AllSound
<1>4. Available' = Available /\ occupied' = occupied
  BY DEF NewEntries, Available
<1>5. NoIdlePeer'
  BY <1>3, <1>4, NoIdlePeerMeaning DEF IInv, NoIdlePeer, Able, CanAsk, Refuses, InQueue
<1>6. Sets'
  BY <1>1 DEF NewEntries, IInv, Sets
<1>7. NotFoundIsRetried'
  <2>1. \A g \in Dirs : dl'[g].status = dl[g].status /\ dl'[g].retries = dl[g].retries
    BY <1>1 DEF IInv, AllSound, Download
  <2> QED  BY <2>1 DEF IInv, NotFoundIsRetried
<1> QED  BY <1>2, <1>5, <1>6, <1>7 DEF IInv

\* setPeerAsFree by a download that has just become one no scan tries.
LEMMA GivenBackGood ==
  ASSUME ConstantsAssumption, IInv, NEW d \in Dirs, NEW e, Sound(e), Refuses(e),
         NEW r \in GivenBack(d, [dl EXCEPT ![d] = e])
  PROVE  /\ Good(r, Available)
         /\ r.dl[d] = e
         /\ \A g \in Dirs \ {d} : r.dl[g].status = "ENTRY_NOT_FOUND" => r.dl[g] = dl[g]
<1> DEFINE dls == [dl EXCEPT ![d] = e]
<1>1. AllSound(dls) /\ dls[d] = e
  BY DEF IInv, AllSound, Sound
<1>2. \A g \in InQueue(dls) : ~CanAsk(g, dls[g], occupied, Available)
  <2>1. ASSUME NEW g \in InQueue(dls) PROVE ~CanAsk(g, dls[g], occupied, Available)
    <3>1. CASE g = d
      BY <1>1, <3>1 DEF CanAsk
    <3>2. CASE g # d
      BY <2>1, <3>2, NoIdlePeerMeaning DEF IInv, AllSound, InQueue
    <3> QED  BY <3>1, <3>2
  <2> QED  BY <2>1
<1>3. occupied \in SUBSET Peers /\ Source[d] \in Peers
  BY DEF IInv, Sets, ConstantsAssumption
<1>4. r \in GivenBack(d, dls)
  OBVIOUS
<1> HIDE DEF dls
<1>5. Good(r, Available) /\ \A g \in Dirs : Refuses(dls[g]) \/ Refuses(r.dl[g])
                                             => r.dl[g] = dls[g]
  <2>1. CASE dl[d].source
    BY <1>1, <1>2, <1>3, <1>4, <2>1, FreeGood DEF GivenBack
  <2>2. CASE ~dl[d].source
    <3>1. r.dl = dls /\ r.occ = occupied
      BY <1>4, <2>2 DEF GivenBack, Result
    <3> QED  BY <1>1, <1>2, <1>3, <3>1 DEF Good
  <2> QED  BY <2>1, <2>2
<1>6. \A g \in Dirs \ {d} : dls[g] = dl[g]
  BY DEF dls, IInv, AllSound
<1> QED  BY <1>1, <1>5, <1>6 DEF Refuses

\* result without the entries, and resultTimeout.
LEMMA RequestFailedStep ==
  ASSUME ConstantsAssumption, IInv, NEW d \in Dirs,
         NEW s \in {"ENTRY_NOT_FOUND", "ERROR"}, RequestFailed(d, s)
  PROVE  IInv'
<1>1. PICK r \in GivenBack(d, [dl EXCEPT ![d] = Failed(@, s)]) :
        dl' = [r.dl EXCEPT ![d] = Armed(@)] /\ occupied' = r.occ
  BY DEF RequestFailed
<1> DEFINE e == Failed(dl[d], s)
           f == Armed(e)
<1>2. e = [dl[d] EXCEPT !.status = s, !.asking = FALSE]
  BY DEF Failed
<1>3. Sound(e) /\ Refuses(e) /\ e.retries \in Nat /\ e.status = s
  BY <1>2 DEF IInv, AllSound, Sound, Download, Status, Refuses
<1>4. r \in GivenBack(d, [dl EXCEPT ![d] = e])
  BY <1>1
<1> HIDE DEF e
<1>5. /\ Good(r, Available)
      /\ r.dl[d] = e
      /\ \A g \in Dirs \ {d} : r.dl[g].status = "ENTRY_NOT_FOUND" => r.dl[g] = dl[g]
  BY <1>3, <1>4, GivenBackGood
<1>6. f = [e EXCEPT !.retries = @ + 1]
  BY DEF Armed
<1>7. Sound(f) /\ Refuses(f) /\ f.retries > 0 /\ f.status = s
  BY <1>3, <1>6 DEF Sound, Download, Refuses
<1>8. dl' = [r.dl EXCEPT ![d] = f]
  BY <1>1, <1>5
<1> HIDE DEF f
<1>9. AllSound(dl)'
  <2>1. dl' \in [Dirs -> Download]
    BY <1>5, <1>7, <1>8 DEF Good, AllSound, Sound
  <2>2. ASSUME NEW g \in Dirs PROVE Sound(dl'[g])
    BY <1>5, <1>7, <1>8 DEF Good, AllSound
  <2>3. \A g \in Dirs : Sound(dl[g])'
    BY <2>2 DEF Sound, Refuses
  <2> QED  BY <2>1, <2>3 DEF AllSound
<1>10. Sets'
  BY <1>1, <1>5 DEF IInv, Sets, RequestFailed, Good
<1>11. NotFoundIsRetried'
  BY <1>5, <1>7, <1>8 DEF IInv, NotFoundIsRetried, Good, AllSound
<1>12. NoIdlePeer'
  <2>1. ASSUME NEW g \in Dirs, g \in InQueue(dl)'
        PROVE  ~CanAsk(g, dl'[g], r.occ, Available)
    <3>1. CASE g = d
      BY <1>5, <1>7, <1>8, <3>1 DEF CanAsk, Good, AllSound
    <3>2. CASE g # d
      BY <1>5, <1>8, <2>1, <3>2 DEF InQueue, RequestFailed, Good, AllSound
    <3> QED  BY <3>1, <3>2
  <2> QED  BY <1>1, <2>1 DEF NoIdlePeer, Able, CanAsk, Refuses, InQueue,
                             RequestFailed, Available
<1> QED  BY <1>9, <1>10, <1>11, <1>12 DEF IInv

LEMMA RetryToGetEntriesStep ==
  ASSUME ConstantsAssumption, IInv, NEW d \in Dirs, RetryToGetEntries(d)
  PROVE  IInv'
<1> DEFINE e == [dl[d] EXCEPT !.retries = @ - 1, !.status = "QUEUED"]
           r == RetrieveEntries(d, e, dl, occupied)
<1>1. dl' = r.dl /\ occupied' = r.occ
  BY DEF RetryToGetEntries, Becomes
<1>0. Sound(dl[d]) /\ dl[d].retries > 0
  BY DEF IInv, AllSound, RetryToGetEntries
<1>2. Sound(e) /\ ~Refuses(e)
  <2>1. e \in Download /\ e.status = "QUEUED" /\ e.asking = dl[d].asking /\ e.source = dl[d].source
    <3>1. dl[d] \in Download /\ dl[d].retries - 1 \in Nat
      BY <1>0 DEF Sound, Download
    <3> DEFINE n == dl[d].retries - 1
    <3> HIDE DEF n
    <3>2. e = [dl[d] EXCEPT !.retries = n, !.status = "QUEUED"] /\ n \in Nat
      BY <3>1 DEF n
    <3> HIDE DEF e
    <3> QED  BY <3>1, <3>2 DEF Download, Status
  <2> HIDE DEF e
  <2> QED  BY <1>0, <2>1 DEF Sound, Refuses
<1> HIDE DEF e
<1>3. Good(r, Available) /\ \A g \in Dirs : Refuses(r.dl[g]) => r.dl[g] = [dl EXCEPT ![d] = e][g]
  BY <1>2, RetrieveGood, NoIdlePeerMeaning DEF IInv, Sets
<1> HIDE DEF r
<1>4. NotFoundIsRetried'
  BY <1>1, <1>2, <1>3 DEF IInv, NotFoundIsRetried, AllSound, Refuses
<1>5. Available' = Available /\ doomed' = doomed
  BY DEF RetryToGetEntries, Available
<1>6. \A g \in Dirs : g \in InQueue(dl)' => g \in InQueue(r.dl)
  BY <1>1, <1>5 DEF InQueue
<1>7. AllSound(dl)' /\ (occupied \subseteq Peers)' /\ NoIdlePeer'
  BY <1>1, <1>3, <1>5, <1>6, GoodNext
<1> QED  BY <1>4, <1>7 DEF IInv, Sets, RetryToGetEntries

LEMMA RemoveDownloadsStep ==
  ASSUME IInv, NEW chosen \in SUBSET Dirs, RemoveDownloads(chosen)
  PROVE  IInv'
<1>1. dl' = [d \in Dirs |-> IF d \in chosen THEN [dl[d] EXCEPT !.status = "DELETED"] ELSE dl[d]]
  BY DEF RemoveDownloads
<1>2. ASSUME NEW d \in Dirs
      PROVE  /\ Sound(dl'[d])
             /\ d \notin chosen => dl'[d] = dl[d]
             /\ d \in chosen => dl'[d].status = "DELETED"
  <2>1. Sound(dl[d])
    BY DEF IInv, AllSound
  <2>2. CASE d \in chosen
    <3>1. dl'[d] = [dl[d] EXCEPT !.status = "DELETED"]
      BY <1>1, <2>2
    <3> QED  BY <2>1, <2>2, <3>1 DEF Sound, Download, Status
  <2>3. CASE d \notin chosen
    BY <1>1, <2>1, <2>3
  <2> QED  BY <2>2, <2>3
<1>3. AllSound(dl)'
  BY <1>1, <1>2 DEF AllSound, Sound, Refuses
<1>4. NotFoundIsRetried'
  BY <1>2 DEF IInv, NotFoundIsRetried
<1>5. Available' = Available /\ occupied' = occupied /\ Quiet
  BY DEF RemoveDownloads, Available
<1>6. ASSUME NEW d \in Dirs, d \in InQueue(dl)' PROVE d \in InQueue(dl) /\ dl'[d] = dl[d]
  BY <1>2, <1>5, <1>6 DEF InQueue, Quiet
<1>7. NoIdlePeer'
  BY <1>5, <1>6, NoIdlePeerMeaning DEF IInv, NoIdlePeer, Able, CanAsk, Refuses, InQueue
<1> QED  BY <1>3, <1>4, <1>7 DEF IInv, Sets, RemoveDownloads

\* The destructor gives the peer back and the queue is rescanned.
LEMMA DestroyStep ==
  ASSUME ConstantsAssumption, IInv, NEW d \in Dirs, Destroy(d)
  PROVE  IInv'
<1>1. PICK r \in GivenBack(d, [dl EXCEPT ![d] = Gone]) : dl' = r.dl /\ occupied' = r.occ
  BY DEF Destroy, Becomes
<1>2. Sound(Gone) /\ Refuses(Gone) /\ Gone.status = "DELETED"
  BY DEF Gone, Sound, Download, Status, Refuses
<1>3. /\ Good(r, Available)
      /\ r.dl[d] = Gone
      /\ \A g \in Dirs \ {d} : r.dl[g].status = "ENTRY_NOT_FOUND" => r.dl[g] = dl[g]
  BY <1>1, <1>2, GivenBackGood
<1>4. NotFoundIsRetried'
  BY <1>1, <1>2, <1>3 DEF IInv, NotFoundIsRetried
<1>5. Available' = Available /\ doomed' = doomed \ {d}
  BY DEF Destroy, Available
<1>6. \A g \in Dirs : g \in InQueue(dl)' => g \in InQueue(r.dl)
  BY <1>1, <1>2, <1>3, <1>5 DEF InQueue
<1>7. AllSound(dl)' /\ (occupied \subseteq Peers)' /\ NoIdlePeer'
  BY <1>1, <1>3, <1>5, <1>6, GoodNext
<1> QED  BY <1>4, <1>7 DEF IInv, Sets, Destroy

-----------------------------------------------------------------------------
(* The peers.                                                              *)

\* peerBecomesAvailable, p being the only peer that was not available before.
LEMMA PeerBecomesAvailableStep ==
  ASSUME ConstantsAssumption, IInv, NEW p \in Peers,
         Available' = Available \cup {p}, PeerBecomesAvailable(p, Available \cup {p}),
         UNCHANGED <<starting, doomed>>, (alive \cup blocked \subseteq Peers)'
  PROVE  IInv'
<1> DEFINE dls == Linked(p)
           avail == Available \cup {p}
<1>1. PICK r \in NewPeer(p, dls, occupied, avail) : dl' = r.dl /\ occupied' = r.occ
  BY DEF PeerBecomesAvailable, Becomes
<1>2. ASSUME NEW d \in Dirs
      PROVE  /\ Sound(dls[d])
             /\ dls[d].status = dl[d].status
             /\ dls[d].retries = dl[d].retries
             /\ Source[d] # p => dls[d] = dl[d]
  BY DEF Linked, IInv, AllSound, Sound, Refuses, Download
<1>3. AllSound(dls)
  <2>1. dls \in [Dirs -> Download]
    BY <1>2 DEF Linked, Sound
  <2> QED  BY <1>2, <2>1 DEF AllSound
<1> HIDE DEF dls
<1>4. ASSUME NEW d \in InQueue(dls), CanAsk(d, dls[d], occupied, avail) PROVE Source[d] = p
  <2>1. d \in InQueue(dl)
    BY <1>2 DEF InQueue
  <2>2. ~CanAsk(d, dl[d], occupied, Available)
    BY <2>1, NoIdlePeerMeaning DEF IInv
  <2> QED  BY <1>2, <1>4, <2>1, <2>2 DEF CanAsk, InQueue
<1> HIDE DEF avail
<1>5. Good(r, avail) /\ \A g \in Dirs : Refuses(r.dl[g]) => r.dl[g] = dls[g]
  BY <1>1, <1>3, <1>4, NewPeerGood DEF IInv, Sets
<1>6. Good(r, Available')
  BY <1>5 DEF avail
<1>7. \A g \in Dirs : g \in InQueue(dl)' => g \in InQueue(r.dl)
  BY <1>1 DEF InQueue
<1>8. AllSound(dl)' /\ (occupied \subseteq Peers)' /\ NoIdlePeer'
  BY <1>1, <1>6, <1>7, GoodNext
<1>9. NotFoundIsRetried'
  BY <1>1, <1>2, <1>5 DEF IInv, NotFoundIsRetried, Refuses
<1> QED  BY <1>8, <1>9 DEF IInv, Sets

LEMMA PeerComesStep ==
  ASSUME ConstantsAssumption, IInv, NEW p \in Peers, PeerAlive(p) \/ PeerUnblocked(p)
  PROVE  IInv'
<1>1. UNCHANGED <<starting, doomed>> /\ (alive \cup blocked \subseteq Peers)'
  BY DEF IInv, Sets, PeerAlive, PeerUnblocked
<1>2. CASE UNCHANGED <<dl, occupied>> /\ Available' = Available
  BY <1>1, <1>2 DEF IInv, Sets, AllSound, Sound, NotFoundIsRetried, NoIdlePeer,
                    Able, CanAsk, Refuses, InQueue
<1>3. CASE PeerBecomesAvailable(p, Available \cup {p}) /\ Available' = Available \cup {p}
  BY <1>1, <1>3, PeerBecomesAvailableStep
<1>4. CASE PeerAlive(p)
  BY <1>2, <1>3, <1>4 DEF PeerAlive, Available
<1>5. CASE PeerUnblocked(p)
  BY <1>2, <1>3, <1>5 DEF PeerUnblocked, Available
<1> QED  BY <1>4, <1>5

LEMMA PeerBlockedStep ==
  ASSUME IInv, NEW p \in Peers, PeerBlocked(p)
  PROVE  IInv'
<1>1. Available' \subseteq Available /\ UNCHANGED <<dl, starting, doomed, occupied, alive>>
  BY DEF PeerBlocked, Available
<1>2. (blocked \subseteq Peers)'
  BY DEF PeerBlocked, IInv, Sets
<1>3. NoIdlePeer'
  BY <1>1, NoIdlePeerMeaning DEF IInv, NoIdlePeer, Able, CanAsk, Refuses, InQueue
<1> QED  BY <1>1, <1>2, <1>3 DEF IInv, Sets, AllSound, Sound, Refuses, NotFoundIsRetried

\* The downloads of a dead peer forget it, so nobody waits for it.
LEMMA PeerDeadStep ==
  ASSUME IInv, NEW p \in Peers, PeerDead(p)
  PROVE  IInv'
<1>1. /\ dl' = [d \in Dirs |-> IF d \in InQueue(dl) /\ dl[d].source /\ Source[d] = p
                                THEN PeerLost(dl[d]) ELSE dl[d]]
      /\ occupied' = occupied \ {p}
      /\ alive' = alive \ {p}
      /\ UNCHANGED <<starting, doomed, blocked>>
  BY DEF PeerDead
<1>2. ASSUME NEW e, Sound(e)
      PROVE  /\ Sound(PeerLost(e))
             /\ ~PeerLost(e).source
             /\ PeerLost(e).status # "ENTRY_NOT_FOUND" \/ PeerLost(e).status = e.status
             /\ PeerLost(e).retries = e.retries
  BY <1>2 DEF PeerLost, Sound, Download, Status, Refuses
<1>3. ASSUME NEW d \in Dirs
      PROVE  /\ Sound(dl'[d])
             /\ dl'[d] = dl[d] \/ ~dl'[d].source
             /\ dl'[d].status = "ENTRY_NOT_FOUND" => dl'[d].retries > 0
  <2>1. Sound(dl[d]) /\ (dl[d].status = "ENTRY_NOT_FOUND" => dl[d].retries > 0)
    BY DEF IInv, AllSound, NotFoundIsRetried
  <2>2. dl'[d] = dl[d] \/ dl'[d] = PeerLost(dl[d])
    BY <1>1
  <2> QED  BY <1>2, <2>1, <2>2
<1>4. AllSound(dl)'
  BY <1>1, <1>3 DEF AllSound, Sound, Refuses
<1>5. NotFoundIsRetried'
  BY <1>3 DEF NotFoundIsRetried
<1>6. Available' = Available \ {p}
  BY <1>1 DEF Available
<1>7. ASSUME NEW d \in Dirs, d \in InQueue(dl)' PROVE ~CanAsk(d, dl'[d], occupied', Available')
  <2>1. CASE ~dl'[d].source
    BY <2>1 DEF CanAsk
  <2>2. CASE dl'[d] = dl[d]
    BY <1>1, <1>6, <1>7, <2>2, NoIdlePeerMeaning DEF IInv, CanAsk, InQueue
  <2> QED  BY <1>3, <2>1, <2>2
<1>8. NoIdlePeer'
  BY <1>7 DEF NoIdlePeer, Able, CanAsk, Refuses, InQueue
<1> QED  BY <1>1, <1>4, <1>5, <1>8 DEF IInv, Sets

-----------------------------------------------------------------------------
(* The theorems.                                                           *)

(***************************************************************************)
(* The invariant holds initially and every handler preserves it, through   *)
(* the requests and the rescans it causes.                                 *)
(***************************************************************************)
THEOREM Invariance == Spec => []IInv
<1>1. Init => IInv
  BY DEF Init, IInv, AllSound, Sound, Download, Status, Sets, NoIdlePeer, Able,
         InQueue, NotFoundIsRetried
<1>2. IInv /\ [Next]_vars => IInv'
  <2> SUFFICES ASSUME IInv, [Next]_vars PROVE IInv'
    OBVIOUS
  <2>1. ConstantsAssumption
    BY ConstantsAssumption
  <2>2. ASSUME NEW d \in Dirs, DirStep(d) PROVE IInv'
    <3>1. CASE AddDownload(d)
      BY <2>1, <3>1, AddDownloadStep
    <3>2. CASE RestartErroneous(d)
      BY <2>1, <3>2, RestartErroneousStep
    <3>3. CASE \E children \in SUBSET Dirs : NewEntries(d, children)
      BY <3>3, NewEntriesStep
    <3>4. CASE AddChild(d)
      BY <2>1, <3>4, AddChildStep
    <3>5. CASE EntriesRefused(d) \/ ResultTimeout(d)
      BY <2>1, <3>5, RequestFailedStep DEF EntriesRefused, ResultTimeout
    <3>6. CASE RetryToGetEntries(d)
      BY <2>1, <3>6, RetryToGetEntriesStep
    <3>7. CASE Destroy(d)
      BY <2>1, <3>7, DestroyStep
    <3> QED  BY <2>2, <3>1, <3>2, <3>3, <3>4, <3>5, <3>6, <3>7 DEF DirStep
  <2>3. CASE \E chosen \in SUBSET Dirs : RemoveDownloads(chosen)
    BY <2>3, RemoveDownloadsStep
  <2>4. ASSUME NEW p \in Peers, PeerStep(p) PROVE IInv'
    BY <2>1, <2>4, PeerComesStep, PeerBlockedStep, PeerDeadStep DEF PeerStep
  <2>5. CASE UNCHANGED vars
    BY <2>5 DEF vars, IInv, Sets, AllSound, Sound, Refuses, NotFoundIsRetried,
                NoIdlePeer, Able, CanAsk, InQueue, Available
  <2> QED  BY <2>2, <2>3, <2>4, <2>5 DEF Next
<1> QED  BY <1>1, <1>2, PTL DEF Spec

(***************************************************************************)
(* Every variable keeps its type.                                          *)
(***************************************************************************)
THEOREM TypeCorrect == Spec => []TypeOK
<1>1. IInv => TypeOK
  BY DEF IInv, Sets, AllSound, TypeOK
<1> QED  BY <1>1, Invariance, PTL

(***************************************************************************)
(* No scan of the queue would find a directory to ask: whatever the order  *)
(* of the queue, none is left waiting for a peer that is free.             *)
(***************************************************************************)
THEOREM NoPeerIsIdle == Spec => []NoIdlePeer
<1>1. IInv => NoIdlePeer
  BY DEF IInv
<1> QED  BY <1>1, Invariance, PTL

(***************************************************************************)
(* A directory its peer did not find always has a retry pending.           *)
(***************************************************************************)
THEOREM NotFoundHasRetry == Spec => []NotFoundIsRetried
<1>1. IInv => NotFoundIsRetried
  BY DEF IInv
<1> QED  BY <1>1, Invariance, PTL

(***************************************************************************)
(* A request is held only by a directory that knows its peer and whose     *)
(* status allows it.                                                       *)
(***************************************************************************)
THEOREM RequestsAreLegitimate == Spec => []AskingIsLegitimate
<1>1. IInv => AskingIsLegitimate
  BY DEF IInv, AllSound, Sound, AskingIsLegitimate
<1> QED  BY <1>1, Invariance, PTL
=============================================================================
