------------------------ MODULE HashRetrievalProofs ------------------------
(***************************************************************************)
(* Proofs about HashRetrieval for every set of downloads and of peers.     *)
(*                                                                         *)
(* The handlers are composed of functions of one download and of functions *)
(* of the pair (downloads, occupied peers).  Sound and Coherent are what   *)
(* the former and the latter preserve.  The invariant is Right of the      *)
(* state: Coherent, and every download that shows a request has one.       *)
(***************************************************************************)
EXTENDS HashRetrieval, TLAPS

\* What every function of one download preserves.
Sound(f, d) ==
  /\ d \in Download
  /\ d.status \in Final \cup {"NONE"} => ~d.asking /\ ~d.active
  /\ d.known = NbChunk[f] => ~d.asking

\* A download that shows a request has one.
Shown(d) == d.status = "GETTING_THE_HASHES" => d.asking

\* e is a sound successor of d that asks nothing d does not ask, and does not
\* show a request that is over.
Quieter(f, d, e) ==
  /\ Sound(f, e)
  /\ e.asking => d.asking
  /\ d.status # "NONE" => e.status # "NONE"
  /\ Shown(d) => Shown(e)

\* A request is exclusive, and its peer marked.
Exclusive(dls, occ) ==
  \A f \in Files : dls[f].asking =>
    /\ Source[f] \in occ
    /\ \A g \in Files : dls[g].asking /\ Source[g] = Source[f] => g = f

\* What every function of the downloads and the occupied peers preserves.
Coherent(r) ==
  /\ r \in [dl : [Files -> Download], occ : SUBSET Peers]
  /\ \A f \in Files : Sound(f, r.dl[f])
  /\ Exclusive(r.dl, r.occ)

-----------------------------------------------------------------------------
(* Functions of one download.                                              *)

\* The fields of an updated download.
LEMMA SetStatusFields ==
  ASSUME NEW d \in Download, NEW s \in Status
  PROVE  /\ SetStatus(d, s) \in Download
         /\ SetStatus(d, s).status = s
         /\ SetStatus(d, s).active = d.active
         /\ SetStatus(d, s).known = d.known
         /\ SetStatus(d, s).asking = d.asking
<1> DEFINE n == IF s \in Erroneous /\ d.status \notin Erroneous
                THEN d.copies + 1 ELSE d.copies
<1>1. SetStatus(d, s) = [d EXCEPT !.status = s, !.copies = n]
  BY DEF SetStatus
<1>2. n \in Nat
  BY DEF Download
<1> HIDE DEF n
<1> QED  BY <1>1, <1>2 DEF Download

\* Download::setStatus to a status that is not final changes nothing but the
\* status and the list of erroneous downloads.
LEMMA SetStatusSound ==
  ASSUME NEW f \in Files, NEW d, Sound(f, d),
         NEW s \in Status \ (Final \cup {"NONE"}),
         s = "GETTING_THE_HASHES" => d.asking
  PROVE  Quieter(f, d, SetStatus(d, s))
BY SetStatusFields DEF Sound, Quieter, Shown

\* The status of a finished chunk is no opinion about the request.
LEMMA FailedSound ==
  ASSUME NEW f \in Files, NEW d, Sound(f, d), NEW b \in BOOLEAN
  PROVE  /\ Sound(f, [d EXCEPT !.failed = b])
         /\ [d EXCEPT !.failed = b].asking = d.asking
         /\ [d EXCEPT !.failed = b].status = d.status
BY DEF Sound, Download

\* A download that completes has no chunk downloading and no request.
LEMMA CompleteSound ==
  ASSUME NEW f \in Files, NEW d, Sound(f, d), ~d.active, ~d.asking
  PROVE  Quieter(f, d, SetStatus(d, "COMPLETE"))
<1>1. "COMPLETE" \in Status
  BY DEF Status, Final
<1> QED  BY <1>1, SetStatusFields DEF Sound, Quieter, Shown, Final

\* FileDownload::updateStatus
LEMMA UpdateStatusSound ==
  ASSUME ConstantsAssumption,
         NEW f \in Files, NEW d, Sound(f, d), d.status # "NONE",
         NEW e \in UpdateStatus(f, d)
  PROVE  Quieter(f, d, e)
<1> DEFINE Live == Status \ (Final \cup {"NONE"})
<1>1. d.failed \in BOOLEAN /\ d.asking \in BOOLEAN /\ d.status \in Status
  BY DEF Sound, Download
<1>2. CASE d.status \in Final
  BY <1>2 DEF UpdateStatus, Quieter
<1>3. ASSUME NEW s \in Live, NEW b \in BOOLEAN,
             s = "GETTING_THE_HASHES" /\ Shown(d) => d.asking,
             e = [SetStatus(d, s) EXCEPT !.failed = b]
      PROVE  Quieter(f, d, e)
  <2>1. Sound(f, SetStatus(d, s))
    BY SetStatusFields DEF Sound
  <2>2. /\ SetStatus(d, s).asking = d.asking /\ SetStatus(d, s).status = s
    BY SetStatusFields DEF Sound
  <2>3. Sound(f, e) /\ e.asking = d.asking /\ e.status = s
    BY <1>3, <2>1, <2>2, FailedSound
  <2> QED  BY <1>3, <2>3 DEF Quieter, Shown
<1>4. CASE /\ ~d.active /\ ~d.asking
           /\ \E b \in BOOLEAN : e = [SetStatus(d, "COMPLETE") EXCEPT !.failed = b]
  <2>1. Quieter(f, d, SetStatus(d, "COMPLETE"))
    BY <1>4, CompleteSound
  <2> QED  BY <2>1, <1>4, FailedSound DEF Quieter, Shown
<1>5. ASSUME d.status \notin Final
      PROVE  \/ \E s \in Live, b \in BOOLEAN :
                  /\ s = "GETTING_THE_HASHES" /\ Shown(d) => d.asking
                  /\ e = [SetStatus(d, s) EXCEPT !.failed = b]
             \/ /\ ~d.active /\ ~d.asking
                /\ \E b \in BOOLEAN : e = [SetStatus(d, "COMPLETE") EXCEPT !.failed = b]
  <2>1. {"OTHER_ERROR", "QUEUED", "DOWNLOADING", "GETTING_THE_HASHES", d.status} \subseteq Live
    BY <1>1, <1>5 DEF Status, Final, Erroneous
  <2>2. d.known = NbChunk[f] => ~d.asking
    BY DEF Sound
  <2>3. CASE e \in LostFile(f, d)
    <3>1. PICK b \in BOOLEAN : e = [SetStatus(d, "OTHER_ERROR") EXCEPT !.failed = b]
      BY <2>3 DEF LostFile, Showing, OtherChunk
    <3> QED  BY <2>1, <3>1
  <2>4. CASE d.active /\ e \in Showing(d, "DOWNLOADING", {FALSE, d.failed})
    BY <1>1, <2>1, <2>4 DEF Showing
  <2>5. CASE ~d.active /\ \E s \in Opinions(f, d) : e \in Showing(d, Verdict(d, s), {FALSE})
    <3>1. PICK s \in Opinions(f, d) : e = [SetStatus(d, Verdict(d, s)) EXCEPT !.failed = FALSE]
      BY <2>5 DEF Showing
    <3>2. s \in Live \/ (s = "COMPLETE" /\ ~d.asking)
      BY <2>1, <2>2 DEF Opinions
    <3>3. Verdict(d, s) \in Live \/ (Verdict(d, s) = "COMPLETE" /\ ~d.asking)
      BY <3>2, <2>1 DEF Verdict
    <3>4. Verdict(d, s) = "GETTING_THE_HASHES" => d.asking \/ d.status = "GETTING_THE_HASHES"
      BY DEF Verdict, Opinions
    <3> QED  BY <3>1, <3>3, <3>4, <2>5 DEF Shown
  <2> QED  BY <1>5, <2>3, <2>4, <2>5 DEF UpdateStatus
<1> QED  BY <1>2, <1>3, <1>4, <1>5

\* The peers of a chunk changed, maybe.
LEMMA MaybeUpdateSound ==
  ASSUME ConstantsAssumption,
         NEW f \in Files, NEW d, Sound(f, d), d.status # "NONE",
         NEW e \in MaybeUpdate(f, d)
  PROVE  Quieter(f, d, e)
<1>1. Quieter(f, d, d)
  BY DEF Quieter
<1> QED  BY <1>1, UpdateStatusSound DEF MaybeUpdate

\* A chunk starts: not in a download that is final.
LEMMA StartingSound ==
  ASSUME NEW f \in Files, NEW d, Sound(f, d), d.status # "NONE",
         NEW e \in Starting(d)
  PROVE  Quieter(f, d, e)
<1>1. PICK b \in BOOLEAN :
         e = [SetStatus(d, "DOWNLOADING") EXCEPT !.active = TRUE, !.failed = b]
  BY DEF Starting, OtherChunk
<1>2. "DOWNLOADING" \in Status
  BY DEF Status
<1> DEFINE d1 == SetStatus(d, "DOWNLOADING")
<1>3. d1 \in Download /\ d1.asking = d.asking /\ d1.known = d.known /\ d1.status = "DOWNLOADING"
  BY <1>2, SetStatusFields DEF Sound
<1> HIDE DEF d1
<1>4. /\ e \in Download /\ e.asking = d.asking /\ e.known = d.known
      /\ e.status = "DOWNLOADING"
  BY <1>1, <1>3 DEF Download, d1
<1> QED  BY <1>4 DEF Quieter, Sound, Shown, Final

\* scanTheQueue for one download.
LEMMA ScannedSound ==
  ASSUME ConstantsAssumption,
         NEW f \in Files, NEW d, Sound(f, d),
         NEW e \in Scanned(f, d)
  PROVE  Quieter(f, d, e)
<1>1. Quieter(f, d, d)
  BY DEF Quieter
<1>2. CASE e = d
  BY <1>1, <1>2
<1>3. CASE d.status # "NONE" /\ e # d
  <2>1. PICK x \in MaybeUpdate(f, d) :
          e \in {x, SetStatus(x, "OTHER_ERROR")} \cup Starting(x)
    BY <1>3 DEF Scanned
  <2>2. Quieter(f, d, x) /\ Sound(f, x) /\ x.status # "NONE"
    BY <1>3, MaybeUpdateSound DEF Quieter
  <2>3. Quieter(f, x, SetStatus(x, "OTHER_ERROR"))
    BY <2>2, SetStatusSound DEF Status, Final, Erroneous
  <2>4. ASSUME e \in Starting(x) PROVE Quieter(f, x, e)
    BY <2>2, <2>4, StartingSound
  <2> QED  BY <2>1, <2>2, <2>3, <2>4 DEF Quieter
<1> QED  BY <1>2, <1>3 DEF Scanned

\* retrieveHashes that sends nothing, called for a download of the queue.
LEMMA NotAskedSound ==
  ASSUME NEW f \in Files, NEW d, Sound(f, d), d.status # "NONE", NEW avail
  PROVE  Quieter(f, d, NotAsked(f, d, avail))
<1> DEFINE c == [d EXCEPT !.asking = FALSE]
<1>1. Sound(f, c) /\ ~c.asking /\ c.status = d.status
  BY DEF Sound, Download
<1>2. Quieter(f, d, d) /\ (NeedsHashes(f, d) => Quieter(f, d, c))
  BY <1>1 DEF Quieter, Shown, NeedsHashes
<1>3. "UNKNOWN_PEER_SOURCE" \in Status \ (Final \cup {"NONE"})
  BY DEF Status, Final
<1> HIDE DEF c
<1>4. Quieter(f, d, SetStatus(d, "UNKNOWN_PEER_SOURCE"))
  BY <1>3, SetStatusSound
<1>5. NeedsHashes(f, d) => Quieter(f, d, SetStatus(c, "UNKNOWN_PEER_SOURCE"))
  BY <1>1, <1>2, <1>3, SetStatusSound DEF Quieter
<1> QED  BY <1>2, <1>4, <1>5 DEF NotAsked, c

\* retrieveHashes that sends the request.
LEMMA AskedSound ==
  ASSUME NEW f \in Files, NEW d, Sound(f, d), NeedsHashes(f, d)
  PROVE  Sound(f, Asked(d)) /\ Asked(d).asking /\ Asked(d).status = "GETTING_THE_HASHES"
<1> DEFINE c == [d EXCEPT !.asking = TRUE]
<1>1. c \in Download /\ c.asking /\ c.known = d.known /\ c.status = d.status
  BY DEF Sound, Download
<1>2. "GETTING_THE_HASHES" \in Status
  BY DEF Status
<1> HIDE DEF c
<1>3. /\ SetStatus(c, "GETTING_THE_HASHES") \in Download
      /\ SetStatus(c, "GETTING_THE_HASHES").asking
      /\ SetStatus(c, "GETTING_THE_HASHES").known = d.known
      /\ SetStatus(c, "GETTING_THE_HASHES").status = "GETTING_THE_HASHES"
  BY <1>1, <1>2, SetStatusFields
<1> QED  BY <1>3 DEF Asked, Sound, NeedsHashes, Final, c

\* FileDownload::peerSourceBecomesAvailable, for a download of the queue.
LEMMA SourceAvailableSound ==
  ASSUME ConstantsAssumption,
         NEW f \in Files, NEW d, Sound(f, d), d.status # "NONE",
         NEW e \in SourceAvailable(f, d)
  PROVE  Quieter(f, d, e)
<1> DEFINE c == [d EXCEPT !.source = TRUE,
                          !.status = IF @ = "UNKNOWN_PEER_SOURCE" THEN "QUEUED" ELSE @]
<1>1. "QUEUED" \in Status /\ "QUEUED" \notin Final
  BY DEF Status, Final
<1>2. Sound(f, c) /\ c.asking = d.asking /\ c.status # "NONE" /\ (Shown(d) => Shown(c))
  BY <1>1 DEF Sound, Shown, Download
<1>3. e \in MaybeUpdate(f, c)
  BY DEF SourceAvailable
<1> HIDE DEF c
<1> QED  BY <1>2, <1>3, MaybeUpdateSound DEF Quieter

\* FileDownload::start up to the call of retrieveHashes.
LEMMA StartedSound ==
  ASSUME ConstantsAssumption,
         NEW f \in Files, NEW d, Sound(f, d), d.status # "NONE",
         NEW e \in Started(f, d)
  PROVE  Quieter(f, d, e) /\ e.status # "NONE"
<1>1. PICK l \in {d} \cup SourceAvailable(f, d) :
         \E u \in UpdateStatus(f, l) : e \in {u, SetStatus(u, "OTHER_ERROR")}
  BY DEF Started
<1>2. Quieter(f, d, l) /\ l.status # "NONE"
  BY SourceAvailableSound DEF Quieter
<1> PICK u \in UpdateStatus(f, l) : e \in {u, SetStatus(u, "OTHER_ERROR")}
  BY <1>1
<1>3. Quieter(f, l, u) /\ u.status # "NONE"
  BY <1>2, UpdateStatusSound DEF Quieter
<1>4. Quieter(f, u, SetStatus(u, "OTHER_ERROR"))
  BY <1>3, SetStatusSound DEF Quieter, Status, Final, Erroneous
<1> QED  BY <1>2, <1>3, <1>4 DEF Quieter

-----------------------------------------------------------------------------
(* Functions of the downloads and of the occupied peers.                   *)

\* A product of sets of downloads consists of functions to those sets.
LEMMA ProductMember ==
  ASSUME NEW outcomes, NEW e \in Product(outcomes)
  PROVE  /\ \A f \in Files : e[f] \in outcomes[f]
         /\ e = [f \in Files |-> e[f]]
BY DEF Product

\* Making downloads quieter keeps the requests exclusive.
LEMMA QuieterCoherent ==
  ASSUME NEW dls, NEW occ, Coherent([dl |-> dls, occ |-> occ]),
         NEW es, es = [f \in Files |-> es[f]],
         \A f \in Files : Sound(f, es[f]) /\ (es[f].asking => dls[f].asking)
  PROVE  Coherent([dl |-> es, occ |-> occ])
<1>1. \A f \in Files : Sound(f, es[f]) /\ (es[f].asking => dls[f].asking)
  OBVIOUS
<1>2. es \in [Files -> Download]
  BY <1>1 DEF Sound
<1>3. Exclusive(dls, occ) /\ occ \in SUBSET Peers
  BY DEF Coherent
<1>4. Exclusive(es, occ)
  BY <1>1, <1>3 DEF Exclusive
<1> QED  BY <1>1, <1>2, <1>3, <1>4 DEF Coherent

\* The same for one download.
LEMMA QuieterOneCoherent ==
  ASSUME NEW dls, NEW occ, Coherent([dl |-> dls, occ |-> occ]),
         NEW f \in Files, NEW e, Sound(f, e), e.asking => dls[f].asking
  PROVE  Coherent([dl |-> [dls EXCEPT ![f] = e], occ |-> occ])
<1> DEFINE es == [dls EXCEPT ![f] = e]
<1>1. dls \in [Files -> Download] /\ \A g \in Files : Sound(g, dls[g])
  BY DEF Coherent
<1>2. es = [g \in Files |-> es[g]]
  BY <1>1
<1>3. \A g \in Files : Sound(g, es[g]) /\ (es[g].asking => dls[g].asking)
  BY <1>1
<1> HIDE DEF es
<1>4. Coherent([dl |-> es, occ |-> occ])
  BY <1>2, <1>3, QuieterCoherent DEF Quieter
<1> QED  BY <1>4 DEF es

\* Sending a request to a peer that is not occupied.
LEMMA AskedCoherent ==
  ASSUME ConstantsAssumption,
         NEW dls, NEW occ, Coherent([dl |-> dls, occ |-> occ]),
         NEW f \in Files, Source[f] \notin occ,
         NEW e, Sound(f, e), e.asking
  PROVE  Coherent([dl |-> [dls EXCEPT ![f] = e], occ |-> occ \cup {Source[f]}])
<1> DEFINE es == [dls EXCEPT ![f] = e]
<1>1. /\ dls \in [Files -> Download] /\ \A g \in Files : Sound(g, dls[g])
      /\ occ \in SUBSET Peers /\ Exclusive(dls, occ)
  BY DEF Coherent
<1>2. es \in [Files -> Download] /\ es[f] = e /\ \A g \in Files \ {f} : es[g] = dls[g]
  BY <1>1 DEF Sound
<1>3. \A g \in Files : Sound(g, es[g])
  BY <1>1, <1>2
<1>4. occ \cup {Source[f]} \in SUBSET Peers
  BY <1>1 DEF ConstantsAssumption
<1>5. \A g \in Files : dls[g].asking => Source[g] # Source[f]
  BY <1>1 DEF Exclusive
<1> HIDE DEF es
<1>6. Exclusive(es, occ \cup {Source[f]})
  BY <1>1, <1>2, <1>5 DEF Exclusive
<1>7. Coherent([dl |-> es, occ |-> occ \cup {Source[f]}])
  BY <1>2, <1>3, <1>4, <1>6 DEF Coherent
<1> QED  BY <1>7 DEF es

\* scanTheQueue
LEMMA ScanTheQueueCoherent ==
  ASSUME ConstantsAssumption,
         NEW r, Coherent(r), NEW dls \in ScanTheQueue(r.dl)
  PROVE  Coherent([dl |-> dls, occ |-> r.occ])
<1>1. /\ r = [dl |-> r.dl, occ |-> r.occ]
      /\ \A f \in Files : Sound(f, r.dl[f])
  BY DEF Coherent
<1>2. /\ \A f \in Files : dls[f] \in Scanned(f, r.dl[f])
      /\ dls = [f \in Files |-> dls[f]]
  BY ProductMember DEF ScanTheQueue
<1>3. \A f \in Files : Quieter(f, r.dl[f], dls[f])
  BY <1>1, <1>2, ScannedSound
<1> QED  BY <1>1, <1>2, <1>3, QuieterCoherent DEF Quieter

\* peerNoLongerAskingForHashes past its first test.
LEMMA HashScanCoherent ==
  ASSUME ConstantsAssumption,
         NEW dls, NEW occ, Coherent([dl |-> dls, occ |-> occ]), NEW avail,
         NEW r \in HashScan(dls, occ, avail)
  PROVE  Coherent(r)
<1>1. \A g \in Files : Sound(g, dls[g])
  BY DEF Coherent
<1>2. ASSUME NEW set \in SUBSET Tried(dls)
      PROVE  Coherent([dl |-> Refused(set, dls, avail), occ |-> occ])
  <2>1. \A g \in set : g \in Files /\ dls[g].status # "NONE"
    BY DEF Tried, InQueue
  <2>2. \A g \in Files : Quieter(g, dls[g], Refused(set, dls, avail)[g])
    BY <1>1, <2>1, NotAskedSound DEF Quieter, Refused
  <2>3. Refused(set, dls, avail) = [g \in Files |-> Refused(set, dls, avail)[g]]
    BY DEF Refused
  <2> QED  BY <2>2, <2>3, QuieterCoherent DEF Quieter
<1>3. ASSUME NEW g \in Able(dls, occ, avail),
             NEW before \in SUBSET (Tried(dls) \ Able(dls, occ, avail)),
             r = [dl  |-> [Refused(before, dls, avail) EXCEPT ![g] = Asked(dls[g])],
                  occ |-> occ \cup {Source[g]}]
      PROVE  Coherent(r)
  <2>1. g \in Files /\ NeedsHashes(g, dls[g]) /\ Source[g] \notin occ
    BY DEF Able, Tried, CanAsk, InQueue
  <2>2. Sound(g, Asked(dls[g])) /\ Asked(dls[g]).asking
    BY <1>1, <2>1, AskedSound
  <2>3. Coherent([dl |-> Refused(before, dls, avail), occ |-> occ])
    BY <1>2
  <2> QED  BY <1>3, <2>1, <2>2, <2>3, AskedCoherent
<1>4. \/ r = [dl |-> Refused(Tried(dls), dls, avail), occ |-> occ]
      \/ \E g \in Able(dls, occ, avail), before \in SUBSET (Tried(dls) \ Able(dls, occ, avail)) :
           r = [dl  |-> [Refused(before, dls, avail) EXCEPT ![g] = Asked(dls[g])],
                occ |-> occ \cup {Source[g]}]
  BY DEF HashScan
<1> QED  BY <1>2, <1>3, <1>4

\* Giving peers back that nobody asks.
LEMMA FreeCoherent ==
  ASSUME NEW dls, NEW occ, Coherent([dl |-> dls, occ |-> occ]), NEW p,
         \A f \in Files : dls[f].asking => Source[f] # p
  PROVE  Coherent([dl |-> dls, occ |-> occ \ {p}])
<1>1. /\ dls \in [Files -> Download] /\ \A g \in Files : Sound(g, dls[g])
      /\ occ \in SUBSET Peers /\ Exclusive(dls, occ)
  BY DEF Coherent
<1>2. Exclusive(dls, occ \ {p})
  BY <1>1 DEF Exclusive
<1> QED  BY <1>1, <1>2 DEF Coherent

\* The signal newFreePeer.
LEMMA ScanForCoherent ==
  ASSUME ConstantsAssumption,
         NEW dls, NEW occ, Coherent([dl |-> dls, occ |-> occ]), NEW avail,
         NEW p, NEW r \in ScanFor(p, dls, occ, avail)
  PROVE  Coherent(r)
BY HashScanCoherent DEF ScanFor

\* A scan leaves every download in the queue.
LEMMA ScanForStatus ==
  ASSUME NEW f \in Files, NEW dls, Sound(f, dls[f]), dls[f].status # "NONE",
         NEW p, NEW occ, NEW avail, NEW r \in ScanFor(p, dls, occ, avail)
  PROVE  r.dl[f].status # "NONE"
<1>1. ASSUME NEW set PROVE Refused(set, dls, avail)[f].status # "NONE"
  BY NotAskedSound DEF Refused, Quieter
<1>2. ASSUME NEW g \in Able(dls, occ, avail), NEW set
      PROVE  [Refused(set, dls, avail) EXCEPT ![g] = Asked(dls[g])][f].status # "NONE"
  <2>1. CASE f = g
    BY <2>1, AskedSound DEF Able, CanAsk, Refused
  <2>2. CASE f # g
    BY <1>1, <2>2 DEF Refused
  <2> QED  BY <2>1, <2>2
<1>3. \/ r.dl = dls
      \/ r.dl = Refused(Tried(dls), dls, avail)
      \/ \E g \in Able(dls, occ, avail), before \in SUBSET (Tried(dls) \ Able(dls, occ, avail)) :
           r.dl = [Refused(before, dls, avail) EXCEPT ![g] = Asked(dls[g])]
  BY DEF ScanFor, HashScan
<1> QED  BY <1>1, <1>2, <1>3

\* OccupiedPeers::newPeer
LEMMA NewPeerCoherent ==
  ASSUME ConstantsAssumption,
         NEW dls, NEW occ, Coherent([dl |-> dls, occ |-> occ]), NEW avail,
         NEW p, NEW r \in NewPeer(p, dls, occ, avail)
  PROVE  Coherent(r)
BY ScanForCoherent DEF NewPeer

\* The end of the request of f, d being f with its new status.
LEMMA EndRequestCoherent ==
  ASSUME ConstantsAssumption,
         NEW dls, NEW occ, Coherent([dl |-> dls, occ |-> occ]),
         NEW f \in Files, NEW d \in Download, d.asking => dls[f].asking,
         d.status # "NONE",
         d.status \in Final => ~d.active,
         NEW r \in EndRequest(f, d, dls, occ)
  PROVE  Coherent(r)
<1> DEFINE c == [d EXCEPT !.asking = FALSE]
           cleared == [dls EXCEPT ![f] = c]
<1>1. /\ dls \in [Files -> Download] /\ \A g \in Files : Sound(g, dls[g])
      /\ occ \in SUBSET Peers /\ Exclusive(dls, occ)
  BY DEF Coherent
<1>2. c \in Download /\ ~c.asking /\ c.status = d.status /\ c.active = d.active
  BY DEF Download
<1> HIDE DEF c
<1>3. Sound(f, c) /\ ~c.asking
  BY <1>2 DEF Sound
<1>4. Coherent([dl |-> cleared, occ |-> occ])
  BY <1>3, QuieterOneCoherent DEF Quieter
<1>5. CASE d.asking /\ d.source
  <2>1. \A g \in Files : cleared[g].asking => g # f /\ dls[g].asking
    BY <1>1, <1>2
  <2>2. \A g \in Files : cleared[g].asking => Source[g] # Source[f]
    BY <1>1, <1>5, <2>1 DEF Exclusive
  <2>3. r \in SetPeerAsFree(Source[f], cleared, occ, Available)
    BY <1>5 DEF EndRequest, c
  <2> HIDE DEF cleared
  <2>4. Coherent([dl |-> cleared, occ |-> occ \ {Source[f]}])
    BY <1>4, <2>2, FreeCoherent
  <2> QED  BY <2>3, <2>4, ScanForCoherent DEF SetPeerAsFree
<1>6. CASE ~(d.asking /\ d.source)
  BY <1>4, <1>6 DEF EndRequest, c
<1> QED  BY <1>5, <1>6

\* A request that ends leaves the download in the queue.
LEMMA EndRequestStatus ==
  ASSUME ConstantsAssumption,
         NEW dls, NEW occ, Coherent([dl |-> dls, occ |-> occ]),
         NEW f \in Files, NEW d \in Download, d.asking => dls[f].asking,
         d.status # "NONE",
         d.status \in Final => ~d.active,
         NEW r \in EndRequest(f, d, dls, occ)
  PROVE  r.dl[f].status # "NONE"
<1> DEFINE c == [d EXCEPT !.asking = FALSE]
           cleared == [dls EXCEPT ![f] = c]
<1>1. /\ dls \in [Files -> Download] /\ \A g \in Files : Sound(g, dls[g])
  BY DEF Coherent
<1>2. c \in Download /\ ~c.asking /\ c.status # "NONE" /\ (c.status \in Final => ~c.active)
  BY DEF Download
<1> HIDE DEF c
<1>3. Sound(f, cleared[f]) /\ cleared[f].status # "NONE"
  BY <1>1, <1>2 DEF Sound
<1>4. ASSUME NEW x \in SUBSET Peers, r \in ScanFor(Source[f], cleared, x, Available)
      PROVE  r.dl[f].status # "NONE"
  BY <1>3, <1>4, ScanForStatus
<1>5. r \in {[dl |-> cleared, occ |-> occ], [dl |-> cleared, occ |-> occ \ {Source[f]}]}
        \cup ScanFor(Source[f], cleared, occ \ {Source[f]}, Available)
  BY DEF EndRequest, SetPeerAsFree, c
<1>6. occ \ {Source[f]} \in SUBSET Peers
  BY DEF Coherent
<1> HIDE DEF cleared
<1> QED  BY <1>3, <1>4, <1>5, <1>6

\* retrieveHashes called for f alone, d being f when it is called.
LEMMA RetrieveHashesCoherent ==
  ASSUME ConstantsAssumption,
         NEW dls, NEW occ, Coherent([dl |-> dls, occ |-> occ]),
         NEW f \in Files, NEW d, Sound(f, d), d.status # "NONE",
         d.asking => dls[f].asking
  PROVE  Coherent(RetrieveHashes(f, d, dls, occ))
<1>1. CASE CanAsk(f, d, occ, Available)
  BY <1>1, AskedSound, AskedCoherent DEF RetrieveHashes, CanAsk
<1>2. CASE ~CanAsk(f, d, occ, Available)
  <2>1. Quieter(f, d, NotAsked(f, d, Available))
    BY NotAskedSound
  <2>2. /\ Sound(f, NotAsked(f, d, Available))
        /\ NotAsked(f, d, Available).asking => dls[f].asking
    BY <2>1 DEF Quieter
  <2> QED  BY <1>2, <2>2, QuieterOneCoherent DEF RetrieveHashes, Quieter
<1> QED  BY <1>1, <1>2

-----------------------------------------------------------------------------
(* A download that shows a request has one.  The last hash ends the request *)
(* of a download that still shows it: for the rest of the handler what the  *)
(* other downloads show is tracked one by one, and updateStatus, which      *)
(* never shows the request of a download that knows its hashes, mends it.   *)

LEMMA HashScanShown ==
  ASSUME NEW dls, NEW occ, \A g \in Files : Sound(g, dls[g]), NEW avail,
         NEW r \in HashScan(dls, occ, avail), NEW f \in Files
  PROVE  /\ Shown(dls[f]) => Shown(r.dl[f])
         /\ dls[f].known = NbChunk[f] => r.dl[f] = dls[f]
<1>1. ASSUME NEW set \in SUBSET Tried(dls)
      PROVE  /\ Shown(dls[f]) => Shown(Refused(set, dls, avail)[f])
             /\ dls[f].known = NbChunk[f] => Refused(set, dls, avail)[f] = dls[f]
  <2>1. CASE f \notin set
    BY <2>1 DEF Refused
  <2>2. CASE f \in set
    <3>1. dls[f].status # "NONE"
      BY <2>2 DEF Tried, InQueue
    <3>2. Quieter(f, dls[f], NotAsked(f, dls[f], avail))
      BY <3>1, NotAskedSound
    <3>3. dls[f].known = NbChunk[f] => NotAsked(f, dls[f], avail) = dls[f]
      BY DEF NotAsked, NeedsHashes
    <3> QED  BY <2>2, <3>2, <3>3 DEF Refused, Quieter
  <2> QED  BY <2>1, <2>2
<1>2. ASSUME NEW g \in Able(dls, occ, avail), NEW set \in SUBSET (Tried(dls) \ Able(dls, occ, avail)),
             r.dl = [Refused(set, dls, avail) EXCEPT ![g] = Asked(dls[g])]
      PROVE  /\ Shown(dls[f]) => Shown(r.dl[f])
             /\ dls[f].known = NbChunk[f] => r.dl[f] = dls[f]
  <2>1. g \in Files /\ NeedsHashes(g, dls[g])
    BY DEF Able, Tried, CanAsk, InQueue
  <2>2. CASE f = g
    <3>1. Sound(g, dls[g])
      BY <2>1
    <3>2. Asked(dls[g]).asking
      BY <2>1, <3>1, AskedSound
    <3>3. r.dl[f] = Asked(dls[g])
      BY <1>2, <2>1, <2>2 DEF Refused
    <3>4. dls[f].known # NbChunk[f]
      BY <2>1, <2>2 DEF NeedsHashes
    <3>5. Shown(r.dl[f])
      BY <3>2, <3>3, Zenon DEF Shown
    <3> QED  BY <3>4, <3>5
  <2>3. CASE f # g
    <3>1. r.dl[f] = Refused(set, dls, avail)[f]
      BY <1>2, <2>3 DEF Refused
    <3> QED  BY <1>1, <3>1
  <2> QED  BY <2>2, <2>3
<1>3. \/ r.dl = Refused(Tried(dls), dls, avail)
      \/ \E g \in Able(dls, occ, avail), before \in SUBSET (Tried(dls) \ Able(dls, occ, avail)) :
           r.dl = [Refused(before, dls, avail) EXCEPT ![g] = Asked(dls[g])]
  BY DEF HashScan
<1> QED  BY <1>1, <1>2, <1>3

LEMMA ScanForShown ==
  ASSUME NEW dls, NEW occ, \A g \in Files : Sound(g, dls[g]), NEW avail,
         NEW p, NEW r \in ScanFor(p, dls, occ, avail), NEW f \in Files
  PROVE  /\ Shown(dls[f]) => Shown(r.dl[f])
         /\ dls[f].known = NbChunk[f] => r.dl[f] = dls[f]
<1>1. CASE r \in HashScan(dls, occ, avail)
  BY <1>1, HashScanShown
<1>2. CASE r.dl = dls
  BY <1>2
<1> QED  BY <1>1, <1>2 DEF ScanFor

\* The end of a request: the download itself must be told apart.
LEMMA EndRequestShown ==
  ASSUME NEW dls, NEW occ, Coherent([dl |-> dls, occ |-> occ]),
         NEW f \in Files, NEW d \in Download, d.status \in Final => ~d.active,
         d.status # "NONE",
         NEW r \in EndRequest(f, d, dls, occ)
  PROVE  /\ \A g \in Files \ {f} : Shown(dls[g]) => Shown(r.dl[g])
         /\ d.status # "GETTING_THE_HASHES" => Shown(r.dl[f])
         /\ d.known = NbChunk[f] =>
              r.dl[f].known = NbChunk[f] /\ ~r.dl[f].asking
<1> DEFINE c == [d EXCEPT !.asking = FALSE]
           cleared == [dls EXCEPT ![f] = c]
<1>1. dls \in [Files -> Download] /\ \A g \in Files : Sound(g, dls[g])
  BY DEF Coherent
<1>2. /\ c \in Download /\ ~c.asking /\ c.status = d.status /\ c.active = d.active
      /\ c.known = d.known
  BY DEF Download
<1>3. r \in {[dl |-> cleared, occ |-> occ], [dl |-> cleared, occ |-> occ \ {Source[f]}]}
        \cup ScanFor(Source[f], cleared, occ \ {Source[f]}, Available)
  BY DEF EndRequest, SetPeerAsFree
<1> HIDE DEF c
<1>4. /\ cleared[f] = c /\ \A g \in Files \ {f} : cleared[g] = dls[g]
      /\ \A g \in Files : Sound(g, cleared[g])
  <2>1. cleared[f] = c /\ \A g \in Files \ {f} : cleared[g] = dls[g]
    BY <1>1
  <2>2. Sound(f, c)
    BY <1>2 DEF Sound
  <2> QED  BY <1>1, <2>1, <2>2
<1> HIDE DEF cleared
<1>5. \A g \in Files : /\ Shown(cleared[g]) => Shown(r.dl[g])
                       /\ cleared[g].known = NbChunk[g] => r.dl[g] = cleared[g]
  <2>1. CASE r.dl = cleared
    BY <2>1
  <2>2. CASE r \in ScanFor(Source[f], cleared, occ \ {Source[f]}, Available)
    <3> SUFFICES ASSUME NEW g \in Files
                 PROVE  /\ Shown(cleared[g]) => Shown(r.dl[g])
                        /\ cleared[g].known = NbChunk[g] => r.dl[g] = cleared[g]
      OBVIOUS
    <3>1. \A h \in Files : Sound(h, cleared[h])
      BY <1>4
    <3>2. PICK x, p, avail : r \in ScanFor(p, cleared, x, avail)
      BY <2>2
    <3> QED  BY <3>1, <3>2, ScanForShown
  <2>3. r.dl = cleared \/ r \in ScanFor(Source[f], cleared, occ \ {Source[f]}, Available)
    BY <1>3
  <2> QED  BY <2>1, <2>2, <2>3
<1> QED  BY <1>2, <1>4, <1>5 DEF Shown

LEMMA RetrieveHashesShown ==
  ASSUME NEW dls \in [Files -> Download], NEW occ, \A g \in Files : Shown(dls[g]),
         NEW f \in Files, NEW d, Sound(f, d), d.status # "NONE", Shown(d),
         NEW g \in Files
  PROVE  Shown(RetrieveHashes(f, d, dls, occ).dl[g])
<1>1. CanAsk(f, d, occ, Available) => Shown(Asked(d))
  BY AskedSound DEF CanAsk, Shown
<1>2. Shown(NotAsked(f, d, Available))
  BY NotAskedSound DEF Quieter
<1> QED  BY <1>1, <1>2 DEF RetrieveHashes

\* A download that knows its hashes shows no request once it is updated.
LEMMA UpdateStatusEnded ==
  ASSUME NEW f \in Files, NEW d, Sound(f, d), d.known = NbChunk[f], ~d.asking,
         NEW e \in UpdateStatus(f, d)
  PROVE  Shown(e)
<1>1. d \in Download
  BY DEF Sound
<1>2. CASE d.status \in Final
  BY <1>2 DEF UpdateStatus, Final, Shown
<1>3. CASE d.status \notin Final
  <2>1. \E s \in {"OTHER_ERROR", "QUEUED", "DOWNLOADING", "COMPLETE"} : \E b :
          e = [SetStatus(d, s) EXCEPT !.failed = b]
    BY <1>3 DEF UpdateStatus, LostFile, Showing, Opinions, Verdict
  <2>2. PICK s \in {"OTHER_ERROR", "QUEUED", "DOWNLOADING", "COMPLETE"} :
          \E b : e = [SetStatus(d, s) EXCEPT !.failed = b]
    BY <2>1
  <2>3. s \in Status
    BY DEF Status, Final, Erroneous
  <2>4. SetStatus(d, s) \in Download /\ SetStatus(d, s).status = s
    BY <1>1, <2>3, SetStatusFields
  <2>5. e.status = s
    BY <2>2, <2>4 DEF Download
  <2> QED  BY <2>5 DEF Shown
<1> QED  BY <1>2, <1>3

\* What every handler preserves: Coherent, and what the downloads show.
Right(r) == Coherent(r) /\ \A f \in Files : Shown(r.dl[f])

LEMMA QuieterRight ==
  ASSUME NEW dls, NEW occ, Right([dl |-> dls, occ |-> occ]),
         NEW es, es = [f \in Files |-> es[f]],
         \A f \in Files : Quieter(f, dls[f], es[f])
  PROVE  Right([dl |-> es, occ |-> occ])
BY QuieterCoherent DEF Right, Quieter

LEMMA QuieterOneRight ==
  ASSUME NEW dls, NEW occ, Right([dl |-> dls, occ |-> occ]),
         NEW f \in Files, NEW e, Quieter(f, dls[f], e)
  PROVE  Right([dl |-> [dls EXCEPT ![f] = e], occ |-> occ])
<1>1. Coherent([dl |-> [dls EXCEPT ![f] = e], occ |-> occ])
  BY QuieterOneCoherent DEF Right, Quieter
<1>2. \A g \in Files : Shown([dls EXCEPT ![f] = e][g])
  BY DEF Right, Coherent, Quieter
<1> QED  BY <1>1, <1>2 DEF Right

LEMMA ScanTheQueueRight ==
  ASSUME ConstantsAssumption,
         NEW r, Right(r), NEW dls \in ScanTheQueue(r.dl)
  PROVE  Right([dl |-> dls, occ |-> r.occ])
<1>1. Coherent([dl |-> dls, occ |-> r.occ]) /\ \A f \in Files : Sound(f, r.dl[f])
  <2>1. Coherent(r) /\ \A f \in Files : Sound(f, r.dl[f])
    BY DEF Right, Coherent
  <2> QED  BY <2>1, ScanTheQueueCoherent
<1>2. \A f \in Files : dls[f] \in Scanned(f, r.dl[f])
  <2>1. dls \in Product([f \in Files |-> Scanned(f, r.dl[f])])
    BY DEF ScanTheQueue
  <2>2. \A f \in Files : dls[f] \in [g \in Files |-> Scanned(g, r.dl[g])][f]
    BY <2>1, ProductMember
  <2> QED  BY <2>2
<1>3. \A f \in Files : Shown(dls[f])
  BY <1>1, <1>2, ScannedSound DEF Quieter, Right
<1> QED  BY <1>1, <1>3 DEF Right

LEMMA NewPeerRight ==
  ASSUME ConstantsAssumption,
         NEW dls, NEW occ, Right([dl |-> dls, occ |-> occ]), NEW avail,
         NEW p, NEW r \in NewPeer(p, dls, occ, avail)
  PROVE  Right(r)
<1>1. Coherent(r) /\ \A f \in Files : Sound(f, dls[f]) /\ Shown(dls[f])
  BY NewPeerCoherent DEF Right, Coherent
<1>2. r \in ScanFor(p, dls, occ, avail) \/ r.dl = dls
  BY DEF NewPeer
<1>3. \A f \in Files : Shown(r.dl[f])
  BY <1>1, <1>2, ScanForShown
<1> QED  BY <1>1, <1>3 DEF Right

LEMMA EndRequestRight ==
  ASSUME ConstantsAssumption,
         NEW dls, NEW occ, Right([dl |-> dls, occ |-> occ]),
         NEW f \in Files, NEW d \in Download, d.asking => dls[f].asking,
         d.status \notin {"NONE", "GETTING_THE_HASHES"},
         d.status \in Final => ~d.active,
         NEW r \in EndRequest(f, d, dls, occ)
  PROVE  Right(r)
<1>1. Coherent(r)
  BY EndRequestCoherent DEF Right
<1>2. \A g \in Files : Shown(r.dl[g])
  BY EndRequestShown DEF Right
<1> QED  BY <1>1, <1>2 DEF Right

LEMMA RetrieveHashesRight ==
  ASSUME ConstantsAssumption,
         NEW dls, NEW occ, Right([dl |-> dls, occ |-> occ]),
         NEW f \in Files, NEW d, Sound(f, d), d.status # "NONE",
         d.asking => dls[f].asking, Shown(d)
  PROVE  Right(RetrieveHashes(f, d, dls, occ))
<1>1. dls \in [Files -> Download] /\ \A g \in Files : Shown(dls[g])
  BY DEF Right, Coherent
<1>2. Coherent(RetrieveHashes(f, d, dls, occ))
  BY RetrieveHashesCoherent DEF Right
<1>3. \A g \in Files : Shown(RetrieveHashes(f, d, dls, occ).dl[g])
  BY <1>1, RetrieveHashesShown
<1> QED  BY <1>2, <1>3 DEF Right

-----------------------------------------------------------------------------
(* The invariant and the actions.                                          *)

State == [dl |-> dl, occ |-> occupied]

IInv ==
  /\ Right(State)
  /\ restartTimer \in BOOLEAN
  /\ alive \in SUBSET Peers
  /\ blocked \in SUBSET Peers
  /\ ListedHasTimer

\* What the invariant says of the variables taken one by one.
LEMMA StateSound ==
  ASSUME Right(State)
  PROVE  /\ dl \in [Files -> Download]
         /\ occupied \in SUBSET Peers
         /\ \A f \in Files : Sound(f, dl[f]) /\ dl[f] \in Download /\ Shown(dl[f])
         /\ Exclusive(dl, occupied)
BY DEF Right, Coherent, State, Sound

\* The type of the downloads after a step.
LEMMA StateTyped ==
  ASSUME Right(State)' PROVE dl' \in [Files -> Download]
BY DEF Right, Coherent, State

\* A handler may end by rescanning the chunks.
LEMMA ThenScanChunksRight ==
  ASSUME ConstantsAssumption, NEW r, Right(r), NEW flag,
         ThenScanChunks(r, flag)
  PROVE  Right(State)'
<1>1. r = [dl |-> r.dl, occ |-> r.occ]
  BY DEF Right, Coherent
<1>2. CASE dl' = r.dl
  BY <1>1, <1>2 DEF ThenScanChunks, State
<1>3. CASE dl' \in ScanTheQueue(r.dl)
  BY <1>3, ScanTheQueueRight DEF ThenScanChunks, State
<1> QED  BY <1>2, <1>3 DEF ThenScanChunks

\* addDownload: the constructor, start() and what it triggers.
LEMMA AddDownloadRight ==
  ASSUME ConstantsAssumption, Right(State), NEW f \in Files,
         NEW status \in {"QUEUED", "PAUSED", "COMPLETE"},
         NEW known \in 0..NbChunk[f],
         AddDownload(f, status, known)
  PROVE  Right(State)'
<1> DEFINE new == [dl[f] EXCEPT !.status = status, !.known = known, !.source = TRUE]
<1>1. Sound(f, dl[f]) /\ dl[f].status = "NONE"
  BY StateSound DEF AddDownload
<1>2. status \in Status /\ status # "NONE"
  BY DEF Status, Final
<1>3. NbChunk[f] \in Nat /\ known \in Nat
  BY DEF ConstantsAssumption
<1>4. /\ new \in Download /\ new.status = status /\ ~new.asking /\ ~new.active
  BY <1>1, <1>2, <1>3 DEF Sound, Download
<1>5. PICK d \in Started(f, new) :
         ThenScanChunks(RetrieveHashes(f, d, dl, occupied),
                        /\ ~CanAsk(f, d, occupied, Available)
                        /\ Source[f] \in Available)
  BY DEF AddDownload
<1> HIDE DEF new
<1>6. Sound(f, new) /\ new.status # "NONE"
  BY <1>2, <1>4 DEF Sound
<1>7. Sound(f, d) /\ d.status # "NONE" /\ ~d.asking /\ Shown(d)
  BY <1>4, <1>6, StartedSound DEF Quieter, Shown
<1>8. Right(RetrieveHashes(f, d, dl, occupied))
  BY <1>7, RetrieveHashesRight DEF State
<1> QED  BY <1>5, <1>8, ThenScanChunksRight

\* remove(): DELETED, then stop().
LEMMA RemoveDownloadRight ==
  ASSUME ConstantsAssumption, Right(State), NEW f \in Files, RemoveDownload(f)
  PROVE  Right(State)'
<1> DEFINE d == [Unlisted(dl[f]) EXCEPT !.status = "DELETED", !.active = FALSE, !.retries = 0]
<1>1. dl[f] \in Download
  BY StateSound
<1>2. Unlisted(dl[f]) \in Download /\ Unlisted(dl[f]).asking = dl[f].asking
  <2> DEFINE n == IF dl[f].copies > 0 THEN dl[f].copies - 1 ELSE 0
  <2>1. n \in Nat
    BY <1>1 DEF Download
  <2>2. Unlisted(dl[f]) = [dl[f] EXCEPT !.copies = n]
    BY DEF Unlisted
  <2> HIDE DEF n
  <2> QED  BY <1>1, <2>1, <2>2 DEF Download
<1>3. /\ d \in Download /\ d.asking = dl[f].asking /\ d.status = "DELETED" /\ ~d.active
  BY <1>2 DEF Download, Status, Final
<1>4. PICK r \in EndRequest(f, d, dl, occupied) : ThenScanChunks(r, dl[f].active)
  BY DEF RemoveDownload
<1> HIDE DEF d
<1>5. Right(r)
  BY <1>3, EndRequestRight DEF State
<1> QED  BY <1>4, <1>5, ThenScanChunksRight

\* pause(true): PAUSED, then stop().
LEMMA PauseDownloadRight ==
  ASSUME ConstantsAssumption, Right(State), NEW f \in Files, PauseDownload(f)
  PROVE  Right(State)'
<1> DEFINE s == SetStatus(dl[f], "PAUSED")
           d == [s EXCEPT !.active = FALSE]
<1>1. dl[f] \in Download /\ "PAUSED" \in Status
  BY StateSound DEF Status, Final
<1>2. s \in Download /\ s.status = "PAUSED" /\ s.asking = dl[f].asking
  BY <1>1, SetStatusFields
<1>3. PICK r \in EndRequest(f, d, dl, occupied) : ThenScanChunks(r, dl[f].active)
  BY DEF PauseDownload
<1> HIDE DEF s
<1>4. d \in Download /\ d.asking = dl[f].asking /\ d.status = "PAUSED" /\ ~d.active
  BY <1>2 DEF Download
<1> HIDE DEF d
<1>5. Right(r)
  BY <1>3, <1>4, EndRequestRight DEF State
<1> QED  BY <1>3, <1>5, ThenScanChunksRight

\* pause(false), then a scan of the chunks.
LEMMA ResumeDownloadRight ==
  ASSUME ConstantsAssumption, Right(State), NEW f \in Files, ResumeDownload(f)
  PROVE  Right(State)'
<1>1. Sound(f, dl[f]) /\ "QUEUED" \in Status \ (Final \cup {"NONE"})
  BY StateSound DEF Status, Final
<1>2. /\ Quieter(f, dl[f], SetStatus(dl[f], "QUEUED"))
      /\ SetStatus(dl[f], "QUEUED").status # "NONE"
  BY <1>1, SetStatusSound, SetStatusFields DEF Sound
<1>3. Right(RetrieveHashes(f, SetStatus(dl[f], "QUEUED"), dl, occupied))
  <2>1. Shown(SetStatus(dl[f], "QUEUED"))
    BY <1>2, StateSound DEF Quieter
  <2> QED  BY <1>2, <2>1, RetrieveHashesRight DEF State, Quieter
<1> QED  BY <1>3, ThenScanChunksRight DEF ResumeDownload

\* The fields that count timers and occurrences are of no consequence.
LEMMA CountersQuieter ==
  ASSUME NEW f \in Files, NEW d, Sound(f, d), NEW n \in Nat
  PROVE  /\ Quieter(f, d, [d EXCEPT !.retries = n])
         /\ Quieter(f, d, [d EXCEPT !.copies = n])
         /\ [d EXCEPT !.retries = n].status = d.status
         /\ [d EXCEPT !.copies = n].status = d.status
BY DEF Sound, Quieter, Shown, Download

\* A refused or timed out request.
LEMMA RequestFailedRight ==
  ASSUME ConstantsAssumption, Right(State), NEW f \in Files,
         NEW s \in {"ENTRY_NOT_FOUND", "UNABLE_TO_RETRIEVE_THE_HASHES"},
         RequestFailed(f, s)
  PROVE  Right(State)'
<1>1. dl[f] \in Download /\ s \in Status \ (Final \cup {"NONE"})
  BY StateSound DEF Status, Final, Erroneous
<1>2. /\ SetStatus(dl[f], s) \in Download /\ SetStatus(dl[f], s).status = s
      /\ SetStatus(dl[f], s).asking = dl[f].asking
  BY <1>1, SetStatusFields
<1>3. PICK r \in EndRequest(f, SetStatus(dl[f], s), dl, occupied) :
         /\ dl' = [r.dl EXCEPT ![f].retries = @ + 1]
         /\ occupied' = r.occ
  BY DEF RequestFailed
<1>4. Right(r)
  BY <1>1, <1>2, EndRequestRight DEF State
<1> DEFINE e == [r.dl[f] EXCEPT !.retries = r.dl[f].retries + 1]
<1>5. r = [dl |-> r.dl, occ |-> r.occ] /\ Sound(f, r.dl[f]) /\ r.dl[f].retries + 1 \in Nat
  BY <1>4 DEF Right, Coherent, Sound, Download
<1>6. Quieter(f, r.dl[f], e)
  BY <1>5, CountersQuieter
<1>7. dl' = [r.dl EXCEPT ![f] = e]
  BY <1>3
<1> HIDE DEF e
<1> QED  BY <1>3, <1>4, <1>5, <1>6, <1>7, QuieterOneRight DEF State, Quieter

\* A new hash, which may be the last.
LEMMA NextHashRight ==
  ASSUME ConstantsAssumption, Right(State), NEW f \in Files, NextHash(f)
  PROVE  Right(State)'
<1> DEFINE d    == [dl[f] EXCEPT !.known = @ + 1]
           last == d.known = NbChunk[f]
           ended == IF last THEN EndRequest(f, d, dl, occupied)
                    ELSE {[dl |-> [dl EXCEPT ![f] = d], occ |-> occupied]}
<1>1. Sound(f, dl[f]) /\ dl[f].asking /\ dl[f].status \notin Final \cup {"NONE"}
  BY StateSound DEF NextHash, Sound
<1>2. /\ d \in Download /\ d.asking /\ d.status \notin Final \cup {"NONE"}
  BY <1>1 DEF Sound, Download
<1>3. PICK r \in ended : \E u \in IF last THEN UpdateStatus(f, r.dl[f]) ELSE {r.dl[f]} :
                         \E e \in IF u.source THEN UpdateStatus(f, u) ELSE {u} :
           ThenScanChunks([r EXCEPT !.dl[f] = e], u.source /\ Source[f] \in Available)
  BY DEF NextHash
<1> HIDE DEF d
<1>4. /\ Coherent(r) /\ r.dl[f].status # "NONE"
      /\ \A g \in Files \ {f} : Shown(r.dl[g])
      /\ IF last THEN r.dl[f].known = NbChunk[f] /\ ~r.dl[f].asking ELSE Shown(r.dl[f])
  <2>0. /\ Coherent([dl |-> dl, occ |-> occupied])
        /\ \A g \in Files : Shown(dl[g])
    BY StateSound DEF Right, State
  <2>1. CASE last
    <3>0. r \in EndRequest(f, d, dl, occupied)
      BY <1>3, <2>1
    <3>1. Coherent(r)
      BY <1>1, <1>2, <2>0, <3>0, EndRequestCoherent
    <3>2. r.dl[f].status # "NONE"
      BY <1>1, <1>2, <2>0, <3>0, EndRequestStatus
    <3>3. /\ \A g \in Files \ {f} : Shown(dl[g]) => Shown(r.dl[g])
          /\ d.known = NbChunk[f] => r.dl[f].known = NbChunk[f] /\ ~r.dl[f].asking
      BY <1>2, <2>0, <3>0, EndRequestShown
    <3> QED  BY <2>0, <2>1, <3>1, <3>2, <3>3
  <2>2. CASE ~last
    <3>1. Sound(f, d)
      BY <1>2, <2>2 DEF Sound
    <3>2. Coherent([dl |-> [dl EXCEPT ![f] = d], occ |-> occupied])
      BY <1>1, <2>0, <3>1, QuieterOneCoherent
    <3>3. r = [dl |-> [dl EXCEPT ![f] = d], occ |-> occupied]
      BY <1>3, <2>2
    <3>4. r.dl[f] = d /\ \A g \in Files \ {f} : r.dl[g] = dl[g]
      BY <3>3, StateSound
    <3>5. Shown(d)
      BY <1>2 DEF Shown
    <3> QED  BY <1>2, <2>0, <2>2, <3>2, <3>3, <3>4, <3>5
  <2> QED  BY <2>1, <2>2
<1> HIDE DEF ended
<1>5. Sound(f, r.dl[f]) /\ r = [dl |-> r.dl, occ |-> r.occ] /\ r.dl \in [Files -> Download]
  BY <1>4 DEF Coherent
<1> PICK u \in IF last THEN UpdateStatus(f, r.dl[f]) ELSE {r.dl[f]} :
      \E e \in IF u.source THEN UpdateStatus(f, u) ELSE {u} :
        ThenScanChunks([r EXCEPT !.dl[f] = e], u.source /\ Source[f] \in Available)
  BY <1>3
<1>6. Quieter(f, r.dl[f], u) /\ u.status # "NONE" /\ Sound(f, u)
  BY <1>4, <1>5, UpdateStatusSound DEF Quieter
<1>7. Shown(u)
  BY <1>4, <1>5, UpdateStatusEnded
<1> PICK e \in IF u.source THEN UpdateStatus(f, u) ELSE {u} :
      ThenScanChunks([r EXCEPT !.dl[f] = e], u.source /\ Source[f] \in Available)
  OBVIOUS
<1>8. Quieter(f, u, e)
  BY <1>6, UpdateStatusSound DEF Quieter
<1>9. Right([r EXCEPT !.dl[f] = e])
  <2>1. [r EXCEPT !.dl[f] = e] = [dl |-> [r.dl EXCEPT ![f] = e], occ |-> r.occ]
    BY <1>5
  <2>2. Coherent([dl |-> [r.dl EXCEPT ![f] = e], occ |-> r.occ])
    BY <1>4, <1>5, <1>6, <1>8, QuieterOneCoherent DEF Quieter
  <2>3. \A g \in Files : Shown([r.dl EXCEPT ![f] = e][g])
    BY <1>4, <1>5, <1>7, <1>8 DEF Quieter
  <2> QED  BY <2>1, <2>2, <2>3 DEF Right
<1> QED  BY <1>9, ThenScanChunksRight

\* The single-shot timer of a download.
LEMMA RetryRetrieveHashesRight ==
  ASSUME ConstantsAssumption, Right(State), NEW f \in Files, RetryRetrieveHashes(f)
  PROVE  Right(State)'
<1> DEFINE d == [dl[f] EXCEPT !.retries = @ - 1]
<1>1. Sound(f, dl[f]) /\ dl[f].retries - 1 \in Nat
  BY StateSound DEF RetryRetrieveHashes, Sound, Download
<1>2. Quieter(f, dl[f], d) /\ d.status = dl[f].status
  BY <1>1, CountersQuieter
<1>3. CASE d.status \in {"ENTRY_NOT_FOUND", "UNABLE_TO_RETRIEVE_THE_HASHES"}
  <2>1. dl' = RetrieveHashes(f, d, dl, occupied).dl /\ occupied' = RetrieveHashes(f, d, dl, occupied).occ
    BY <1>3 DEF RetryRetrieveHashes
  <2> HIDE DEF d
  <2>2. Right(RetrieveHashes(f, d, dl, occupied))
    <3>1. Sound(f, d) /\ Shown(d) /\ (d.asking => dl[f].asking) /\ d.status # "NONE"
      BY <1>2, <1>3, StateSound DEF Quieter
    <3> QED  BY <3>1, RetrieveHashesRight DEF State
  <2> QED  BY <2>1, <2>2 DEF State, Right, Coherent
<1>4. CASE d.status \notin {"ENTRY_NOT_FOUND", "UNABLE_TO_RETRIEVE_THE_HASHES"}
  <2>1. dl' = [dl EXCEPT ![f] = d] /\ occupied' = occupied
    BY <1>4 DEF RetryRetrieveHashes
  <2> HIDE DEF d
  <2> QED  BY <1>2, <2>1, QuieterOneRight DEF State, Quieter
<1> QED  BY <1>3, <1>4

\* The timer of the erroneous downloads restarts one.
LEMMA RestartErroneousRight ==
  ASSUME ConstantsAssumption, Right(State), NEW f \in Files,
         NEW taken \in [Files -> 0..MaxCopies], RestartErroneous(f, taken)
  PROVE  Right(State)'
<1> DEFINE left == [g \in Files |-> [dl[g] EXCEPT !.copies = @ - taken[g]]]
           new == [dl[f] EXCEPT !.copies = @ - 1]
<1>1. \A g \in Files : Sound(g, dl[g]) /\ dl[g].copies - taken[g] \in Nat
  <2>1. MaxCopies \in Nat
    BY DEF ConstantsAssumption
  <2>2. \A g \in Files : taken[g] \in Nat /\ taken[g] <= dl[g].copies
    BY <2>1 DEF RestartErroneous
  <2>3. \A g \in Files : Sound(g, dl[g]) /\ dl[g].copies \in Nat
    BY StateSound DEF Download
  <2> SUFFICES ASSUME NEW g \in Files
               PROVE  Sound(g, dl[g]) /\ dl[g].copies - taken[g] \in Nat
    OBVIOUS
  <2>4. dl[g].copies - taken[g] \in Nat
    BY <2>2, <2>3
  <2> QED  BY <2>3, <2>4
<1>2. \A g \in Files : Quieter(g, dl[g], left[g])
  BY <1>1, CountersQuieter
<1>3. left = [g \in Files |-> left[g]]
  OBVIOUS
<1>4. dl[f].copies - 1 \in Nat /\ dl[f].status \notin Final \cup {"NONE"}
  BY StateSound DEF RestartErroneous, Erroneous, Final, Download
<1>5. Quieter(f, dl[f], new) /\ new.status # "NONE"
  BY <1>1, <1>4, CountersQuieter
<1>6. left[f].asking = dl[f].asking /\ new.asking = dl[f].asking
  BY <1>1 DEF Sound, Download
<1>7. PICK d \in Started(f, new) :
         ThenScanChunks(RetrieveHashes(f, d, left, occupied),
                        /\ ~CanAsk(f, d, occupied, Available)
                        /\ d.source /\ Source[f] \in Available)
  BY DEF RestartErroneous
<1> HIDE DEF left, new
<1>8. Right([dl |-> left, occ |-> occupied])
  BY <1>2, <1>3, QuieterRight DEF State, Quieter
<1>9. Sound(f, d) /\ d.status # "NONE" /\ (d.asking => left[f].asking) /\ Shown(d)
  BY <1>5, <1>6, StartedSound, StateSound DEF Quieter
<1>10. Right(RetrieveHashes(f, d, left, occupied))
  BY <1>8, <1>9, RetrieveHashesRight
<1> QED  BY <1>7, <1>10, ThenScanChunksRight

\* The timer of the erroneous downloads finds none.
LEMMA RestartNothingRight ==
  ASSUME ConstantsAssumption, Right(State), RestartNothing
  PROVE  Right(State)'
<1>1. /\ dl' = [f \in Files |-> dl'[f]] /\ occupied' = occupied
      /\ \A f \in Files : dl'[f] = [dl[f] EXCEPT !.copies = 0]
  BY DEF RestartNothing
<1>2. ASSUME NEW f \in Files PROVE Quieter(f, dl[f], dl'[f])
  <2>1. Sound(f, dl[f])
    BY StateSound
  <2>2. Quieter(f, dl[f], [dl[f] EXCEPT !.copies = 0])
    BY <2>1, CountersQuieter
  <2>3. dl'[f] = [dl[f] EXCEPT !.copies = 0]
    BY <1>1
  <2> QED  BY <2>2, <2>3
<1> QED  BY <1>1, <1>2, QuieterRight DEF State, Quieter

\* The downloads of a peer learn that it is back, then the queue is scanned.
LEMMA PeerBecomesAvailableRight ==
  ASSUME ConstantsAssumption, Right(State), NEW p, NEW avail,
         PeerBecomesAvailable(p, avail)
  PROVE  Right(State)'
<1> DEFINE outcomes == [f \in Files |-> IF f \in InQueue(dl) /\ Source[f] = p
                                        THEN SourceAvailable(f, dl[f]) ELSE {dl[f]}]
<1>1. PICK dls \in Product(outcomes) :
         \E r \in NewPeer(p, dls, occupied, avail) : ThenScanChunks(r, TRUE)
  BY DEF PeerBecomesAvailable
<1>2. \A f \in Files : dls[f] \in outcomes[f]
  BY ProductMember
<1>3. dls = [f \in Files |-> dls[f]]
  BY ProductMember
<1>4. ASSUME NEW f \in Files PROVE Quieter(f, dl[f], dls[f])
  <2>1. Sound(f, dl[f]) /\ Quieter(f, dl[f], dl[f])
    BY StateSound DEF Quieter
  <2>2. CASE f \in InQueue(dl) /\ Source[f] = p
    BY <1>2, <2>1, <2>2, SourceAvailableSound DEF InQueue
  <2>3. CASE ~(f \in InQueue(dl) /\ Source[f] = p)
    BY <1>2, <2>1, <2>3
  <2> QED  BY <2>2, <2>3
<1> HIDE DEF outcomes
<1>5. Right([dl |-> dls, occ |-> occupied])
  BY <1>3, <1>4, QuieterRight DEF State, Quieter
<1> QED  BY <1>1, <1>5, NewPeerRight, ThenScanChunksRight

\* The request to a dead peer is dropped.
LEMMA RequestDroppedSound ==
  ASSUME NEW f \in Files, NEW d, Sound(f, d)
  PROVE  Quieter(f, d, RequestDropped(d)) /\ ~RequestDropped(d).asking
<1>1. "UNKNOWN_PEER_SOURCE" \in Status \ (Final \cup {"NONE"})
  BY DEF Status, Final
<1>2. RequestDropped(d) \in Download /\ ~RequestDropped(d).asking
  BY <1>1 DEF RequestDropped, Sound, Download
<1>3. /\ RequestDropped(d).status \in {d.status, "UNKNOWN_PEER_SOURCE"}
      /\ RequestDropped(d).active = d.active
  BY DEF RequestDropped, Sound, Download
<1>4. RequestDropped(d).status = "GETTING_THE_HASHES" =>
        d.status = "GETTING_THE_HASHES" /\ ~d.asking
  BY DEF RequestDropped, Sound, Download
<1> QED  BY <1>1, <1>2, <1>3, <1>4 DEF Quieter, Shown, Sound

\* The chunks lose a peer.
LEMMA ChunksLoseSound ==
  ASSUME ConstantsAssumption, NEW f \in Files,
         NEW d, Sound(f, d), d.status # "NONE", NEW e \in ChunksLose(f, d)
  PROVE  Quieter(f, d, e)
<1>1. CASE e \in MaybeUpdate(f, d)
  BY <1>1, MaybeUpdateSound
<1>2. ASSUME d.active, NEW o \in BOOLEAN,
             e \in UpdateStatus(f, [d EXCEPT !.active = o, !.failed = TRUE])
      PROVE  Quieter(f, d, e)
  <2> DEFINE c == [d EXCEPT !.active = o, !.failed = TRUE]
  <2>1. Quieter(f, d, c) /\ c.status # "NONE"
    BY <1>2 DEF Quieter, Shown, Sound, Download
  <2>2. e \in UpdateStatus(f, c)
    BY <1>2
  <2> HIDE DEF c
  <2> QED  BY <2>1, <2>2, UpdateStatusSound DEF Quieter
<1>3. OtherChunk(d) \subseteq BOOLEAN
  BY DEF OtherChunk
<1> QED  BY <1>1, <1>2, <1>3 DEF ChunksLose

\* FileDownload::peerBecomesUnavailable: no request to the dead peer is left.
LEMMA PeerLostSound ==
  ASSUME ConstantsAssumption, NEW f \in Files,
         NEW d, Sound(f, d), d.status # "NONE", NEW p, NEW e \in PeerLost(f, d, p)
  PROVE  Quieter(f, d, e) /\ (Source[f] = p => ~e.asking)
<1> DEFINE dropped == IF Source[f] = p THEN RequestDropped(d) ELSE d
<1>1. /\ Quieter(f, d, dropped) /\ Sound(f, dropped) /\ dropped.status # "NONE"
      /\ Source[f] = p => ~dropped.asking
  BY RequestDroppedSound DEF Quieter
<1>2. PICK x \in ChunksLose(f, dropped) : e = [x EXCEPT !.source = @ /\ Source[f] # p]
  BY DEF PeerLost
<1> HIDE DEF dropped
<1>3. Quieter(f, dropped, x)
  BY <1>1, ChunksLoseSound
<1>4. Quieter(f, x, e)
  <2>1. Sound(f, x)
    BY <1>3 DEF Quieter
  <2> DEFINE b == x.source /\ Source[f] # p
  <2>2. b \in BOOLEAN
    OBVIOUS
  <2>3. e = [x EXCEPT !.source = b]
    BY <1>2
  <2> HIDE DEF b
  <2> QED  BY <2>1, <2>2, <2>3 DEF Quieter, Shown, Sound, Download
<1> QED  BY <1>1, <1>3, <1>4 DEF Quieter

\* A dead peer is asked nothing, so it may leave the occupied set.
LEMMA PeerDeadRight ==
  ASSUME ConstantsAssumption, Right(State), NEW p, PeerDead(p)
  PROVE  Right(State)'
<1> DEFINE outcomes == [f \in Files |-> IF f \in InQueue(dl)
                                        THEN PeerLost(f, dl[f], p) ELSE {dl[f]}]
<1>1. dl' \in Product(outcomes) /\ occupied' = occupied \ {p}
  BY DEF PeerDead
<1>2. \A f \in Files : dl'[f] \in outcomes[f]
  BY <1>1, ProductMember
<1>3. dl' = [f \in Files |-> dl'[f]]
  BY <1>1, ProductMember
<1>4. ASSUME NEW f \in Files
      PROVE  Quieter(f, dl[f], dl'[f]) /\ (Source[f] = p => ~dl'[f].asking)
  <2>1. Sound(f, dl[f])
    BY StateSound
  <2>2. CASE f \in InQueue(dl)
    BY <1>2, <2>1, <2>2, PeerLostSound DEF InQueue
  <2>3. CASE f \notin InQueue(dl)
    BY <1>2, <2>1, <2>3 DEF InQueue, Sound, Quieter, Final
  <2> QED  BY <2>2, <2>3
<1> HIDE DEF outcomes
<1>5. Right([dl |-> dl', occ |-> occupied])
  BY <1>3, <1>4, QuieterRight DEF State, Quieter
<1>6. Right([dl |-> dl', occ |-> occupied \ {p}])
  BY <1>4, <1>5, FreeCoherent DEF Right
<1> QED  BY <1>1, <1>6 DEF State

\* The transfer of a chunk ends.
LEMMA ChunkEndedRight ==
  ASSUME ConstantsAssumption, Right(State), NEW f \in Files,
         NEW error \in BOOLEAN, NEW others \in BOOLEAN, ChunkEnded(f, error, others)
  PROVE  Right(State)'
<1> DEFINE c == [dl[f] EXCEPT !.active = others, !.failed = @ \/ error]
<1>1. Sound(f, dl[f]) /\ dl[f].active /\ dl[f].status \notin Final \cup {"NONE"}
  BY StateSound DEF ChunkEnded, Sound
<1>2. Quieter(f, dl[f], c) /\ c.status # "NONE"
  <2> DEFINE b == dl[f].failed \/ error
  <2>1. b \in BOOLEAN /\ c = [dl[f] EXCEPT !.active = others, !.failed = b]
    OBVIOUS
  <2> HIDE DEF b, c
  <2> QED  BY <1>1, <2>1 DEF Sound, Quieter, Shown, Download
<1>3. PICK d \in UpdateStatus(f, c) :
         ThenScanChunks([dl |-> [dl EXCEPT ![f] = d], occ |-> occupied], TRUE)
  BY DEF ChunkEnded
<1> HIDE DEF c
<1>4. Quieter(f, dl[f], d)
  BY <1>2, UpdateStatusSound DEF Quieter
<1>5. Right([dl |-> [dl EXCEPT ![f] = d], occ |-> occupied])
  BY <1>4, QuieterOneRight DEF State, Quieter
<1> QED  BY <1>3, <1>5, ThenScanChunksRight

\* The peers of a chunk changed.
LEMMA ChunkPeersChangedRight ==
  ASSUME ConstantsAssumption, Right(State), NEW f \in Files, ChunkPeersChanged(f)
  PROVE  Right(State)'
<1>1. Sound(f, dl[f]) /\ dl[f].status # "NONE"
  BY StateSound DEF ChunkPeersChanged, InQueue
<1>2. PICK d \in UpdateStatus(f, dl[f]) :
         ThenScanChunks([dl |-> [dl EXCEPT ![f] = d], occ |-> occupied], TRUE)
  BY DEF ChunkPeersChanged
<1>3. Right([dl |-> [dl EXCEPT ![f] = d], occ |-> occupied])
  BY <1>1, UpdateStatusSound, QuieterOneRight DEF State, Quieter
<1> QED  BY <1>2, <1>3, ThenScanChunksRight

\* retryRetrieveHashes makes no download erroneous.
LEMMA RetryListsNothing ==
  ASSUME ConstantsAssumption, Right(State), NEW f \in Files, RetryRetrieveHashes(f),
         NEW g \in Files
  PROVE  dl'[g].copies = dl[g].copies
<1> DEFINE d == [dl[f] EXCEPT !.retries = @ - 1]
<1>1. dl \in [Files -> Download]
  BY StateSound
<1>2. d.copies = dl[f].copies
  BY <1>1 DEF Download
<1>3. Asked(d).copies = d.copies
  BY <1>1 DEF Asked, SetStatus, Download, Erroneous
<1>4. NotAsked(f, d, Available).copies = d.copies
  BY <1>1 DEF NotAsked, SetStatus, Download, Erroneous
<1>5. \/ dl' = [dl EXCEPT ![f] = d]
      \/ dl' = [dl EXCEPT ![f] = Asked(d)]
      \/ dl' = [dl EXCEPT ![f] = NotAsked(f, d, Available)]
  BY DEF RetryRetrieveHashes, RetrieveHashes
<1> HIDE DEF d
<1> QED  BY <1>1, <1>2, <1>3, <1>4, <1>5

\* A list that grows starts the timer, so a timer follows any action with
\* TimerStartedByErrors.
LEMMA TimerStarted ==
  ASSUME dl \in [Files -> Download], dl' \in [Files -> Download],
         restartTimer \in BOOLEAN, ListedHasTimer, TimerStartedByErrors
  PROVE  ListedHasTimer' /\ restartTimer' \in BOOLEAN
<1>1. \A f \in Files : dl[f].copies \in Nat /\ dl'[f].copies \in Nat
  BY DEF Download
<1>2. \A f \in Files : dl'[f].copies > 0 => dl'[f].copies > dl[f].copies \/ dl[f].copies > 0
  BY <1>1
<1> QED  BY <1>2 DEF ListedHasTimer, TimerStartedByErrors

\* The initial state.
LEMMA InitIInv == ASSUME ConstantsAssumption, Init PROVE IInv
<1>1. /\ NoDownload \in Download /\ ~NoDownload.asking /\ ~NoDownload.active
      /\ NoDownload.copies = 0
  BY DEF NoDownload, Download, Status
<1>2. \A f \in Files : Sound(f, NoDownload)
  BY <1>1 DEF Sound
<1>3. Right(State)
  <2>1. Shown(NoDownload)
    BY DEF NoDownload, Shown
  <2> QED  BY <1>1, <1>2, <2>1 DEF Init, State, Right, Coherent, Exclusive
<1>4. ListedHasTimer
  BY <1>1 DEF Init, ListedHasTimer
<1> QED  BY <1>3, <1>4 DEF IInv, Init

\* The actions of a download.
LEMMA DownloadStepIInv ==
  ASSUME ConstantsAssumption, IInv, NEW f \in Files, DownloadStep(f)
  PROVE  IInv'
<1>0. Right(State) /\ dl \in [Files -> Download]
  BY StateSound DEF IInv
<1>1. CASE \E status \in {"QUEUED", "PAUSED", "COMPLETE"}, known \in 0..NbChunk[f] :
             AddDownload(f, status, known)
  <2>1. Right(State)' /\ TimerStartedByErrors
    BY <1>0, <1>1, AddDownloadRight DEF AddDownload
  <2>2. UNCHANGED <<alive, blocked>>
    BY <1>1 DEF AddDownload
  <2> QED  BY <1>0, <2>1, <2>2, StateTyped, TimerStarted DEF IInv
<1>2. CASE RemoveDownload(f)
  BY <1>0, <1>2, RemoveDownloadRight, StateTyped, TimerStarted DEF IInv, RemoveDownload
<1>3. CASE PauseDownload(f)
  BY <1>0, <1>3, PauseDownloadRight, StateTyped, TimerStarted DEF IInv, PauseDownload
<1>4. CASE ResumeDownload(f)
  BY <1>0, <1>4, ResumeDownloadRight, StateTyped, TimerStarted DEF IInv, ResumeDownload
<1>5. CASE HashesRefused(f) \/ GetHashTimeout(f)
  <2>1. \E s \in {"ENTRY_NOT_FOUND", "UNABLE_TO_RETRIEVE_THE_HASHES"} : RequestFailed(f, s)
    BY <1>5 DEF HashesRefused, GetHashTimeout
  <2>2. Right(State)' /\ TimerStartedByErrors /\ UNCHANGED <<alive, blocked>>
    BY <1>0, <2>1, RequestFailedRight DEF RequestFailed
  <2> QED  BY <1>0, <2>2, StateTyped, TimerStarted DEF IInv
<1>6. CASE NextHash(f)
  BY <1>0, <1>6, NextHashRight, StateTyped, TimerStarted DEF IInv, NextHash
<1>7. CASE RetryRetrieveHashes(f)
  <2>1. Right(State)' /\ UNCHANGED <<restartTimer, alive, blocked>>
    BY <1>0, <1>7, RetryRetrieveHashesRight DEF RetryRetrieveHashes
  <2>2. \A g \in Files : dl'[g].copies = dl[g].copies
    BY <1>0, <1>7, RetryListsNothing
  <2> QED  BY <2>1, <2>2 DEF IInv, ListedHasTimer
<1>8. CASE \E taken \in [Files -> 0..MaxCopies] : RestartErroneous(f, taken)
  <2>1. Right(State)' /\ restartTimer' = TRUE /\ UNCHANGED <<alive, blocked>>
    BY <1>0, <1>8, RestartErroneousRight DEF RestartErroneous, Rearmed
  <2> QED  BY <2>1 DEF IInv, ListedHasTimer
<1>9. CASE \E error, others \in BOOLEAN : ChunkEnded(f, error, others)
  <2>1. Right(State)' /\ TimerStartedByErrors /\ UNCHANGED <<alive, blocked>>
    BY <1>0, <1>9, ChunkEndedRight DEF ChunkEnded
  <2> QED  BY <1>0, <2>1, StateTyped, TimerStarted DEF IInv
<1>10. CASE ChunkPeersChanged(f)
  BY <1>0, <1>10, ChunkPeersChangedRight, StateTyped, TimerStarted DEF IInv, ChunkPeersChanged
<1> QED
  BY <1>1, <1>2, <1>3, <1>4, <1>5, <1>6, <1>7, <1>8, <1>9, <1>10 DEF DownloadStep

\* The actions of a peer.
LEMMA PeerStepIInv ==
  ASSUME ConstantsAssumption, IInv, NEW p \in Peers, PeerStep(p)
  PROVE  IInv'
<1>0. Right(State) /\ dl \in [Files -> Download]
  BY StateSound DEF IInv
<1>1. CASE PeerAlive(p)
  <2>1. Right(State)'
    BY <1>0, <1>1, PeerBecomesAvailableRight DEF PeerAlive, State
  <2> QED  BY <1>0, <1>1, <2>1, StateTyped, TimerStarted DEF IInv, PeerAlive
<1>2. CASE PeerUnblocked(p)
  <2>1. Right(State)'
    BY <1>0, <1>2, PeerBecomesAvailableRight DEF PeerUnblocked, State
  <2> QED  BY <1>0, <1>2, <2>1, StateTyped, TimerStarted DEF IInv, PeerUnblocked
<1>3. CASE PeerBlocked(p)
  BY <1>3 DEF IInv, PeerBlocked, State, ListedHasTimer
<1>4. CASE PeerDead(p)
  BY <1>0, <1>4, PeerDeadRight, StateTyped, TimerStarted DEF IInv, PeerDead
<1> QED  BY <1>1, <1>2, <1>3, <1>4 DEF PeerStep

\* Every step preserves the invariant.
LEMMA NextIInv == ASSUME ConstantsAssumption, IInv, [Next]_vars PROVE IInv'
<1>1. CASE \E f \in Files : DownloadStep(f)
  BY <1>1, DownloadStepIInv
<1>2. CASE RestartNothing
  <2>1. Right(State)'
    BY <1>2, RestartNothingRight DEF IInv
  <2>2. \A f \in Files : dl'[f].copies = 0
    BY <1>2, StateSound DEF RestartNothing, IInv, Download
  <2>3. ListedHasTimer'
    BY <2>2 DEF ListedHasTimer
  <2>4. restartTimer' \in BOOLEAN /\ UNCHANGED <<alive, blocked>>
    BY <1>2 DEF RestartNothing
  <2> QED  BY <2>1, <2>3, <2>4 DEF IInv
<1>3. CASE \E p \in Peers : PeerStep(p)
  BY <1>3, PeerStepIInv
<1>4. CASE UNCHANGED vars
  BY <1>4 DEF vars, IInv, State, ListedHasTimer
<1> QED  BY <1>1, <1>2, <1>3, <1>4 DEF Next, Step

-----------------------------------------------------------------------------
(* The theorems.                                                           *)

\* The inductive invariant: requests are exclusive and held only by downloads
\* that may hold one, through every handler and the rescans it triggers.
THEOREM Invariance == Spec => []IInv
<1>1. Init => IInv
  BY ConstantsAssumption, InitIInv
<1>2. IInv /\ [Next]_vars => IInv'
  BY ConstantsAssumption, NextIInv
<1> QED  BY <1>1, <1>2, PTL DEF Spec

\* Every variable has its type (the members declared by FileDownload.h).
THEOREM TypeCorrect == Spec => []TypeOK
<1>1. IInv => TypeOK
  BY StateSound DEF IInv, TypeOK
<1> QED  BY <1>1, Invariance, PTL

\* No peer is ever asked for the hashes of two files at once, and a peer that
\* is asked is marked: what occupiedPeersAskingForHashes is for.
THEOREM OneRequest == Spec => []OneRequestPerPeer
<1>1. IInv => OneRequestPerPeer
  BY StateSound DEF IInv, OneRequestPerPeer, Exclusive
<1> QED  BY <1>1, Invariance, PTL

\* A download that shows a request as outstanding has one: retrieveHashes would
\* never ask again for one that did not.
THEOREM ShownIsAsked == Spec => []GettingIsAsking
<1>1. IInv => GettingIsAsking
  BY StateSound DEF IInv, GettingIsAsking, Shown
<1> QED  BY <1>1, Invariance, PTL

\* A paused, removed or complete download holds no request and no transfer,
\* and one that knows its hashes no request: stop() is not undone by the
\* rescans it runs.
THEOREM IdleIsQuiet == Spec => []IdleAsksNothing
<1>1. IInv => IdleAsksNothing
  BY StateSound DEF IInv, IdleAsksNothing, Sound
<1> QED  BY <1>1, Invariance, PTL

\* A listed erroneous download always has the timer that will read the list.
THEOREM ListHasTimer == Spec => []ListedHasTimer
<1>1. IInv => ListedHasTimer
  BY DEF IInv
<1> QED  BY <1>1, Invariance, PTL
=============================================================================
