--------------------------- MODULE HashRetrieval ---------------------------
(***************************************************************************)
(* How the downloads of the queue obtain the hashes of their chunks.       *)
(*                                                                         *)
(* A FileDownload asks its source peer for the hashes it does not know.    *)
(* The manager allows one such request per peer: the set                   *)
(* occupiedPeersAskingForHashes is the lock, and giving a peer back        *)
(* rescans the queue for another download to ask for.  Failures go two     *)
(* ways: a single-shot timer of the download, and the manager's list of    *)
(* erroneous downloads with its own timer.                                 *)
(*                                                                         *)
(* Everything here runs in the main thread, so an action is a whole event  *)
(* handler with the synchronous signals it triggers.  The chunks of a file *)
(* are seen through what FileDownload reads of them (is one downloading,   *)
(* what updateStatus can conclude); ChunkTransfer models them in detail.   *)
(***************************************************************************)
EXTENDS Naturals

CONSTANTS
  Files,          \* the FileDownload objects that may ever be created
  Peers,          \* the remote peers
  Source,         \* Source[f]: the peer with the ID peerSourceID of f
  NbChunk,        \* NbChunk[f]: NB_CHUNK, zero for an empty file
  MaxRetries,     \* bound: pending retryRetrieveHashes timers of a download
  MaxCopies       \* bound: occurrences of a download in erroneousDownloads

ASSUME ConstantsAssumption ==
  /\ Source \in [Files -> Peers]
  /\ NbChunk \in [Files -> Nat]
  /\ MaxRetries \in Nat
  /\ MaxCopies \in Nat

VARIABLES
  dl,             \* dl[f]: the members of the download f, see Download
  occupied,       \* occupiedPeersAskingForHashes
  restartTimer,   \* startErroneousDownloadTimer is active
  alive,          \* Peer::alive
  blocked         \* Peer::blocked, set by the thread that got corrupted data

vars == <<dl, occupied, restartTimer, alive, blocked>>

(***************************************************************************)
(* The status of a download.  QUEUED also stands for NO_SOURCE, and        *)
(* OTHER_ERROR for every status from 0x20 on except                        *)
(* UNABLE_TO_RETRIEVE_THE_HASHES: no guard below tells them apart.  NONE   *)
(* is a download not yet created.                                          *)
(***************************************************************************)
Erroneous == {"UNABLE_TO_RETRIEVE_THE_HASHES", "OTHER_ERROR"}

Final == {"COMPLETE", "PAUSED", "DELETED"}

Status == Erroneous \cup Final \cup
  {"NONE", "QUEUED", "GETTING_THE_HASHES", "DOWNLOADING",
   "UNKNOWN_PEER_SOURCE", "ENTRY_NOT_FOUND"}

Download ==
  [status  : Status,
   source  : BOOLEAN,   \* peerSource is not null
   asking  : BOOLEAN,   \* getHashesResult is not null
   known   : Nat,       \* nbHashesKnown
   active  : BOOLEAN,   \* one of the chunks is downloading
   failed  : BOOLEAN,   \* a chunk that does not has a lastTransferStatus >= 0x20
   retries : Nat,       \* pending single-shot calls of retryRetrieveHashes
   copies  : Nat]       \* occurrences in DownloadQueue::erroneousDownloads

\* The downloads held by DownloadQueue::downloads.
InQueue(dls) == {f \in Files : dls[f].status \notin {"NONE", "DELETED"}}

\* The peers for which Peer::isAvailable() is true.
Available == alive \ blocked

(***************************************************************************)
(* Every function that takes one of the results of each download at once:  *)
(* the outcomes of a loop over the queue.                                  *)
(***************************************************************************)
Product(outcomes) ==
  {e \in [Files -> UNION {outcomes[f] : f \in Files}] :
     \A f \in Files : e[f] \in outcomes[f]}

-----------------------------------------------------------------------------
(* Methods of Download and FileDownload, as functions of the object d.     *)

\* Download::setStatus: becoming erroneous appends the download to the list.
SetStatus(d, s) ==
  [d EXCEPT
    !.status = s,
    !.copies = IF s \in Erroneous /\ d.status \notin Erroneous
               THEN @ + 1 ELSE @]

\* What may be true of some other chunk than a given one of d.
OtherChunk(d) == IF d.known > 1 THEN BOOLEAN ELSE {FALSE}

\* The download d with the status s, the failures of its chunks being left.
Showing(d, s, left) == {[SetStatus(d, s) EXCEPT !.failed = b] : b \in left}

\* A chunk lost its file.  reset() goes through a null pointer, which ends the
\* program, unless every hash is known; failures of later chunks are left.
LostFile(f, d) ==
  IF d.failed /\ d.known = NbChunk[f]
  THEN Showing(d, "OTHER_ERROR", OtherChunk(d))
  ELSE {}

\* What the chunks, none of them downloading, may conclude.
Opinions(f, d) ==
  IF d.failed
  THEN {"OTHER_ERROR"} \cup (IF d.known > 1 THEN {"QUEUED"} ELSE {})
  ELSE (IF d.known = NbChunk[f] THEN {"COMPLETE"} ELSE {d.status})
         \cup (IF d.known > 0 THEN {"QUEUED"} ELSE {})

\* An outstanding request overrides any conclusion but COMPLETE.
Verdict(d, s) == IF d.asking /\ s # "COMPLETE" THEN "GETTING_THE_HASHES" ELSE s

(***************************************************************************)
(* FileDownload::updateStatus.  A downloading chunk ends the loop over the *)
(* chunks: the failures listed before it are forgotten.  Otherwise every   *)
(* failure is read and reset and the last chunk that has an opinion wins.  *)
(***************************************************************************)
UpdateStatus(f, d) ==
  IF d.status \in Final
  THEN {d}
  ELSE LostFile(f, d) \cup
       IF d.active
       THEN Showing(d, "DOWNLOADING", {FALSE, d.failed})
       ELSE UNION {Showing(d, Verdict(d, s), {FALSE}) : s \in Opinions(f, d)}

\* updateStatus called through ChunkDownloader::numberOfPeersChanged, if any
\* chunk exists and its peers did change.
MaybeUpdate(f, d) == {d} \cup (IF d.known > 0 THEN UpdateStatus(f, d) ELSE {})

\* A chunk starts, maybe one whose last transfer failed: downloadStarted.
Starting(d) ==
  {[SetStatus(d, "DOWNLOADING") EXCEPT !.active = TRUE, !.failed = b] :
     b \in {o \in OtherChunk(d) : o => d.failed}}

(***************************************************************************)
(* What scanTheQueue may do to one download: nothing; drop unavailable     *)
(* peers of a chunk; fail to create the file; start a chunk.               *)
(***************************************************************************)
Scanned(f, d) ==
  IF d.known = 0 \/ d.status \in Final \cup Erroneous \cup {"NONE"}
  THEN {d}
  ELSE LET seen == MaybeUpdate(f, d)
       IN  seen
             \cup {SetStatus(e, "OTHER_ERROR") :
                     e \in {x \in seen : ~x.active /\ x.status # "COMPLETE"}}
             \cup UNION {Starting(e) : e \in {x \in seen : x.status # "COMPLETE"}}

\* DownloadManager::scanTheQueue; ChunkTransfer decides which chunks start.
ScanTheQueue(dls) == Product([f \in Files |-> Scanned(f, dls[f])])

\* The first test of FileDownload::retrieveHashes.
NeedsHashes(f, d) ==
  /\ d.known # NbChunk[f]
  /\ d.status \notin Final \cup {"GETTING_THE_HASHES"}

\* Mutant of CanAsk: the result of setPeerAsOccupied is not looked at.
CanAskOccupied(f, d, occ, avail) ==
  NeedsHashes(f, d) /\ d.source /\ Source[f] \in avail

\* retrieveHashes sends a request and returns true.
CanAsk(f, d, occ, avail) ==
  /\ NeedsHashes(f, d)
  /\ d.source
  /\ Source[f] \in avail
  /\ Source[f] \notin occ

Asked(d) == SetStatus([d EXCEPT !.asking = TRUE], "GETTING_THE_HASHES")

(***************************************************************************)
(* The download after retrieveHashes returned false.  Past the test on     *)
(* peerSource, getHashesResult has been overwritten by a null pointer or   *)
(* by a result that is cleared because the peer is occupied.               *)
(***************************************************************************)
NotAsked(f, d, avail) ==
  CASE ~NeedsHashes(f, d) -> d
    [] NeedsHashes(f, d) /\ ~d.source -> SetStatus(d, "UNKNOWN_PEER_SOURCE")
    [] NeedsHashes(f, d) /\ d.source /\ Source[f] \notin avail ->
         SetStatus([d EXCEPT !.asking = FALSE], "UNKNOWN_PEER_SOURCE")
    [] OTHER -> [d EXCEPT !.asking = FALSE]

-----------------------------------------------------------------------------
(* OccupiedPeers and the signal newFreePeer.  A result is a record of the  *)
(* downloads and of the occupied peers.                                    *)

\* The downloads a scan for hashes calls retrieveHashes for.
Tried(dls) == {g \in InQueue(dls) : dls[g].status \notin Erroneous \cup {"COMPLETE"}}

\* Those of them for which it sends a request.
Able(dls, occ, avail) == {g \in Tried(dls) : CanAsk(g, dls[g], occ, avail)}

\* The downloads after it was called in vain for those of a set.
Refused(set, dls, avail) ==
  [g \in Files |-> IF g \in set THEN NotAsked(g, dls[g], avail) ELSE dls[g]]

(***************************************************************************)
(* DownloadManager::peerNoLongerAskingForHashes: the downloads of the      *)
(* queue are tried in order until one sends a request.  The order is the   *)
(* user's (moveDownloads), so any set of downloads may come before the one *)
(* that asks; DownloadQueue models the order itself.                       *)
(***************************************************************************)
HashScan(dls, occ, avail) ==
  LET able == Able(dls, occ, avail)
  IN  IF able = {}
      THEN {[dl |-> Refused(Tried(dls), dls, avail), occ |-> occ]}
      ELSE {[dl  |-> [Refused(before, dls, avail) EXCEPT ![g] = Asked(dls[g])],
             occ |-> occ \cup {Source[g]}] :
              g \in able, before \in SUBSET (Tried(dls) \ able)}

\* The scan is skipped when no download has the peer p as its source.
ScanFor(p, dls, occ, avail) ==
  IF \E g \in InQueue(dls) : Source[g] = p
  THEN HashScan(dls, occ, avail)
  ELSE {[dl |-> dls, occ |-> occ]}

\* OccupiedPeers::setPeerAsFree
SetPeerAsFree(p, dls, occ, avail) ==
  IF p \in avail
  THEN ScanFor(p, dls, occ \ {p}, avail)
  ELSE {[dl |-> dls, occ |-> occ \ {p}]}

\* OccupiedPeers::newPeer
NewPeer(p, dls, occ, avail) ==
  IF p \notin occ
  THEN ScanFor(p, dls, occ, avail)
  ELSE {[dl |-> dls, occ |-> occ]}

\* getHashesResult.clear(), then the peer is given back if it is still known:
\* d is the download f at the time of the call.
EndRequest(f, d, dls, occ) ==
  LET cleared == [dls EXCEPT ![f] = [d EXCEPT !.asking = FALSE]]
  IN  IF d.asking /\ d.source
      THEN SetPeerAsFree(Source[f], cleared, occ, Available)
      ELSE {[dl |-> cleared, occ |-> occ]}

\* retrieveHashes called for f alone, d being its current state.
RetrieveHashes(f, d, dls, occ) ==
  IF CanAsk(f, d, occ, Available)
  THEN [dl  |-> [dls EXCEPT ![f] = Asked(d)],
        occ |-> occ \cup {Source[f]}]
  ELSE [dl  |-> [dls EXCEPT ![f] = NotAsked(f, d, Available)],
        occ |-> occ]

\* The signal peerBecomesAvailable reaching one download.
SourceAvailable(f, d) ==
  MaybeUpdate(f,
    [d EXCEPT !.source = TRUE,
              !.status = IF @ = "UNKNOWN_PEER_SOURCE" THEN "QUEUED" ELSE @])

(***************************************************************************)
(* FileDownload::start up to the call of retrieveHashes: the states d may  *)
(* then be in.  Only an empty file is created here, and that may fail.     *)
(***************************************************************************)
Started(f, d) ==
  LET linked  == IF d.source /\ Source[f] \in Available
                 THEN SourceAvailable(f, d) ELSE {d}
      updated == UNION {UpdateStatus(f, e) : e \in linked}
  IN  updated \cup (IF NbChunk[f] = 0
                    THEN {SetStatus(e, "OTHER_ERROR") : e \in updated}
                    ELSE {})

-----------------------------------------------------------------------------
(* The actions.                                                            *)

\* The list of erroneous downloads grew, so downloadStatusBecomeErroneous ran.
TimerStartedByErrors ==
  restartTimer' = (restartTimer \/ \E f \in Files : dl'[f].copies > dl[f].copies)

\* The peer of a stopped chunk was given back: the chunks are rescanned.
ThenScanChunks(r, scanned) ==
  /\ occupied' = r.occ
  /\ dl' \in IF scanned THEN ScanTheQueue(r.dl) ELSE {r.dl}

(***************************************************************************)
(* addDownload, from the GUI or from the saved queue: a queued or paused   *)
(* download may come with some hashes, a complete one has them all.  The   *)
(* source is a peer object, which may be a placeholder not yet alive.      *)
(***************************************************************************)
AddDownload(f, status, known) ==
  /\ dl[f].status = "NONE"
  /\ status = "COMPLETE" => known = NbChunk[f]
  /\ LET new == [dl[f] EXCEPT !.status = status, !.known = known,
                              !.source = TRUE]
     IN  \E d \in Started(f, new) :
           LET r == RetrieveHashes(f, d, dl, occupied)
           IN  ThenScanChunks(r, /\ ~CanAsk(f, d, occupied, Available)
                                 /\ Source[f] \in Available)
  /\ TimerStartedByErrors
  /\ UNCHANGED <<alive, blocked>>

\* Mutant of Unlisted: an occurrence is taken whether there is one or not.
UnlistedBlindly(d) == [d EXCEPT !.copies = @ - 1]

\* erroneousDownloads.removeOne: the first occurrence, if there is one.
Unlisted(d) == [d EXCEPT !.copies = IF @ > 0 THEN @ - 1 ELSE 0]

\* removeDownloads with the ID of f, or removeAllCompleteDownloads: the
\* object leaves the queue and one occurrence leaves the erroneous list;
\* deleting the object cancels its single-shot timers.
RemoveDownload(f) ==
  /\ f \in InQueue(dl)
  /\ LET d == [Unlisted(dl[f]) EXCEPT !.status = "DELETED",
                                      !.active = FALSE,
                                      !.retries = 0]
     IN  \E r \in EndRequest(f, d, dl, occupied) :
           ThenScanChunks(r, dl[f].active)
  /\ TimerStartedByErrors
  /\ UNCHANGED <<alive, blocked>>

\* Mutant of PauseDownload: the status is set after stop() instead of before.
PauseAfterStop(f) ==
  /\ f \in InQueue(dl)
  /\ dl[f].status \notin Final
  /\ \E r \in EndRequest(f, [dl[f] EXCEPT !.active = FALSE], dl, occupied) :
       ThenScanChunks([r EXCEPT !.dl[f] = SetStatus(@, "PAUSED")], dl[f].active)
  /\ TimerStartedByErrors
  /\ UNCHANGED <<alive, blocked>>

\* FileDownload::pause(true): stop() ends the request, then every chunk.
PauseDownload(f) ==
  /\ f \in InQueue(dl)
  /\ dl[f].status \notin Final
  /\ LET d == [SetStatus(dl[f], "PAUSED") EXCEPT !.active = FALSE]
     IN  \E r \in EndRequest(f, d, dl, occupied) :
           ThenScanChunks(r, dl[f].active)
  /\ TimerStartedByErrors
  /\ UNCHANGED <<alive, blocked>>

\* pauseDownloads(IDs, false): FileDownload::pause(false), then a scan.
ResumeDownload(f) ==
  /\ dl[f].status = "PAUSED"
  /\ ThenScanChunks(
       RetrieveHashes(f, SetStatus(dl[f], "QUEUED"), dl, occupied), TRUE)
  /\ TimerStartedByErrors
  /\ UNCHANGED <<alive, blocked>>

\* The request of f failed: the status is set before the peer is given back,
\* and the retry is armed after.
RequestFailed(f, status) ==
  /\ dl[f].asking
  /\ dl[f].retries < MaxRetries
  /\ \E r \in EndRequest(f, SetStatus(dl[f], status), dl, occupied) :
       /\ dl' = [r.dl EXCEPT ![f].retries = @ + 1]
       /\ occupied' = r.occ
  /\ TimerStartedByErrors
  /\ UNCHANGED <<alive, blocked>>

\* FileDownload::result with a status other than OK.
HashesRefused(f) ==
  \/ RequestFailed(f, "ENTRY_NOT_FOUND")
  \/ RequestFailed(f, "UNABLE_TO_RETRIEVE_THE_HASHES")

\* FileDownload::getHashTimeout
GetHashTimeout(f) == RequestFailed(f, "UNABLE_TO_RETRIEVE_THE_HASHES")

(***************************************************************************)
(* FileDownload::nextHash for a hash that was not known.  The last one     *)
(* ends the request and gives the peer back before the status is updated;  *)
(* the new chunk then learns the source, which may start it.               *)
(***************************************************************************)
NextHash(f) ==
  /\ dl[f].asking
  /\ dl[f].known < NbChunk[f]
  /\ LET d    == [dl[f] EXCEPT !.known = @ + 1]
         last == d.known = NbChunk[f]
     IN  \E r \in IF last THEN EndRequest(f, d, dl, occupied)
                  ELSE {[dl |-> [dl EXCEPT ![f] = d], occ |-> occupied]} :
         \E u \in IF last THEN UpdateStatus(f, r.dl[f]) ELSE {r.dl[f]} :
         \E e \in IF u.source THEN UpdateStatus(f, u) ELSE {u} :
           ThenScanChunks([r EXCEPT !.dl[f] = e],
                          u.source /\ Source[f] \in Available)
  /\ TimerStartedByErrors
  /\ UNCHANGED <<alive, blocked>>

\* FileDownload::retryRetrieveHashes, RETRY_PEER_GET_HASHES_PERIOD later.
RetryRetrieveHashes(f) ==
  /\ dl[f].retries > 0
  /\ LET d == [dl[f] EXCEPT !.retries = @ - 1]
         r == IF d.status \in {"ENTRY_NOT_FOUND", "UNABLE_TO_RETRIEVE_THE_HASHES"}
              THEN RetrieveHashes(f, d, dl, occupied)
              ELSE [dl |-> [dl EXCEPT ![f] = d], occ |-> occupied]
     IN  dl' = r.dl /\ occupied' = r.occ
  /\ UNCHANGED <<restartTimer, alive, blocked>>

\* Mutant of Rearmed: the single-shot timer is left stopped.
NotRearmed == restartTimer' = FALSE

\* startErroneousDownloadTimer, which has just fired, is started again.
Rearmed == restartTimer' = TRUE

(***************************************************************************)
(* DownloadManager::restartErroneousDownloads, when the timer fires and an *)
(* erroneous download f is found: the occurrences taken before it (of      *)
(* downloads that are no longer erroneous, or no longer exist) are lost.   *)
(***************************************************************************)
RestartErroneous(f, taken) ==
  /\ restartTimer
  /\ f \in InQueue(dl)
  /\ dl[f].status \in Erroneous
  /\ dl[f].copies > 0
  /\ \A g \in Files :
       /\ taken[g] <= dl[g].copies
       /\ dl[g].status \in Erroneous => taken[g] = 0
  /\ LET left == [g \in Files |-> [dl[g] EXCEPT !.copies = @ - taken[g]]]
     IN  \E d \in Started(f, [dl[f] EXCEPT !.copies = @ - 1]) :
           LET r == RetrieveHashes(f, d, left, occupied)
           IN  ThenScanChunks(r, /\ ~CanAsk(f, d, occupied, Available)
                                 /\ d.source /\ Source[f] \in Available)
  /\ Rearmed
  /\ UNCHANGED <<alive, blocked>>

\* The same, when no download of the list is erroneous any more: the list is
\* emptied and the timer stays stopped.
RestartNothing ==
  /\ restartTimer
  /\ \A f \in InQueue(dl) : dl[f].status \in Erroneous => dl[f].copies = 0
  /\ dl' = [f \in Files |-> [dl[f] EXCEPT !.copies = 0]]
  /\ restartTimer' = FALSE
  /\ UNCHANGED <<occupied, alive, blocked>>

\* DownloadManager::peerBecomesAvailable, avail being the new available peers.
PeerBecomesAvailable(p, avail) ==
  \E dls \in Product([f \in Files |->
               IF f \in InQueue(dl) /\ Source[f] = p
               THEN SourceAvailable(f, dl[f]) ELSE {dl[f]}]) :
    \E r \in NewPeer(p, dls, occupied, avail) :
      ThenScanChunks(r, TRUE)

\* The first IMAlive of p, or the first after it died (PeerManager::updatePeer).
PeerAlive(p) ==
  /\ p \notin alive
  /\ alive' = alive \cup {p}
  /\ IF p \notin blocked
     THEN PeerBecomesAvailable(p, Available \cup {p})
     ELSE UNCHANGED <<dl, occupied>>
  /\ TimerStartedByErrors
  /\ UNCHANGED blocked

\* blockedTimer: Peer::unblock, then PeerManager::peerUnblocked.
PeerUnblocked(p) ==
  /\ p \in blocked
  /\ blocked' = blocked \ {p}
  /\ IF p \in alive
     THEN PeerBecomesAvailable(p, Available \cup {p})
     ELSE UNCHANGED <<dl, occupied>>
  /\ TimerStartedByErrors
  /\ UNCHANGED alive

\* Peer::block, called by a download thread: nobody is told.
PeerBlocked(p) ==
  /\ p \in alive \ blocked
  /\ blocked' = blocked \cup {p}
  /\ UNCHANGED <<dl, occupied, restartTimer, alive>>

\* Mutant of RequestDropped: the download goes on showing GETTING_THE_HASHES.
RequestForgotten(d) == [d EXCEPT !.asking = FALSE]

\* The request of d to a dead peer is cleared, if there is one.
RequestDropped(d) ==
  [d EXCEPT !.asking = FALSE,
            !.status = IF d.asking /\ @ = "GETTING_THE_HASHES"
                       THEN "UNKNOWN_PEER_SOURCE" ELSE @]

\* Its chunks lose a peer; a transfer from it is stopped as a failed one.
ChunksLose(f, d) ==
  MaybeUpdate(f, d) \cup
    IF d.active
    THEN UNION {UpdateStatus(f, [d EXCEPT !.active = others, !.failed = TRUE]) :
                  others \in OtherChunk(d)}
    ELSE {}

\* FileDownload::peerBecomesUnavailable: peerSource becomes null last.
PeerLost(f, d, p) ==
  {[e EXCEPT !.source = @ /\ Source[f] # p] :
     e \in ChunksLose(f, IF Source[f] = p THEN RequestDropped(d) ELSE d)}

\* Peer::consideredDead, then DownloadManager::peerBecomesUnavailable.
PeerDead(p) ==
  /\ p \in alive
  /\ alive' = alive \ {p}
  /\ dl' \in Product([f \in Files |->
               IF f \in InQueue(dl) THEN PeerLost(f, dl[f], p) ELSE {dl[f]}])
  /\ occupied' = occupied \ {p}
  /\ TimerStartedByErrors
  /\ UNCHANGED blocked

\* ChunkDownloader::downloadingEnded of a chunk of f, with or without an error,
\* others still downloading or not: chunkDownloaderFinished, then the peer of
\* the chunk is given back.
ChunkEnded(f, error, others) ==
  /\ dl[f].active
  /\ f \in InQueue(dl)
  /\ others \in OtherChunk(dl[f])
  /\ \E d \in UpdateStatus(f, [dl[f] EXCEPT !.active = others,
                                           !.failed = @ \/ error]) :
       ThenScanChunks([dl |-> [dl EXCEPT ![f] = d], occ |-> occupied], TRUE)
  /\ TimerStartedByErrors
  /\ UNCHANGED <<alive, blocked>>

\* A ChunksOwned answer changes the peers of a chunk of f: addPeer or rmPeer.
ChunkPeersChanged(f) ==
  /\ f \in InQueue(dl)
  /\ dl[f].known > 0
  /\ \E d \in UpdateStatus(f, dl[f]) :
       ThenScanChunks([dl |-> [dl EXCEPT ![f] = d], occ |-> occupied], TRUE)
  /\ TimerStartedByErrors
  /\ UNCHANGED <<alive, blocked>>

-----------------------------------------------------------------------------
NoDownload ==
  [status |-> "NONE", source |-> FALSE, asking |-> FALSE, known |-> 0,
   active |-> FALSE, failed |-> FALSE, retries |-> 0, copies |-> 0]

Init ==
  /\ dl = [f \in Files |-> NoDownload]
  /\ occupied = {}
  /\ restartTimer = FALSE
  /\ alive = {}
  /\ blocked = {}

DownloadStep(f) ==
  \/ \E status \in {"QUEUED", "PAUSED", "COMPLETE"}, known \in 0..NbChunk[f] :
       AddDownload(f, status, known)
  \/ RemoveDownload(f)
  \/ PauseDownload(f)
  \/ ResumeDownload(f)
  \/ HashesRefused(f)
  \/ GetHashTimeout(f)
  \/ NextHash(f)
  \/ RetryRetrieveHashes(f)
  \/ \E taken \in [Files -> 0..MaxCopies] : RestartErroneous(f, taken)
  \/ \E error, others \in BOOLEAN : ChunkEnded(f, error, others)
  \/ ChunkPeersChanged(f)

PeerStep(p) ==
  \/ PeerAlive(p)
  \/ PeerUnblocked(p)
  \/ PeerBlocked(p)
  \/ PeerDead(p)

Step ==
  \/ \E f \in Files : DownloadStep(f)
  \/ RestartNothing
  \/ \E p \in Peers : PeerStep(p)

Next == Step /\ \A f \in Files : dl'[f].copies <= MaxCopies

Spec == Init /\ [][Next]_vars

-----------------------------------------------------------------------------
\* Types of the variables.
TypeOK ==
  /\ dl \in [Files -> Download]
  /\ occupied \in SUBSET Peers
  /\ restartTimer \in BOOLEAN
  /\ alive \in SUBSET Peers
  /\ blocked \in SUBSET Peers

(***************************************************************************)
(* At most one GetHashes request is outstanding per peer, and the peer is  *)
(* marked while it is: what setPeerAsOccupied in retrieveHashes is for.    *)
(* The peer is freed and the queue rescanned inside the handlers that end  *)
(* the request, so a second request can be sent before they return.        *)
(***************************************************************************)
OneRequestPerPeer ==
  \A f \in Files : dl[f].asking =>
    /\ Source[f] \in occupied
    /\ \A g \in Files : dl[g].asking /\ Source[g] = Source[f] => g = f

(***************************************************************************)
(* A download shown as getting the hashes has a request outstanding.       *)
(* retrieveHashes refuses to ask in this status, so such a download        *)
(* without a request would never be asked for again.                       *)
(***************************************************************************)
GettingIsAsking ==
  \A f \in Files : dl[f].status = "GETTING_THE_HASHES" => dl[f].asking

(***************************************************************************)
(* A download that is paused, removed or complete, or that knows all its   *)
(* hashes, holds no request, and none of the first three has a chunk       *)
(* downloading: the rescans run by stop() must not revive it.              *)
(***************************************************************************)
IdleAsksNothing ==
  \A f \in Files :
    /\ dl[f].status \in Final => ~dl[f].asking /\ ~dl[f].active
    /\ dl[f].known = NbChunk[f] => ~dl[f].asking

(***************************************************************************)
(* While the list of erroneous downloads is not empty, the timer that      *)
(* restarts them is running: it is a single-shot timer, started when a     *)
(* download becomes erroneous and again after each restart.                *)
(***************************************************************************)
ListedHasTimer == (\E f \in Files : dl[f].copies > 0) => restartTimer

-----------------------------------------------------------------------------
(* Statements of the code's comments that the code does not keep.          *)

(***************************************************************************)
(* OccupiedPeers.h: the set holds the "Peer IDs currently occupied": each  *)
(* of them has a request of some download outstanding.                     *)
(***************************************************************************)
OccupiedIsAsking ==
  \A p \in occupied : \E f \in Files : dl[f].asking /\ Source[f] = p

(***************************************************************************)
(* Constants.h: a download with a status >= 0x20 "will be restarted        *)
(* periodically": it is on the list restartErroneousDownloads reads.       *)
(***************************************************************************)
ErroneousIsListed ==
  \A f \in InQueue(dl) : dl[f].status \in Erroneous => dl[f].copies > 0

(***************************************************************************)
(* DownloadQueue.h: the downloads of the queue include the erroneous ones, *)
(* so a listed download is one of the queue and still exists.              *)
(***************************************************************************)
ListedIsQueued == \A f \in Files : dl[f].copies > 0 => f \in InQueue(dl)

(***************************************************************************)
(* Constants.h: "If the hashes cannot be retrieve from a peer, we wait 10s *)
(* before retrying": the handler that arms the retry leaves no request.    *)
(***************************************************************************)
RetryWaits ==
  [][\A f \in Files : dl'[f].retries > dl[f].retries => ~dl'[f].asking]_vars
=============================================================================
