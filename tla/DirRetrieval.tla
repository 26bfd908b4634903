--------------------------- MODULE DirRetrieval ---------------------------
(***************************************************************************)
(* How the directories of the queue are browsed.                           *)
(*                                                                         *)
(* A DirDownload asks its source peer for its entries; the answer replaces *)
(* it in the queue by its children.  One request per peer is intended:     *)
(* occupiedPeersAskingForEntries is the lock, and giving a peer back       *)
(* rescans the directories of the queue.  Unlike retrieveHashes,           *)
(* retrieveEntries does not test whether a request is outstanding.         *)
(*                                                                         *)
(* Everything runs in the main thread.  An action is a whole handler, but  *)
(* for the two that call several downloads in a row (newEntries and        *)
(* removeDownloads): each turn of their loops is an action, and no other   *)
(* handler runs before the last one.                                       *)
(***************************************************************************)
EXTENDS Naturals

CONSTANTS
  Dirs,           \* the DirDownload objects that may ever be created
  Peers,          \* the remote peers
  Source,         \* Source[d]: the peer with the ID peerSourceID of d
  Empty,          \* the directories with remoteEntry.is_empty()
  MaxRetries      \* bound: pending retryToGetEntries timers of a download

ASSUME ConstantsAssumption ==
  /\ Source \in [Dirs -> Peers]
  /\ Empty \subseteq Dirs
  /\ MaxRetries \in Nat

VARIABLES
  dl,             \* dl[d]: the members of the download d, see Download
  starting,       \* the children newEntries has still to add
  doomed,         \* downloads taken out of the queue, still to be deleted
  occupied,       \* occupiedPeersAskingForEntries
  alive,          \* Peer::alive
  blocked         \* Peer::blocked, set by a thread that got corrupted data

vars == <<dl, starting, doomed, occupied, alive, blocked>>

(***************************************************************************)
(* NONE is a download not yet created, ERROR any status from 0x20 on.  A   *)
(* directory is never paused nor complete, and asking for the entries does *)
(* not change its status.                                                  *)
(***************************************************************************)
Status ==
  {"NONE", "QUEUED", "UNKNOWN_PEER_SOURCE", "ENTRY_NOT_FOUND", "ERROR", "DELETED"}

Download ==
  [status  : Status,
   source  : BOOLEAN,   \* peerSource is not null
   asking  : BOOLEAN,   \* getEntriesResult is not null
   retries : Nat]       \* pending single-shot calls of retryToGetEntries

\* The directories held by DownloadQueue::downloads.
InQueue(dls) ==
  {d \in Dirs : dls[d].status \notin {"NONE", "DELETED"} /\ d \notin doomed}

\* The peers for which Peer::isAvailable() is true.
Available == alive \ blocked

\* No handler is in the middle of a loop.
Quiet == starting = {} /\ doomed = {}

-----------------------------------------------------------------------------
(* DirDownload::retrieveEntries.                                           *)

\* The first test: this status forbids asking.
Refuses(e) == e.status \in {"ENTRY_NOT_FOUND", "ERROR", "DELETED"}

\* A request is sent.  An outstanding one does not matter: it is overwritten.
CanAsk(d, e, occ, avail) ==
  /\ ~Refuses(e)
  /\ e.source
  /\ Source[d] \in avail
  /\ Source[d] \notin occ

Asked(e) == [e EXCEPT !.asking = TRUE]

(***************************************************************************)
(* The download after retrieveEntries returned false.  Past the test on    *)
(* peerSource, getEntriesResult is overwritten by a null pointer or by a   *)
(* result that is cleared because the peer is occupied: a request that was *)
(* outstanding is lost, and the peer it was sent to stays occupied.        *)
(***************************************************************************)
NotAsked(e) ==
  IF Refuses(e) THEN e
  ELSE IF e.source THEN [e EXCEPT !.asking = FALSE]
  ELSE [e EXCEPT !.status = "UNKNOWN_PEER_SOURCE"]

\* retrieveEntries called for d alone, e being its current state.
RetrieveEntries(d, e, dls, occ) ==
  IF CanAsk(d, e, occ, Available)
  THEN [dl |-> [dls EXCEPT ![d] = Asked(e)], occ |-> occ \cup {Source[d]}]
  ELSE [dl |-> [dls EXCEPT ![d] = NotAsked(e)], occ |-> occ]

-----------------------------------------------------------------------------
(* OccupiedPeers and the signal newFreePeer.  A result is a record of the  *)
(* downloads and of the occupied peers.                                    *)

Result(dls, occ) == [dl |-> dls, occ |-> occ]

\* The directories for which a scan sends a request, were they the first.
Able(dls, occ, avail) == {d \in InQueue(dls) : CanAsk(d, dls[d], occ, avail)}

\* The downloads after retrieveEntries was called in vain for those of a set.
Refused(set, dls) ==
  [d \in Dirs |-> IF d \in set THEN NotAsked(dls[d]) ELSE dls[d]]

\* A request is sent for d after some were tried in vain.
FirstAsked(d, before, dls, occ) ==
  Result([Refused(before, dls) EXCEPT ![d] = Asked(dls[d])], occ \cup {Source[d]})

(***************************************************************************)
(* DownloadManager::peerNoLongerAskingForEntries: the directories are      *)
(* tried in the order of the queue until one sends a request.  The order   *)
(* is the user's, so any set of directories may come before that one.      *)
(***************************************************************************)
EntriesScan(dls, occ, avail) ==
  LET able == Able(dls, occ, avail)
  IN  IF able = {}
      THEN {Result(Refused(InQueue(dls), dls), occ)}
      ELSE {FirstAsked(d, before, dls, occ) :
              d \in able, before \in SUBSET (InQueue(dls) \ able)}

\* The scan is skipped when no download has the peer p as its source; a file
\* of the queue may have it.
ScanFor(p, dls, occ, avail) ==
  EntriesScan(dls, occ, avail) \cup
    (IF \E d \in InQueue(dls) : Source[d] = p THEN {} ELSE {Result(dls, occ)})

\* Mutant of SetPeerAsFree: the peer is given back silently.
SetPeerAsFreeSilently(p, dls, occ) == {Result(dls, occ \ {p})}

\* OccupiedPeers::setPeerAsFree
SetPeerAsFree(p, dls, occ) ==
  IF p \in Available
  THEN ScanFor(p, dls, occ \ {p}, Available)
  ELSE {Result(dls, occ \ {p})}

\* OccupiedPeers::newPeer
NewPeer(p, dls, occ, avail) ==
  IF p \in occ THEN {Result(dls, occ)} ELSE ScanFor(p, dls, occ, avail)

\* The source peer of d is given back, if d still knows it.
GivenBack(d, dls) ==
  IF dl[d].source THEN SetPeerAsFree(Source[d], dls, occupied)
  ELSE {Result(dls, occupied)}

\* The variables take the values of one of the results.
Becomes(results) == \E r \in results : dl' = r.dl /\ occupied' = r.occ

-----------------------------------------------------------------------------
(* DirDownload::start.                                                     *)

\* updateStatus, then createDirectory, which may fail for an empty directory.
Updated(d, e) ==
  {[e EXCEPT !.status = s] :
     s \in {IF e.source /\ Source[d] \in Available
            THEN "QUEUED" ELSE "UNKNOWN_PEER_SOURCE"}
           \cup (IF d \in Empty THEN {"ERROR"} ELSE {})}

Start(d, e) ==
  Becomes({RetrieveEntries(d, u, dl, occupied) : u \in Updated(d, e)})

\* A new object: its source is a peer object, maybe one not yet alive.
NewDownload == [status |-> "QUEUED", source |-> TRUE, asking |-> FALSE, retries |-> 0]

\* addDownload of a directory, from the GUI or from the saved queue.
AddDownload(d) ==
  /\ Quiet
  /\ dl[d].status = "NONE"
  /\ Start(d, NewDownload)
  /\ UNCHANGED <<starting, doomed, alive, blocked>>

\* restartErroneousDownloads picks d; HashRetrieval models its list and timer.
RestartErroneous(d) ==
  /\ Quiet
  /\ dl[d].status = "ERROR"
  /\ Start(d, dl[d])
  /\ UNCHANGED <<starting, doomed, alive, blocked>>

-----------------------------------------------------------------------------
(* The end of a request.                                                   *)

(***************************************************************************)
(* DirDownload::result with the entries: the manager's newEntries takes    *)
(* the directory out of the queue, adds its sub-directories while the peer *)
(* is still occupied, and deletes it, see AddChild and Destroy.            *)
(***************************************************************************)
NewEntries(d, children) ==
  /\ Quiet
  /\ dl[d].asking
  /\ \A c \in children : dl[c].status = "NONE" /\ Source[c] = Source[d]
  /\ dl' = [dl EXCEPT ![d].asking = FALSE]
  /\ starting' = children
  /\ doomed' = {d}
  /\ UNCHANGED <<occupied, alive, blocked>>

AddChild(c) ==
  /\ c \in starting
  /\ starting' = starting \ {c}
  /\ Start(c, NewDownload)
  /\ UNCHANGED <<doomed, alive, blocked>>

\* Mutant of Armed: the failure is not tried again.
NotArmed(e) == e

\* QTimer::singleShot(RETRY_GET_ENTRIES_PERIOD, this, retryToGetEntries)
Armed(e) == [e EXCEPT !.retries = @ + 1]

Failed(e, status) == [e EXCEPT !.status = status, !.asking = FALSE]

\* The status is set before the peer is given back, the retry armed after.
RequestFailed(d, status) ==
  /\ Quiet
  /\ dl[d].asking
  /\ dl[d].retries < MaxRetries
  /\ \E r \in GivenBack(d, [dl EXCEPT ![d] = Failed(@, status)]) :
       /\ dl' = [r.dl EXCEPT ![d] = Armed(@)]
       /\ occupied' = r.occ
  /\ UNCHANGED <<starting, doomed, alive, blocked>>

\* DirDownload::result without the entries: DONT_HAVE, scanning or another.
EntriesRefused(d) ==
  RequestFailed(d, "ENTRY_NOT_FOUND") \/ RequestFailed(d, "ERROR")

\* DirDownload::resultTimeout
ResultTimeout(d) == RequestFailed(d, "ERROR")

\* Mutant of RetryToGetEntries: a timer that was not armed, or is cancelled, fires.
RetryUnarmed(d) ==
  /\ Quiet
  /\ d \in InQueue(dl)
  /\ Becomes({RetrieveEntries(d,
                [dl[d] EXCEPT !.retries = @ - 1, !.status = "QUEUED"],
                dl, occupied)})
  /\ UNCHANGED <<starting, doomed, alive, blocked>>

\* DirDownload::retryToGetEntries, RETRY_GET_ENTRIES_PERIOD later.
RetryToGetEntries(d) ==
  /\ Quiet
  /\ dl[d].retries > 0
  /\ Becomes({RetrieveEntries(d,
                [dl[d] EXCEPT !.retries = @ - 1, !.status = "QUEUED"],
                dl, occupied)})
  /\ UNCHANGED <<starting, doomed, alive, blocked>>

-----------------------------------------------------------------------------
(* Removal.                                                                *)

\* removeDownloads: every chosen download is marked and leaves the queue...
RemoveDownloads(chosen) ==
  /\ Quiet
  /\ chosen # {} /\ chosen \subseteq InQueue(dl)
  /\ dl' = [d \in Dirs |->
              IF d \in chosen THEN [dl[d] EXCEPT !.status = "DELETED"] ELSE dl[d]]
  /\ doomed' = chosen
  /\ UNCHANGED <<starting, occupied, alive, blocked>>

\* What is left of a deleted object.
Gone == [status |-> "DELETED", source |-> FALSE, asking |-> FALSE, retries |-> 0]

(***************************************************************************)
(* ... then they are deleted one by one.  The destructor gives the source  *)
(* peer back, whoever occupies it; the timers die with the object.         *)
(***************************************************************************)
Destroy(d) ==
  /\ starting = {}
  /\ d \in doomed
  /\ doomed' = doomed \ {d}
  /\ Becomes(GivenBack(d, [dl EXCEPT ![d] = Gone]))
  /\ UNCHANGED <<starting, alive, blocked>>

-----------------------------------------------------------------------------
(* The peers.                                                              *)

\* DownloadQueue::peerBecomesAvailable: the downloads of p know it again.
Linked(p) ==
  [d \in Dirs |-> IF d \in InQueue(dl) /\ Source[d] = p
                  THEN [dl[d] EXCEPT !.source = TRUE] ELSE dl[d]]

\* DownloadManager::peerBecomesAvailable, avail being the new available peers.
PeerBecomesAvailable(p, avail) ==
  Becomes(NewPeer(p, Linked(p), occupied, avail))

\* The first IMAlive of p, or the first after it died (PeerManager::updatePeer).
PeerAlive(p) ==
  /\ Quiet
  /\ p \notin alive
  /\ alive' = alive \cup {p}
  /\ IF p \in blocked THEN UNCHANGED <<dl, occupied>>
     ELSE PeerBecomesAvailable(p, Available \cup {p})
  /\ UNCHANGED <<starting, doomed, blocked>>

\* blockedTimer: Peer::unblock, then PeerManager::peerUnblocked.
PeerUnblocked(p) ==
  /\ Quiet
  /\ p \in blocked
  /\ blocked' = blocked \ {p}
  /\ IF p \in alive THEN PeerBecomesAvailable(p, Available \cup {p})
     ELSE UNCHANGED <<dl, occupied>>
  /\ UNCHANGED <<starting, doomed, alive>>

(***************************************************************************)
(* Peer::block, called by a download thread: nobody is told.  The thread   *)
(* does not wait for the main one, so it may act between two turns of a    *)
(* loop.                                                                   *)
(***************************************************************************)
PeerBlocked(p) ==
  /\ p \in alive \ blocked
  /\ blocked' = blocked \cup {p}
  /\ UNCHANGED <<dl, starting, doomed, occupied, alive>>

\* Mutant of PeerLost: the request to the dead peer is left outstanding.
RequestLeft(e) == [e EXCEPT !.source = FALSE]

\* DirDownload::peerBecomesUnavailable for the source peer of e.
PeerLost(e) ==
  [e EXCEPT !.source = FALSE, !.asking = FALSE,
            !.status = IF e.asking /\ @ \notin {"ERROR", "DELETED"}
                       THEN "UNKNOWN_PEER_SOURCE" ELSE @]

\* Peer::consideredDead, then DownloadManager::peerBecomesUnavailable.
PeerDead(p) ==
  /\ Quiet
  /\ p \in alive
  /\ alive' = alive \ {p}
  /\ dl' = [d \in Dirs |-> IF d \in InQueue(dl) /\ dl[d].source /\ Source[d] = p
                            THEN PeerLost(dl[d]) ELSE dl[d]]
  /\ occupied' = occupied \ {p}
  /\ UNCHANGED <<starting, doomed, blocked>>

-----------------------------------------------------------------------------
Init ==
  /\ dl = [d \in Dirs |-> [status |-> "NONE", source |-> FALSE,
                           asking |-> FALSE, retries |-> 0]]
  /\ starting = {}
  /\ doomed = {}
  /\ occupied = {}
  /\ alive = {}
  /\ blocked = {}

DirStep(d) ==
  \/ AddDownload(d)
  \/ RestartErroneous(d)
  \/ \E children \in SUBSET Dirs : NewEntries(d, children)
  \/ AddChild(d)
  \/ EntriesRefused(d)
  \/ ResultTimeout(d)
  \/ RetryToGetEntries(d)
  \/ Destroy(d)

PeerStep(p) ==
  \/ PeerAlive(p)
  \/ PeerUnblocked(p)
  \/ PeerBlocked(p)
  \/ PeerDead(p)

Next ==
  \/ \E d \in Dirs : DirStep(d)
  \/ \E chosen \in SUBSET Dirs : RemoveDownloads(chosen)
  \/ \E p \in Peers : PeerStep(p)

Spec == Init /\ [][Next]_vars

-----------------------------------------------------------------------------
\* Types of the variables.
TypeOK ==
  /\ dl \in [Dirs -> Download]
  /\ starting \subseteq Dirs
  /\ doomed \subseteq Dirs
  /\ occupied \subseteq Peers
  /\ alive \subseteq Peers
  /\ blocked \subseteq Peers

(***************************************************************************)
(* A scan would find nothing to ask: when the source of a directory of the *)
(* queue is available and nothing forbids to ask it, the peer is occupied. *)
(* No timer tries a waiting directory again, so each handler that frees a  *)
(* peer, learns of one or changes a status has to ask or to rescan the     *)
(* queue in the same event.                                                *)
(***************************************************************************)
NoIdlePeer == Able(dl, occupied, Available) = {}

(***************************************************************************)
(* A directory the peer did not find has a retry pending: no list of the   *)
(* manager holds it and no scan tries it.                                  *)
(***************************************************************************)
NotFoundIsRetried ==
  \A d \in Dirs : dl[d].status = "ENTRY_NOT_FOUND" => dl[d].retries > 0

(***************************************************************************)
(* A directory that is asking knows its peer, so that the end of the       *)
(* request gives the peer back, and its status is one that allows to ask   *)
(* unless it is being removed.                                             *)
(***************************************************************************)
AskingIsLegitimate ==
  \A d \in Dirs : dl[d].asking =>
    dl[d].source /\ (Refuses(dl[d]) => dl[d].status = "DELETED")

-----------------------------------------------------------------------------
(* A statement of the code's comments that the code does not keep.         *)

(***************************************************************************)
(* OccupiedPeers.h: the set holds the "Peer IDs currently occupied": each  *)
(* of them has the request of a directory outstanding, or one whose answer *)
(* is being handled.                                                       *)
(***************************************************************************)
OccupiedIsAsked ==
  \A p \in occupied :
    \E d \in Dirs : Source[d] = p /\ (dl[d].asking \/ d \in doomed)
=============================================================================
