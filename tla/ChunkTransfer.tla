--------------------------- MODULE ChunkTransfer ---------------------------
(***************************************************************************)
(* The transfer of chunks: which chunk is downloaded from which peer, by   *)
(* which thread of the pool, and how a transfer ends.                      *)
(*                                                                         *)
(* The main thread chooses, starts, stops and ends the transfers; a thread *)
(* of the pool reads the socket and writes the file, and its end comes     *)
(* back to the main thread as a posted event.  A handler of the main       *)
(* thread runs to its end, but in steps the other threads interleave with: *)
(* what it still has to do is its agenda.  No event is taken before the    *)
(* agenda is empty.                                                        *)
(***************************************************************************)
EXTENDS Integers, FiniteSets, SequencesExt

CONSTANTS
  NbFiles,        \* the FileDownload of the queue are 1 .. NbFiles, in order
  NbChunks,       \* their ChunkDownloader are 1 .. NbChunks
  FileOf,         \* FileOf[c]: the file of the chunk c
  Peers,
  Source,         \* Source[f]: the source peer of the file f
  Threads,        \* the threads the pool may create
  None,
  NumberOfDownloader,   \* NUMBER_OF_DOWNLOADER
  MaxSlots        \* bound: starts of a chunk

Files == 1 .. NbFiles
Chunks == 1 .. NbChunks

ASSUME TransferAssumption ==
  /\ NbFiles \in Nat /\ NbChunks \in Nat
  /\ FileOf \in [Chunks -> Files]
  /\ Source \in [Files -> Peers]
  /\ IsFiniteSet(Peers) /\ IsFiniteSet(Threads)
  /\ None \notin Peers \cup Threads
  /\ NumberOfDownloader \in Nat \ {0}
  /\ MaxSlots \in Nat

VARIABLES
  cd,             \* cd[c]: the members of the ChunkDownloader c
  file,           \* file[f]: the status of the FileDownload f
  links,          \* links[p]: LinkedPeers::peerLinks
  occupied,       \* occupiedPeersDownloadingChunk
  running,        \* numberOfDownloadThreadRunning
  peer,           \* peer[p]: up (isAvailable), blocked, or dead
  thread,         \* thread[t]: the runnable and what the thread is doing
  activeThreads, inactiveThreads,
  posted,         \* the threads whose runnableFinished is posted
  agenda          \* what the current handler of the main thread has left to do

vars == <<cd, file, links, occupied, running, peer, thread, activeThreads,
          inactiveThreads, posted, agenda>>

pool == <<thread, activeThreads, inactiveThreads, posted>>

(***************************************************************************)
(* request is sent until the peer answers, then stream.  slots counts the  *)
(* connections of downloadFinished to chunkDownloaderFinished: one more at *)
(* each start, and the string-based disconnect of a connection made with a *)
(* member pointer removes none.  ERROR stands for every status from 0x20.  *)
(***************************************************************************)
ChunkDownloader ==
  [peers       : SUBSET Peers,
   current     : Peers \cup {None},
   downloading : BOOLEAN,
   request     : {"none", "sent", "stream"},
   complete    : BOOLEAN,
   status      : {"QUEUED", "ERROR"},
   slots       : 0 .. MaxSlots]

Status == {"QUEUED", "DOWNLOADING", "ERROR", "PAUSED", "COMPLETE", "DELETED"}

Thread == [runnable : Chunks \cup {None}, phase : {"idle", "woken", "running", "ended"}]

Available == {p \in Peers : peer[p] = "up"}

ChunksOf(f) == {c \in Chunks : FileOf[c] = f}

(* What a handler may have left to do. *)
Nothing == [op |-> "nothing"]
Scan == [op |-> "scan"]
Loop(f, left) == [op |-> "loop", file |-> f, left |-> left]
Ask(c) == [op |-> "ask", chunk |-> c]
Pick(f, left, among) == [op |-> "pick", file |-> f, left |-> left, among |-> among]
Stop(c) == [op |-> "stop", chunk |-> c]
Wait(c, t) == [op |-> "wait", chunk |-> c, thread |-> t]
End(c) == [op |-> "end", chunk |-> c]
Lose(c, p) == [op |-> "lose", chunk |-> c, peer |-> p]
Forget(p) == [op |-> "forget", peer |-> p]
Learn(c, p) == [op |-> "learn", chunk |-> c, peer |-> p]
Update(f) == [op |-> "update", file |-> f]
Meet(p) == [op |-> "meet", peer |-> p]
Retire(t) == [op |-> "retire", thread |-> t]
Destroy(f) == [op |-> "destroy", file |-> f]

Tasks ==
  [op : {"nothing", "scan"}]
    \cup [op : {"loop"}, file : 1 .. NbFiles + 1, left : SUBSET Peers]
    \cup [op : {"pick"}, file : Files, left : SUBSET Peers, among : SUBSET Chunks]
    \cup [op : {"ask", "stop", "end"}, chunk : Chunks]
    \cup [op : {"lose", "learn"}, chunk : Chunks, peer : Peers]
    \cup [op : {"wait"}, chunk : Chunks, thread : Threads]
    \cup [op : {"forget", "meet"}, peer : Peers]
    \cup [op : {"retire"}, thread : Threads]
    \cup [op : {"update", "destroy"}, file : Files]

(* A task of each of the chunks, in the order of the chunks. *)
ForEach(chunks, task(_)) == [c \in Chunks |-> IF c \in chunks THEN task(c) ELSE Nothing]

-----------------------------------------------------------------------------
(***************************************************************************)
(* The chunks, the links and the status of files change together: x is a   *)
(* record with these three.                                                *)
(***************************************************************************)
Now == [cd |-> cd, links |-> links, file |-> file]

Become(x) == cd' = x.cd /\ links' = x.links /\ file' = x.file

\* Mutant of Without: a link is removed whether or not the chunk has the peer.
UnlinkedBlindly(x, chunks, gone) ==
  [x EXCEPT
     !.cd = [c \in Chunks |-> IF c \in chunks THEN [@[c] EXCEPT !.peers = @ \ gone] ELSE @[c]],
     !.links = [p \in Peers |-> IF p \in gone /\ @[p] > 0 THEN @[p] - 1 ELSE @[p]]]

\* Mutant of Without: the links are decremented without looking for the peer.
UnlinkedBelowZero(x, chunks, gone) ==
  [x EXCEPT
     !.cd = [c \in Chunks |-> IF c \in chunks THEN [@[c] EXCEPT !.peers = @ \ gone] ELSE @[c]],
     !.links = [p \in Peers |-> IF p \in gone THEN @[p] - 1 ELSE @[p]]]

(* The chunks no longer have the peers gone: LinkedPeers::rmLink of each. *)
Without(x, chunks, gone) ==
  LET lost(p) == Cardinality({c \in chunks : p \in x.cd[c].peers \cap gone})
  IN [x EXCEPT
        !.cd = [c \in Chunks |-> IF c \in chunks THEN [x.cd[c] EXCEPT !.peers = @ \ gone]
                                                 ELSE x.cd[c]],
        !.links = [p \in Peers |-> IF lost(p) < x.links[p] THEN x.links[p] - lost(p) ELSE 0]]

Unavailable == Peers \ Available

(***************************************************************************)
(* FileDownload::updateStatus.  The chunks are looked at in order up to    *)
(* the first one that is downloading, which decides; otherwise the last    *)
(* one that failed, or was asked whether it has a peer, does; the failures *)
(* are forgotten.  A chunk that is asked takes out its unavailable peers   *)
(* and says so, which updates the status within the update: the failures   *)
(* after that chunk are then consumed, and do not decide.                  *)
(***************************************************************************)
UpdateStatus(x, f) ==
  LET busy   == {c \in ChunksOf(f) : x.cd[c].downloading}
      seen   == {c \in ChunksOf(f) : \A b \in busy : c < b}
      failed == {c \in seen : x.cd[c].status = "ERROR"}
      open   == {c \in seen : ~x.cd[c].complete}
      usable == {c \in open : x.cd[c].peers \cap Available # {}}
      first(among) == {c \in among : \A b \in among \cap usable : c <= b}
      asked  == first(open \ failed)
      stale  == {c \in asked : x.cd[c].peers \cap Unavailable # {}}
      cleaned == IF stale = {} THEN {}
                 ELSE first(open) \cup first(open \ {c \in failed : \A b \in stale : c < b})
      y == Without(x, cleaned, Unavailable)
  IN IF x.file[f] \in {"COMPLETE", "PAUSED", "DELETED"} THEN x
     ELSE [y EXCEPT
             !.cd = [c \in Chunks |-> IF c \in failed THEN [y.cd[c] EXCEPT !.status = "QUEUED"]
                                                       ELSE y.cd[c]],
             !.file[f] = IF busy # {} THEN "DOWNLOADING"
                         ELSE IF stale # {} THEN "QUEUED"
                         ELSE IF failed \cup asked = {} THEN "COMPLETE"
                         ELSE IF \E c \in failed : \A b \in asked : b < c THEN "ERROR"
                         ELSE "QUEUED"]

(* When a chunk does lose peers it tells its file, numberOfPeersChanged. *)
DropAndTell(x, c, gone) ==
  IF x.cd[c].peers \cap gone = {} THEN x ELSE UpdateStatus(Without(x, {c}, gone), FileOf[c])

(* ChunkDownloader::rememberPeer. *)
Remember(x, c, p) ==
  IF p \in x.cd[c].peers THEN x
  ELSE UpdateStatus([x EXCEPT !.cd[c].peers = @ \cup {p}, !.links[p] = @ + 1], FileOf[c])

-----------------------------------------------------------------------------
(* A step of the current handler, and the start of a handler. *)
Task(op) == agenda # <<>> /\ Head(agenda).op = op

Continue(tasks) == agenda' = tasks \o Tail(agenda)

Handle(tasks) == agenda = <<>> /\ agenda' = tasks

(***************************************************************************)
(* DownloadManager::scanTheQueue.                                          *)
(***************************************************************************)
ScanTheQueue ==
  /\ Task("scan")
  /\ Continue(<<Loop(1, {p \in Peers : links[p] > 0} \ occupied)>>)
  /\ UNCHANGED <<cd, file, links, occupied, running, peer, pool>>

\* Mutant of FreePeers: the occupied peers are not left out.
AvailablePeers(x, c) == x.cd[c].peers \cap Available

(* ChunkDownloader::isReadyToDownload, and the peers to choose from. *)
FreePeers(x, c) == (x.cd[c].peers \cap Available) \ occupied

Ready(f) ==
  {c \in ChunksOf(f) : /\ ~cd[c].downloading /\ ~cd[c].complete
                       /\ FreePeers(Now, c) # {}
                       /\ cd[c].slots < MaxSlots}

(* The chunk c begins its transfer from p. *)
StartDownloading(x, c, p) ==
  [x EXCEPT !.cd[c].current = p, !.cd[c].downloading = TRUE,
            !.cd[c].request = "sent", !.cd[c].slots = @ + 1,
            !.file[FileOf[c]] = "DOWNLOADING"]

(***************************************************************************)
(* One turn of the loop.  FileDownload::getAChunkToDownload asks the       *)
(* chunks whether they are ready; it takes at once one that is partially   *)
(* downloaded, without asking the next ones.                               *)
(***************************************************************************)
ScanLoop ==
  LET f == Head(agenda).file
      left == Head(agenda).left
      upTo(c) == {d \in ChunksOf(f) : d <= c}
  IN /\ Task("loop")
     /\ \/ /\ running >= NumberOfDownloader \/ left = {} \/ f > NbFiles
           /\ Continue(<<>>)
        \/ /\ running < NumberOfDownloader /\ left # {} /\ f <= NbFiles
           /\ file[f] \notin {"QUEUED", "DOWNLOADING"}
           /\ Continue(<<Loop(f + 1, left)>>)
        \/ /\ running < NumberOfDownloader /\ left # {} /\ f <= NbFiles
           /\ file[f] \in {"QUEUED", "DOWNLOADING"}
           /\ \/ Continue(ForEach(ChunksOf(f), Ask) \o <<Pick(f, left, ChunksOf(f))>>)
              \/ \E c \in Ready(f) : Continue(ForEach(upTo(c), Ask) \o <<Pick(f, left, {c})>>)
     /\ UNCHANGED <<cd, file, links, occupied, running, peer, pool>>

AskReady ==
  LET c == Head(agenda).chunk
  IN /\ Task("ask")
     /\ Become(IF cd[c].downloading \/ cd[c].complete THEN Now
               ELSE DropAndTell(Now, c, Unavailable))
     /\ Continue(<<>>)
     /\ UNCHANGED <<occupied, running, peer, pool>>

(***************************************************************************)
(* The same file is asked again after a start, the next one otherwise.     *)
(* Which chunk, among those that are ready, depends on what is known of    *)
(* them and on chance; which peer, on the speeds.  A file that is not      *)
(* begun may be impossible to create.                                      *)
(***************************************************************************)
PickNone ==
  LET t == Head(agenda)
      ready == Ready(t.file) \cap t.among
  IN /\ Task("pick")
     /\ \/ ready = {} /\ UNCHANGED file
        \/ /\ ready # {} /\ \A c \in ChunksOf(t.file) : cd[c].slots = 0
           /\ file' = [file EXCEPT ![t.file] = "ERROR"]
     /\ Continue(<<Loop(t.file + 1, t.left)>>)
     /\ UNCHANGED <<cd, links, occupied, running, peer, pool>>

PickChunk ==
  LET t == Head(agenda)
  IN /\ Task("pick")
     /\ \E c \in Ready(t.file) \cap t.among : \E p \in FreePeers(Now, c) :
          /\ Become(StartDownloading(Now, c, p))
          /\ occupied' = occupied \cup {p}
          /\ running' = running + 1
          /\ Continue(<<Loop(t.file, t.left \ {p})>>)
     /\ UNCHANGED <<peer, pool>>

(***************************************************************************)
(* ChunkDownloader::stop waits for the thread the pool finds for the       *)
(* chunk, then ends the transfer.                                          *)
(***************************************************************************)
ThreadOf(c) == {i \in DOMAIN activeThreads : thread[activeThreads[i]].runnable = c}

StopChunk ==
  LET c == Head(agenda).chunk
  IN /\ Task("stop")
     /\ \/ ~cd[c].downloading /\ Continue(<<>>) /\ UNCHANGED cd
        \/ /\ cd[c].downloading
           /\ cd' = [cd EXCEPT ![c].downloading = FALSE]
           /\ \/ ThreadOf(c) = {} /\ Continue(<<End(c)>>)
              \/ \E i \in ThreadOf(c) : /\ \A j \in ThreadOf(c) : i <= j
                                       /\ Continue(<<Wait(c, activeThreads[i])>>)
     /\ UNCHANGED <<file, links, occupied, running, peer, pool>>

WaitRunnableFinished ==
  /\ Task("wait")
  /\ thread[Head(agenda).thread].phase \in {"ended", "idle"}
  /\ Continue(<<End(Head(agenda).chunk)>>)
  /\ UNCHANGED <<cd, file, links, occupied, running, peer, pool>>

(***************************************************************************)
(* ChunkDownloader::downloadingEnded.  downloadFinished tells the file,    *)
(* then the manager as many times as it is connected.  The peers of a      *)
(* complete chunk are forgotten.  The peer is free again.                  *)
(***************************************************************************)
\* Mutant of ChunkDownloaderFinished: only a transfer that got data counts.
StreamFinished(c) == running' = running - IF cd[c].request = "stream" THEN cd[c].slots ELSE 0

ChunkDownloaderFinished(c) == running' = running - cd[c].slots

ForgottenPeers(x, c) ==
  IF x.cd[c].complete THEN [x EXCEPT !.cd[c].peers = {}] ELSE x

\* Mutant of SetPeerAsFree: a peer that is not available is left occupied.
SetAvailablePeerAsFree(p) ==
  /\ occupied' = IF p \in Available THEN occupied \ {p} ELSE occupied
  /\ Continue(IF p \in Available THEN <<Scan>> ELSE <<>>)

SetPeerAsFree(p) ==
  /\ occupied' = occupied \ {p}
  /\ Continue(IF p \in Available THEN <<Scan>> ELSE <<>>)

DownloadingEnded ==
  LET c == Head(agenda).chunk
      p == cd[c].current
      ended == [Now EXCEPT !.cd[c].downloading = FALSE, !.cd[c].request = "none"]
      told == UpdateStatus(ended, FileOf[c])
  IN /\ Task("end")
     /\ Become(ForgottenPeers([told EXCEPT !.cd[c].current = None], c))
     /\ ChunkDownloaderFinished(c)
     /\ SetPeerAsFree(p)
     /\ UNCHANGED <<peer, pool>>

(* ChunkDownloader::peerBecomesUnavailable. *)
LosePeer ==
  LET c == Head(agenda).chunk
      p == Head(agenda).peer
      was == cd[c].current = p
      x == DropAndTell(Now, c, {p})
  IN /\ Task("lose")
     /\ Become(IF was THEN [x EXCEPT !.cd[c].status = "ERROR"] ELSE x)
     /\ Continue(IF was THEN <<Stop(c)>> ELSE <<>>)
     /\ UNCHANGED <<occupied, running, peer, pool>>

(* OccupiedPeers::removePeer. *)
ForgetPeer ==
  /\ Task("forget")
  /\ occupied' = occupied \ {Head(agenda).peer}
  /\ Continue(<<>>)
  /\ UNCHANGED <<cd, file, links, running, peer, pool>>

(* ChunkDownloader::setPeerSource, and the end of FileDownload::start. *)
LearnPeer ==
  /\ Task("learn")
  /\ Become(Remember(Now, Head(agenda).chunk, Head(agenda).peer))
  /\ Continue(<<>>)
  /\ UNCHANGED <<occupied, running, peer, pool>>

UpdateFile ==
  /\ Task("update")
  /\ Become(UpdateStatus(Now, Head(agenda).file))
  /\ Continue(<<>>)
  /\ UNCHANGED <<occupied, running, peer, pool>>

(* OccupiedPeers::newPeer: a peer that is not occupied has the queue scanned. *)
MeetPeer ==
  /\ Task("meet")
  /\ Continue(IF Head(agenda).peer \in occupied THEN <<>> ELSE <<Scan>>)
  /\ UNCHANGED <<cd, file, links, occupied, running, peer, pool>>

(* The end of ThreadPool::runnableFinished. *)
RetireThread ==
  LET t == Head(agenda).thread
  IN /\ Task("retire")
     /\ activeThreads' = RemoveFirst(activeThreads, t)
     /\ inactiveThreads' = Append(inactiveThreads, t)
     /\ thread' = [thread EXCEPT ![t].runnable = None]
     /\ Continue(<<>>)
     /\ UNCHANGED <<cd, file, links, occupied, running, peer, posted>>

(* The chunks of a removed file are destroyed, and no thread knows them. *)
DestroyFile ==
  LET gone == ChunksOf(Head(agenda).file)
  IN /\ Task("destroy")
     /\ Become(Without(Now, gone, Peers))
     /\ thread' = [t \in Threads |-> IF thread[t].runnable \in gone
                                     THEN [thread[t] EXCEPT !.runnable = None]
                                     ELSE thread[t]]
     /\ Continue(<<>>)
     /\ UNCHANGED <<occupied, running, peer, activeThreads, inactiveThreads, posted>>

NextTask ==
  /\ Task("nothing")
  /\ Continue(<<>>)
  /\ UNCHANGED <<cd, file, links, occupied, running, peer, pool>>

MainStep ==
  \/ ScanTheQueue \/ ScanLoop \/ AskReady \/ PickNone \/ PickChunk
  \/ StopChunk \/ WaitRunnableFinished \/ DownloadingEnded
  \/ LosePeer \/ ForgetPeer \/ LearnPeer \/ MeetPeer
  \/ UpdateFile \/ RetireThread \/ DestroyFile \/ NextTask

-----------------------------------------------------------------------------
(***************************************************************************)
(* The events of the main thread.                                          *)
(***************************************************************************)
(* A peer answers that it owns a chunk, or that it does not. *)
AddPeer(c, p) ==
  /\ file[FileOf[c]] # "DELETED" /\ p \in Available
  /\ ~cd[c].complete /\ p \notin cd[c].peers
  /\ Become(Remember(Now, c, p))
  /\ Handle(<<Meet(p)>>)
  /\ UNCHANGED <<occupied, running, peer, pool>>

RmPeer(c, p) ==
  /\ file[FileOf[c]] # "DELETED" /\ p \in Available
  /\ p \in cd[c].peers
  /\ Become(DropAndTell(Now, c, {p}))
  /\ Handle(<<>>)
  /\ UNCHANGED <<occupied, running, peer, pool>>

(***************************************************************************)
(* A peer is alive again, or no longer blocked: the files it is the source *)
(* of give it to all their chunks.                                         *)
(***************************************************************************)
PeerBecomesAvailable(p) ==
  /\ peer[p] # "up"
  /\ peer' = [peer EXCEPT ![p] = "up"]
  /\ LET mine == {c \in Chunks : Source[FileOf[c]] = p /\ file[FileOf[c]] # "DELETED"}
     IN Handle(ForEach(mine, LAMBDA c : Learn(c, p)) \o <<Meet(p)>>)
  /\ UNCHANGED <<cd, file, links, occupied, running, pool>>

(* A peer is dead: every chunk in turn loses it, then it is forgotten. *)
PeerBecomesUnavailable(p) ==
  /\ peer[p] # "dead"
  /\ peer' = [peer EXCEPT ![p] = "dead"]
  /\ LET left == {c \in Chunks : file[FileOf[c]] # "DELETED"}
     IN Handle(ForEach(left, LAMBDA c : Lose(c, p)) \o <<Forget(p)>>)
  /\ UNCHANGED <<cd, file, links, occupied, running, pool>>

(* The peer refuses the request: the chunk takes it out of its peers. *)
ResultRefused(c) ==
  LET p == cd[c].current
  IN /\ cd[c].request = "sent"
     /\ Become(DropAndTell(Now, c, {p}))
     /\ Handle(<<End(c)>>)
     /\ UNCHANGED <<occupied, running, peer, pool>>

(* It does not have the chunk, gives no size, or does not answer in time. *)
ResultWithout(c) ==
  /\ cd[c].request = "sent"
  /\ Handle(<<End(c)>>)
  /\ UNCHANGED <<cd, file, links, occupied, running, peer, pool>>

(* The peer is about to send the chunk: ThreadPool::run. *)
Stream(c) ==
  LET used == ToSet(activeThreads) \cup ToSet(inactiveThreads)
      serve(t) == /\ thread' = [thread EXCEPT ![t] = [runnable |-> c, phase |-> "woken"]]
                  /\ activeThreads' = Append(activeThreads, t)
  IN /\ cd[c].request = "sent"
     /\ cd' = [cd EXCEPT ![c].request = "stream"]
     /\ \/ /\ inactiveThreads # <<>>
           /\ serve(Last(inactiveThreads))
           /\ inactiveThreads' = Front(inactiveThreads)
        \/ /\ inactiveThreads = <<>> /\ Threads \ used # {}
           /\ serve(CHOOSE t \in Threads \ used : TRUE)
           /\ UNCHANGED inactiveThreads
     /\ Handle(<<>>)
     /\ UNCHANGED <<file, links, occupied, running, peer, posted>>

(***************************************************************************)
(* ThreadPool::runnableFinished: ChunkDownloader::finished ends the        *)
(* transfer if the chunk is downloading.                                   *)
(***************************************************************************)
RunnableFinished ==
  /\ posted # <<>>
  /\ posted' = Tail(posted)
  /\ LET t == Head(posted)
         c == thread[t].runnable
     IN Handle((IF c # None /\ cd[c].downloading THEN <<End(c)>> ELSE <<>>)
                 \o <<Retire(t)>>)
  /\ UNCHANGED <<cd, file, links, occupied, running, peer, thread,
                 activeThreads, inactiveThreads>>

PauseDownload(f) ==
  /\ file[f] \notin {"PAUSED", "COMPLETE", "DELETED"}
  /\ file' = [file EXCEPT ![f] = "PAUSED"]
  /\ Handle(ForEach(ChunksOf(f), Stop))
  /\ UNCHANGED <<cd, links, occupied, running, peer, pool>>

ResumeDownload(f) ==
  /\ file[f] = "PAUSED"
  /\ file' = [file EXCEPT ![f] = "QUEUED"]
  /\ Handle(<<Scan>>)
  /\ UNCHANGED <<cd, links, occupied, running, peer, pool>>

RemoveDownload(f) ==
  /\ file[f] # "DELETED"
  /\ file' = [file EXCEPT ![f] = "DELETED"]
  /\ Handle(ForEach(ChunksOf(f), Stop) \o <<Destroy(f)>>)
  /\ UNCHANGED <<cd, links, occupied, running, peer, pool>>

(* restartErroneousDownloads calls FileDownload::start. *)
RestartDownload(f) ==
  /\ file[f] = "ERROR"
  /\ LET p == Source[f]
     IN Handle(IF p \in Available
               THEN ForEach(ChunksOf(f), LAMBDA c : Learn(c, p)) \o <<Update(f), Meet(p)>>
               ELSE <<Update(f)>>)
  /\ UNCHANGED <<cd, file, links, occupied, running, peer, pool>>

MainEvent ==
  \/ \E c \in Chunks, p \in Peers : AddPeer(c, p) \/ RmPeer(c, p)
  \/ \E p \in Peers : PeerBecomesAvailable(p) \/ PeerBecomesUnavailable(p)
  \/ \E c \in Chunks : ResultRefused(c) \/ ResultWithout(c) \/ Stream(c)
  \/ RunnableFinished
  \/ \E f \in Files : \/ PauseDownload(f) \/ ResumeDownload(f)
                      \/ RemoveDownload(f) \/ RestartDownload(f)

-----------------------------------------------------------------------------
(***************************************************************************)
(* ChunkDownloader::run, in a thread of the pool.                          *)
(***************************************************************************)
Runs(t, c) == thread[t].phase = "running" /\ c = thread[t].runnable /\ c # None

(***************************************************************************)
(* The end of Thread::run: the thread is no longer active, which ends a    *)
(* wait for it; then, later, it posts runnableFinished.                    *)
(***************************************************************************)
Exit(t) ==
  /\ thread' = [thread EXCEPT ![t].phase = "ended"]
  /\ UNCHANGED <<activeThreads, inactiveThreads, posted>>

PostFinished(t) ==
  /\ thread[t].phase = "ended"
  /\ thread' = [thread EXCEPT ![t].phase = "idle"]
  /\ posted' = Append(posted, t)
  /\ UNCHANGED <<cd, file, links, occupied, running, peer, activeThreads,
                 inactiveThreads, agenda>>

RunStarts(t) ==
  LET c == thread[t].runnable
  IN /\ thread[t].phase = "woken"
     /\ thread' = [thread EXCEPT ![t].phase = "running"]
     /\ cd' = IF c = None THEN cd ELSE [cd EXCEPT ![c].status = "QUEUED"]
     /\ UNCHANGED <<file, links, occupied, running, peer, activeThreads,
                    inactiveThreads, posted, agenda>>

\* Mutant of RunAborted: the loop of the run does not look at downloading.
RunAbortedIfDestroyed(t) ==
  /\ thread[t].phase = "running"
  /\ thread[t].runnable = None
  /\ Exit(t)
  /\ UNCHANGED <<cd, file, links, occupied, running, peer, agenda>>

(* The transfer is stopped, or the runnable was destroyed before the run. *)
RunAborted(t) ==
  /\ thread[t].phase = "running"
  /\ \/ thread[t].runnable = None
     \/ \E c \in Chunks : Runs(t, c) /\ ~cd[c].downloading
  /\ Exit(t)
  /\ UNCHANGED <<cd, file, links, occupied, running, peer, agenda>>

RunCompletes(t, c) ==
  /\ Runs(t, c)
  /\ cd' = [cd EXCEPT ![c].complete = TRUE]
  /\ Exit(t)
  /\ UNCHANGED <<file, links, occupied, running, peer, agenda>>

(* The connection or the file failed. *)
RunFails(t, c) ==
  /\ Runs(t, c)
  /\ cd' = [cd EXCEPT ![c].status = "ERROR"]
  /\ Exit(t)
  /\ UNCHANGED <<file, links, occupied, running, peer, agenda>>

(* The data is corrupted: the peer is blocked, and no signal says so. *)
RunMismatch(t, c) ==
  LET p == cd[c].current
  IN /\ Runs(t, c)
     /\ p # None
     /\ peer' = [peer EXCEPT ![p] = IF @ = "up" THEN "blocked" ELSE @]
     /\ cd' = [cd EXCEPT ![c].status = "ERROR"]
     /\ Exit(t)
     /\ UNCHANGED <<file, links, occupied, running, agenda>>

(* A better peer is looked for; if there is one the transfer ends here. *)
RunSwitches(t, c) ==
  LET x == DropAndTell(Now, c, Unavailable)
  IN /\ Runs(t, c)
     /\ Become(x)
     /\ \/ Exit(t) /\ FreePeers(x, c) \ {cd[c].current} # {}
        \/ UNCHANGED pool
     /\ UNCHANGED <<occupied, running, peer, agenda>>

WorkerStep(t) ==
  \/ RunStarts(t) \/ RunAborted(t) \/ PostFinished(t)
  \/ \E c \in Chunks :
       RunCompletes(t, c) \/ RunFails(t, c) \/ RunMismatch(t, c) \/ RunSwitches(t, c)

-----------------------------------------------------------------------------
(* The files are queued, all their hashes known, and no peer is known. *)
Init ==
  /\ cd = [c \in Chunks |-> [peers |-> {}, current |-> None, downloading |-> FALSE,
                             request |-> "none", complete |-> FALSE,
                             status |-> "QUEUED", slots |-> 0]]
  /\ file = [f \in Files |-> "QUEUED"]
  /\ links = [p \in Peers |-> 0]
  /\ occupied = {}
  /\ running = 0
  /\ peer = [p \in Peers |-> "dead"]
  /\ thread = [t \in Threads |-> [runnable |-> None, phase |-> "idle"]]
  /\ activeThreads = <<>> /\ inactiveThreads = <<>> /\ posted = <<>>
  /\ agenda = <<>>

Next == MainStep \/ MainEvent \/ \E t \in Threads : WorkerStep(t)

Spec == Init /\ [][Next]_vars

(***************************************************************************)
(* The main thread goes on with its handler, a thread of the pool that was *)
(* given a chunk runs, and the loop of the run checks whether it is        *)
(* stopped.                                                                *)
(***************************************************************************)
Fairness ==
  /\ WF_vars(MainStep)
  /\ \A t \in Threads : WF_vars(RunStarts(t)) /\ WF_vars(RunAborted(t))

FairSpec == Spec /\ Fairness

-----------------------------------------------------------------------------
TypeOK ==
  /\ cd \in [Chunks -> ChunkDownloader]
  /\ file \in [Files -> Status]
  /\ links \in [Peers -> Nat]
  /\ occupied \subseteq Peers
  /\ running \in Int
  /\ peer \in [Peers -> {"up", "blocked", "dead"}]
  /\ thread \in [Threads -> Thread]
  /\ activeThreads \in Seq(Threads) /\ inactiveThreads \in Seq(Threads)
  /\ posted \in Seq(Threads)
  /\ agenda \in Seq(Tasks)

(***************************************************************************)
(* Two chunks are never downloaded from one peer at the same time          *)
(* (OccupiedPeers; ChunkDownloader.cpp, startDownloading).                 *)
(***************************************************************************)
OneChunkPerPeer ==
  \A c, d \in Chunks :
    (c # d /\ cd[c].downloading /\ cd[d].downloading) => cd[c].current # cd[d].current

(***************************************************************************)
(* Between two handlers, an occupied peer is one a chunk is downloaded     *)
(* from: a peer left occupied would never be asked for a chunk again.      *)
(***************************************************************************)
OccupiedIsDownloading ==
  agenda = <<>> =>
    occupied = {cd[c].current : c \in {d \in Chunks : cd[d].downloading}}

(***************************************************************************)
(* LinkedPeers never counts less chunks than a peer has: a peer it forgot  *)
(* while it still has a chunk would not have the queue scanned for it.     *)
(***************************************************************************)
Having(p) == {c \in Chunks : p \in cd[c].peers}

LinksCover == \A p \in Peers : Cardinality(Having(p)) <= links[p]

(***************************************************************************)
(* "Count the number of chunks that each peer owns. If a peer has no chunk *)
(* he is not referenced" (LinkedPeers.h).                                  *)
(***************************************************************************)
LinksExact == \A p \in Peers : links[p] = Cardinality(Having(p))

Downloading == {c \in Chunks : cd[c].downloading}

(***************************************************************************)
(* The manager never believes that more transfers run than do: with all    *)
(* ended, the next scan can start one (DownloadManager.cpp, scanTheQueue). *)
(***************************************************************************)
RunningNotOvercounted == agenda = <<>> => running <= Cardinality(Downloading)

(***************************************************************************)
(* "Maximum number of simultaneous download" (core_settings.proto).        *)
(***************************************************************************)
DownloaderLimit == Cardinality(Downloading) <= NumberOfDownloader

(***************************************************************************)
(* "Wait until the given runnable object is terminated" (ThreadPool.cpp,   *)
(* wait): once the main thread has waited for a chunk, no thread runs it;  *)
(* its socket and its request are given back next.                         *)
(***************************************************************************)
WaitTerminates ==
  [][WaitRunnableFinished =>
       \A t \in Threads : thread[t].runnable = Head(agenda).chunk =>
                            thread[t].phase \in {"ended", "idle"}]_vars

(***************************************************************************)
(* Stopping a transfer ends: the main thread never waits forever for a     *)
(* thread of the pool.                                                     *)
(***************************************************************************)
StopTerminates == Task("wait") ~> agenda = <<>>
=============================================================================
