# Verification of the DG-LAN core

DG-LAN shares files between the computers of a local network. Its core
(`src/application/Core`) is a C++/Qt 5 daemon: it finds peers, indexes the shared
directories, and downloads files chunk by chunk from several peers at a time. This
directory holds TLA+ models of the parts of the core whose control is hard to
test, the TLC runs that check them on small instances, and TLAPS proofs of the
results that matter most for every instance.

Paths below are relative to `src/application/Core` unless they begin with `src/`;
`DM` is `DownloadManager/priv`, `PM` is `PeerManager/priv`, `FM` is
`FileManager/priv`.

## 1. The system

### 1.1 Threads

The core has one **main thread** with a Qt event loop: timers, sockets, requests of
the user interface and posted ("queued") signals are handled there, one after
another. A handler runs to its end, and the signals it emits to objects of the same
thread are plain calls made in the middle of it. Most surprises of the download
manager come from this: giving a peer back, in the middle of a handler, rescans the
queue, which may send a request for the very download the handler is changing.

Other threads: the threads of `Common/ThreadPool` (one per chunk being downloaded
or uploaded), the scanning thread of `FM/FileUpdater`, the hashing it drives, and
short-lived threads of the persistence.

### 1.2 Components

| Component | State | Operations | What makes it correct |
|---|---|---|---|
| Download queue (`DM/DownloadQueue`, `DM/DownloadManager`) | the ordered list of downloads, an index by source peer, the positions (`Marker`) from which scans begin, `erroneousDownloads` | insert, move, remove, scan, load, replace a directory by its entries | no download hidden from the scans; moves and removals exact |
| Hashes of the chunks (`DM/FileDownload`, `DM/OccupiedPeers`) | per file: status, source peer, outstanding `GetHashes`, hashes known; the set of peers being asked | ask, receive, fail, retry, pause, resume, remove, restart | one request per peer; no download forgotten |
| Directories (`DM/DirDownload`) | per directory: status, outstanding `GetEntries`; the set of peers being asked | ask, receive, fail, retry, remove | no directory waits for a free peer |
| Transfer of the chunks (`DM/ChunkDownloader`, `DM/LinkedPeers`, `DM/DownloadManager::scanTheQueue`, `Common/ThreadPool`) | per chunk: its peers, the current one, `downloading`; chunks per peer; the count of running transfers; the pool | choose a chunk and a peer, start, stream in a thread, end, stop, switch peer | one transfer per peer, every peer given back, stop ends, the limit holds |
| Peers (`PM/PeerManager`, `PM/Peer`) | alive, blocked, their addresses and speed | `IMAlive` received, timeout, block, unblock | availability seen consistently |
| Connection pool (`PM/ConnectionPool`, `PM/PeerMessageSocket`, `PM/Get*Result`) | idle and active sockets per direction | take, give back, close; request, answer, timeout | an answer reaches the request it answers |
| File cache (`FM/Cache`) | files, chunks and known bytes, readers and writers, opened handles | read, write, complete, rename, delete | no write after completion, no data lost |
| Scanning and hashing (`FM/FileUpdater`, `FM/Cache/FileHasher`) | files to hash, the stop flag | scan, hash, stop, restart | a stop ends and is not left for later |
| Persistence (`FM/FileManager`, `DM/DownloadManager`) | a "changed" flag, files on disk | save by timer, load | no change lost, a queue that can be read again |
| Indexes (`FM/WordIndex`, `FM/ChunkIndex`), watchers, `HashCache` | maps | insert, remove, look up | data structures; `HashCache` is a stub at this commit |
| Sorted indexes (`Common/Containers/SortedArray.h`) | a B-tree whose nodes store their sizes | insert, remove, look up, iterate, change the order | an ordered list without repetition, exact indexes |
| Upload manager (`UploadManager`) | chunk uploaders, a thread pool | start, stream, end | every socket given back |
| Network listener (`NetworkListener`) | multicast and unicast sockets, the last chunks asked for | `IMAlive`, `ChunksOwned`, `Find` | an answer is matched with the chunks asked for |
| Remote control, HTTP server | connections of user interfaces | translate requests into calls | front ends |
| GUI, client, tools, installers, `ChatSystem` (unused, `src/ARCHITECTURE.md:267`) | | | not part of the core's logic |

### 1.3 How they interact

* The **network listener** tells the **peer manager** that a peer is alive; the peer
  manager emits `peerBecomesAvailable` / `peerBecomesUnavailable`, which the
  **download manager** handles for the queue and for the three sets of occupied
  peers (hashes, entries, chunks).
* The listener also hands the `ChunksOwned` answers to the chunks
  (`addPeer` / `rmPeer`).
* A download asks a peer for hashes, entries or a chunk; the **connection pool**
  gives a socket, and the result object emits the answer or the timeout.
* A chunk that streams runs in a **thread of the pool**. The thread writes through a
  `DataWriter` of the **file cache**; it blocks a peer that sent corrupted data
  (`Peer::block`, no signal) and its end is posted to the main thread.
* `OccupiedPeers::setPeerAsFree` emits `newFreePeer`, connected to a rescan of the
  queue (`peerNoLongerAskingForHashes`, `peerNoLongerAskingForEntries`,
  `peerNoLongerDownloadingChunk`): this is how waiting work is found again.

### 1.4 What is hard

`PROJECT.json` lists the hazards, each at its line, with the properties that would
catch it. In short: handlers re-entered through `newFreePeer`; locks (the occupied
sets) that must be released on every path, timeouts, death of the peer and
destruction included; timers that are the only way back for a failed download;
download threads that end, block a peer or switch peer while the main thread waits
for them or restarts their chunk; posted events that arrive after the object has
moved on; saved positions in a list that changes; the threads that write one file, join, leave and
complete it in any order; a crash between the writing of a chunk, the saving of the cache and the
renaming; an answer that comes after its request timed out or was dropped by its owner, on a socket that was given to another.

## 2. The modules

| Module | Models | Checked by | Proved |
|---|---|---|---|
| `HashRetrieval` | requests for hashes, retries, restarts, the list of erroneous downloads | `MCHashRetrieval` | `HashRetrievalProofs` |
| `DirRetrieval` | requests for the entries of directories | `MCDirRetrieval` | `DirRetrievalProofs` |
| `DownloadQueue` | the list, its markers, its moves and removals, the replacement of a directory | `MCDownloadQueue` | `DownloadQueueProofs` |
| `ChunkTransfer` | chunks, links, transfers, the thread pool | `MCChunkTransfer` | `ChunkTransferProofs` |
| `FileDelivery` | one file from its creation to its final name: the `File` objects, the threads that write, the saved cache, crashes | itself | `FileDeliveryProofs` |
| `PooledRequests` | both ends of the pooled connections, the three kinds of requests, the uploads that answer | `MCPooledRequests` | `PooledRequestsProofs` |
| `FileUpdating` | the thread of the updater, its hasher, and the calls of the main thread | `MCFileUpdating` | `FileUpdatingProofs` |
| `SortedArray` | the B-tree behind every sorted index; it implements `SortedList` | `MCSortedArray` | `SortedArrayProofs` |
| `SortedArrayIteration` | its iterators, and the search of the size index that uses them | `MCSortedArray` | |
| `SortedList` | what a sorted array promises: an ordered list without repetition | by refinement | the refinement |

An action is a **whole handler** with everything it calls. Where a handler emits
`newFreePeer`, the rescan it causes is part of the action. The only thing that may
come between the instructions of a handler is another thread: `ChunkTransfer`,
`FileDelivery` and `FileUpdating`, where this matters, cut the handlers in steps;
`DirRetrieval` cuts two loops. Within one handler of `HashRetrieval` the availability
of a peer is read as one value: a peer may be blocked by a download thread between two
handlers, not between two reads of the same handler.

`PROJECT.json` ("map") gives, for each definition, the function and lines it
stands for.

The modules do not share variables; they meet at the calls of 1.3. What one takes
from another is an input of its own: a chunk of `ChunkTransfer` "completes" or "fails"
where `FileDelivery` says how; `FileDelivery` takes the outcome of a stream (good or bad
buffers, a dropped connection) where `PooledRequests` says who sends it; `HashRetrieval` and
`DirRetrieval` take answers and timeouts that `PooledRequests` produces; the `Restore` of
`FileUpdating` is the one of `FileDelivery`, seen for many files.

### 2.1 HashRetrieval

`dl[f]` holds the members of the `FileDownload` f: `status`, `source` (`peerSource`
is not null), `asking` (`getHashesResult` is not null), `known` (`nbHashesKnown`),
`active` (a chunk is downloading), `retries` (pending single-shot calls of
`retryRetrieveHashes`), `copies` (occurrences of f in `erroneousDownloads`).
`occupied` is `occupiedPeersAskingForHashes`, `restartTimer` is
`startErroneousDownloadTimer`. `alive` and `blocked` are what `Peer::isAvailable`
reads.

`SetStatus`, `UpdateStatus`, `RetrieveHashes`, `EndRequest`, ... are functions of one
download or of the pair (downloads, occupied peers), as the methods are; an action
composes them in the order of the code. A rescan may choose any download that can be
asked, because moves can put the queue in any order.

Abstractions: `QUEUED` also stands for `NO_SOURCE`, and `OTHER_ERROR` for every
status from `0x20` on but `UNABLE_TO_RETRIEVE_THE_HASHES`; no guard tells them
apart. What `updateStatus` concludes from the chunks is a choice among what the
chunks can say. Removal is by single ID.

### 2.2 DirRetrieval

`dl[d]` holds `status`, `source`, `asking` (`getEntriesResult` is not null) and
`retries` (pending `retryToGetEntries`). `starting` and `doomed` are what the loops of
`newEntries` and `removeDownloads` have left: each turn is an action and no other
handler runs before the last one (`Quiet`), but a peer may be blocked between two
turns, because that is done by another thread. The order of the queue is
any order at each scan. A scan is skipped when no download of the queue has the freed
peer as its source; files may have it too, so that with no directory of the peer the
scan may or may not run. `RestartErroneous` may happen to any directory in an
erroneous status: the list and its timer are in `HashRetrieval`.

### 2.3 DownloadQueue

`downloads` is the list, `marker[P]` the saved position of the predicate `P`
(`IsDownloadable`, `IsADirectory`), `adding` the progress of a loop of `addDownload`
calls (`loadQueueFromFile`, `newEntries`), `status` the part of the status the
predicates read. `stored` is the set of downloads whose complete file is on the disk.
`Moved` and `Removed` transcribe the loops of `moveDownloads` and `removeDownloads`
turn by turn (`MoveTurn`, `RemoveTurn`), markers included, iterated by recursive
functions. `QList::insert` beyond the end appends, as in Qt 5.

Abstractions: files of size zero are left out; the index by source peer and the index
by time are not modelled; between two `AddNext` only a scan, or the completion of a
download, happens.

### 2.4 ChunkTransfer

`cd[c]` holds the members of the `ChunkDownloader` c (`peers`, `current`,
`downloading`, the state of its `GetChunk` request, `complete`, `status`) and `slots`,
the number of times `downloadFinished` is connected to `chunkDownloaderFinished`.
`links` is `LinkedPeers::peerLinks`, `running` is `numberOfDownloadThreadRunning`,
`thread`, `activeThreads`, `inactiveThreads` and `posted` are the pool and its posted
`runnableFinished`. `agenda` is what the current handler of the main thread has left
to do: `MainStep` does one task of it, `MainEvent` begins a handler when it is empty,
and `WorkerStep(t)` is a step of the thread t at any time.

Abstractions:

* the bytes and the speeds: which peer a chunk prefers is a choice among its free
  peers; a run may complete, fail, get corrupted data, find a better peer or be
  stopped at any time;
* a thread leaves its run (`Exit`), which ends a wait, before it posts its end
  (`PostFinished`): `Common/ThreadPool.cpp:100` and `:104`;
* posted events are not ordered with respect to sockets and timers;
* the reset of a file whose local file has vanished is the status `ERROR`; a
  restart may happen to any file in `ERROR`;
* all hashes are known, `startDownloading` gets its data from a peer that still has a
  socket, idle threads are not deleted, and a removed chunk is destroyed at once;
* `getTheFastestFreePeer` is called by the download thread without the lock of the
  main thread: the data race itself is not modelled, its result is taken as one step.

### 2.5 FileDelivery

One file of one directory, whose hashes the download knows. `unfinished` and `finished` are
the file on the disk under its two names: whether it exists, and which of its buffers hold the
right data. `files` are the `File` objects with this name (`complete` is the name without
the suffix, `hashed` says that `setHashes` was called, `known[c]` the known buffers of a chunk,
`indexed` the chunks in the chunk index, `writers` is `numDataWriter`, `open` the handle for
writing). `exists`, `chunksOf`, `broken` and `last` are what the download knows of its file: it is created,
whose chunks it holds, its status is an error, how the last run of each chunk ended. `threads[c]`
is the thread that writes the chunk c: `open` (`newDataWriterCreated`), `write`, `count`
(`chunkComplete`), `close` and `release` (the two halves of `setAsComplete`), `leave`
(`dataWriterDeleted`), `ended` (its end is posted). `File::mutex` is held by a thread at `close`,
`writeLock` and `readLock` by one at `release`; the other uses of the locks are within single steps,
guarded by that. `saved` is the cache on the disk, `cacheChanged` its flag.

`Crash` and `Quit` leave only the disk; `Boot`, `Restore` and `LoadQueue` are the way back:
the scan of the directory, `restoreFromFileCache`, the loading of the queue.

Two ghost variables name what the properties exclude: `outdated` (the saved cache is older than the
last creation of the unfinished file) and `misled` (such a cache was restored, or the file was
created again while a thread was writing it); see 5.2.

Abstractions: the buffers of a chunk are right or wrong; the hash of a chunk is right when all of its
buffers were written right by one thread, from the start; readers, `FilePool`, the lack of disk space,
errors of a rename, a change of the cache during its saving, and files removed when complete are
left out. A program that ends loses nothing that was written to the disk.

### 2.6 PooledRequests

`sock[e][s]` is the `PeerMessageSocket` of the end e (client or server) of the connection s,
`inbox[e][s]` what was sent to it and not read; `cut` are the connections that are lost. `req[r]`
is the result object of the request r (`GetEntriesResult`, `GetHashesResult`,
`GetChunkResult`): its kind, its socket, `asked`, `stream`, `timedout`, `dropped`, `ended`. An asked request ends by its
answer, by its timer (`Timeout`), or because its owner clears it (`Drop`: a download paused or removed, a source lost, a result
replaced, a chunk stopped before its `CHUNKS_RESULT`): `finished()` then gives the socket back to the pool, open, with the
answer still to come. `Refuse` is a result that is cleared before its start because the peer is occupied. On the server,
`browse[s]` is the entries result being awaited, `owed[s]` the queued `nextHash`
signals, `upload[s]` the `ChunkUploader` that holds the socket, `known[r]` the bytes of the chunk asked
for, which may grow while it is being uploaded. No message carries an identity: the model adds
to each the request that caused it, for the properties to read, and no guard reads it. `mixed` is another history variable:
the connections on which a request was started while something of a request given up there (timed out or dropped) was
still on its way or owed.

What the code promises is then said of `Reliable` sockets: in the pool, not being closed, not in `mixed`. The third condition is
about the use of the socket, and the code does not see to it (5.3). Without it TLC finds each of `SocketIsNotShared` (with three requests),
`AnswersMatch` and `IdleOwesNothing` violated. With it the three say what is not obvious either: a dropped or late request is absorbed when its
answer comes before the next request, whatever it was, and nothing else in the pool, the closings, the losses and the two
ends' own ideas of when a transaction is over mixes two requests.

Abstractions: the bytes of the messages, the speeds, the threads of the uploads (an upload is the
sequence of its buffers), the messages that take no answer, and requests that find no address.

### 2.7 FileUpdating

`u` is where the thread of `FileUpdater::run` is, with its local variables; `m` is the call of the main
thread in progress (`addRoot`, `rmRoot`, `scanRoots`, `prioritizeAFileToHash`, `stop`). The three mutexes
and the wait conditions are guards (`MutexFree`, `HashingMutexFree`, `CacheMutexFree`), because of each
only m can hold it while it waits. `disk` and `events` are the file system and what
its watcher saw; `cached`, `subs`, `missing`, `changed`, `failed` the cache; `saved` the hashes of
the saved cache. `FullPath` computes the path as the code does, `TruePath` where the
directory is. `Above[d]` is the path of d from its shared directory: the tree is a constant.

A `File` deleted while a list still names it is a dangling pointer: the model stops there
(`Dangling`), since what follows is undefined.

Not modelled: the client mode, directories that cannot be watched and their periodic
scan, MOVE events, merging of shared directories, unfinished files, directories that appear
and disappear, the progress, a change that keeps the size of a file, a root that is shared
again after its removal, the unsynchronised reads of `entriesToScan`
(`FM/FileUpdater/FileUpdater.cpp:240`, `:797`).

### 2.8 SortedArray, SortedArrayIteration and SortedList

A node is a record of its items, its children and the size it *stores*. Insertions (with the splits that
climb to the root), removals by value and by index (with the exchanges, borrowings and merges), `clear`,
`setSortedFunction` and the lookups are operators on nodes, as the methods are. The parent pointers are the
nesting of the records: what the code does going down a tree and back up by the pointers is done on a *way*, the nodes
gone through from the root and the positions taken (`Down`, `Descent`). The loops of the code and its recursions
along one way (the binary search, the descents, the climb of a split, of a change of size or of an exchange,
the copy into a new order) are functions of the turn, so that they can be proved about.

`SortedArray` implements `SortedList`, whose state is a set of elements and an order: the index of an element is the
number of elements before it. Each operation on the tree is the operation of the same name on the list.

`SortedArrayIteration` has the iterators, and `SizeSearch`, the search of the size index, which walks from the
nearest position. They read the array and change nothing.

## 3. The runs

`tlc -config X.cfg M` in this directory. States are distinct states.

| Run | Instance | Properties | What it shows |
|---|---|---|---|
| `hashes` (`HashRetrieval.cfg`) | 2 downloads of 2 and 1 chunks, one source peer; 84,191 states | `TypeOK` `OneRequestPerPeer` `GettingIsAsking` `IdleAsksNothing` `ListedHasTimer` | through failures, retries, pauses, removals and rescans the request is exclusive, a download shown as getting its hashes has a request, an idle one has none, and the restart timer runs while something waits for it |
| `queue` (`Queue.cfg`) | a directory with two files and a sub-directory, a file of the user that is a duplicate of one of them, moves of up to 2 IDs around up to 2 references; 18,533 states | `TypeOK` `ScanFindsAll` `ChildrenReplaceDirectory` `MoveIsDocumented` `RemoveIsExact` | whatever is inserted, moved, finished or removed, no scan misses a download; children take the place of the directory (unless one was already queued); the loops of moves and removals compute what a declarative definition says |
| `chunks` (`ChunkTransfer.cfg`) | 1 file of 2 chunks, 2 peers, 2 threads, each chunk started once; 1.4 M states | `TypeOK` `OneChunkPerPeer` `OccupiedIsDownloading` `LinksCover` | chunks compete for peers that come, go, refuse and are blocked: one transfer per peer, every peer given back, every link known |
| `chunk_restarts` (`ChunkRestarts.cfg`) | 1 chunk, 2 peers, 2 threads, started up to three times, with fairness; 184,543 states | `OccupiedIsDownloading` `RunningNotOvercounted` `StopTerminates` | the late end of an earlier run leaves no peer occupied and no transfer counted for ever; `stop()` always comes back |
| `dirs` (`DirRetrieval.cfg`) | 3 directories, two of one peer and one of another, one of them empty; 86,711 states | `TypeOK` `NoIdlePeer` `NotFoundIsRetried` `AskingIsLegitimate` | no directory waits while its peer is free, a refused one has a retry, requests are held only by downloads that may hold one |
| `sorted_array` (`SortedArray.cfg`) | ten values, trees of order 3 and 5, both orders of the values; 8,256 states | `TypeOK` `StoredSizesExact` `IndexesAgree` `IterationFinds` `ImplementsList` | whatever the insertions and removals, the tree is balanced, its stored sizes are exact, its iterators and indexes agree with its elements, and it is an ordered list |
| `pooled_requests` (`PooledRequests.cfg`) | 2 requests of any kinds, 2 connections, at most one kept idle, one timeout or drop, one loss; 3.4 M states | `TypeOK` `SocketIsNotShared` `AnswersMatch` `IdleOwesNothing` | on a socket that is not closed, and on which no request was made before the answer of one given up had come, requests do not mix, and a socket the pool may close owes nothing |
| `file_updating` (`FileUpdating.cfg`) | 2 shared directories of one file each, one sub-directory, 2 calls, one change of the disk, one unreadable file; 2.0 M states | `TypeOK` `ListedOnce` `NotForgotten` `QuietIsUpToDate` `Settles` | whatever the calls meet, a file to hash is listed once and not forgotten, the updater only sleeps when it is up to date, every call returns |
| `file_delivery` (`FileDelivery.cfg`) | 2 chunks of 2 buffers, up to 4 `File` objects, 3 faults; 873,832 states | `TypeOK` `DownloadedIsHeld` `FinishedIsWhole` `WriterHasHandle` `Delivers` | what counts as downloaded is on the disk through crashes, bad data and deletions, the final name stands for the whole file, and the file is delivered unless a named flaw bars it |
| `completion_ends` (`CompletionEnds.cfg`) | 2 chunks of one buffer, no fault | `CompletionEnds` violated | disagreement 1 |
| `second_file` (`SecondFile.cfg`) | 1 chunk of 2 buffers, one fault | `OneFilePerName` violated | disagreement 2 |
| `subdirs_scanned` (`SubDirScan.cfg`) | one shared directory, one sub-directory | `SubDirectoriesAreScanned` violated | disagreement 3 |

Deadlock is checked in `hashes`, `queue`, `chunks`, `chunk_restarts`, `dirs` and `sorted_array`. The others may
stop, as the program does: both requests are over; the updater sleeps, was stopped, or a dangling
pointer was reached; the file is delivered or removed.

### Bounds

* `MaxRetries` = 1: pending single-shot timers of one download; a request does not fail while
  its download has as many. One timer at a time, over and over, meets every other event;
  two at a time are left to the proofs, which hold for every `MaxRetries`.
* `MaxCopies` = 2: occurrences in `erroneousDownloads`; two are enough for a
  removal (`removeOne`) to leave one behind.
* `MaxNamed` = 2: IDs named by one request; two downloads to move and two
  references are the least for which the loop changes its reference while downloads
  wait for it.
* `MaxSlots` = 1 or 3: starts of one chunk. Two starts are the least for an old run
  to meet a new one; with three, two old ones are left when the third runs.
* Two chunks and two peers are the least with competition and a choice; two threads, because no more
  than two runs are active.
* `Orders` = {3, 5}: order 3 reaches three levels with ten values, order 5 splits and merges nodes of
  several items. The code uses 7, its tests 5.
* `MaxSockets` = 2, `MaxIdle` = 1: a second connection is opened, and the pool closes an idle one. Two hashes are
  the least for an answer in several messages, two pieces for a chunk that is partly known.
  `MaxFailures` = 1, `MaxGivenUp` = 1: one lost connection, and one request that times out or is dropped, with its late answer.
* `MaxCalls` = 2, `MaxChanges` = 1, `MaxErrors` = 1: two calls meet each other's traces in the lists; `stop` is not
  counted and may come at any time.
* `MaxFaults` = 3, `MaxFiles` = 4 (`FileDelivery`): three faults are a crash, what it meets when the program is back, and one more;
  each fault creates one `File` at most, so that the bound on them never holds a behaviour back.

### Fairness

* `chunk_restarts`: the main thread goes on with the handler it has begun (`WF(MainStep)`; a handler has no
  wait but the one checked), a thread of the pool that was woken runs (`WF(RunStarts)`), and a run whose chunk
  is no longer `downloading` stops (`WF(RunAborted)`): the loop of
  `ChunkDownloader::run` tests the flag at each turn, and its socket reads have a
  timeout (`SOCKET_TIMEOUT`). Nothing is assumed of peers, of the network or of the success of a run.
* `file_updating`: the thread of the updater and the call of the main thread go on
  (`WF(Updater)`, `WF(CallGoesOn)`). Nobody has to call.
* `file_delivery`: each thread goes on when it can (`WF(Step(c))`, scheduling), a stream that has no more to send is
  ended by the timeout of the socket, the main loop starts, ends and restarts transfers
  (its events and `startErroneousDownloadTimer`), and a start of the program goes to its end.
  A peer with the data is there: that is an assumption of `Delivers`, with at most `MaxFaults` bad
  buffers and lost connections. The program does not have to be started again.

### Refinement

`SortedArray` implements `SortedList` (`ImplementsList`, checked as a property of `sorted_array`). The mapping
forgets the tree: `elements <- Contents(root)`, `order <- lesserThan`. It is also proved, for every order of the tree and every set of
integers (`ImplementsSortedList`).

## 4. The proofs

Eight components are proved, each in a module of its own; `tlapm SortedArrayProofs.tla` takes about a quarter of an hour,
`tlapm FileDeliveryProofs.tla` and `tlapm DownloadQueueProofs.tla` some minutes, the others less.

The theorems hold for every value of the constants. What is assumed of these is in the `ASSUME` of each module, and
TLC evaluates it on the instances: the constants have their types; there is at least a chunk and a buffer in
`FileDelivery`; in `FileUpdating` the directories are a finite set of trees (`Above`) and no two directories are at
the same place of the disk; in `SortedArray` the values are integers and the orders odd and greater than 1
("M must be an odd number", `Common/Containers/SortedArray.h:256`). The bounds of the runs (calls, changes, faults, timeouts, restarts) are constants of
the modules, so that the theorems hold for any of them.

**HashRetrieval.** The inductive invariant `IInv` says that the pair (downloads,
occupied peers) is `Coherent`: every download is `Sound` (its type; no request and no
transfer when it is paused, removed, complete or not yet created; no request once all
hashes are known) and requests are `Exclusive` (the peer of a request is occupied and no
other download asks it). A handler changes a download and rescans the queue in the same
step, so the invariant of the *state* is not enough: the proof shows that each
*function* the handlers are composed of keeps `Coherent`, and that the functions of one
download are `Quieter` (they add no request). Without "a peer that is asked is occupied"
exclusion is not inductive; without "the idle ask nothing" the rescan of a pause is not
either. The last part of the invariant, `Right`, is that a download shown as getting its hashes has a request. It does not hold
inside a handler: the last hash, or a failure, ends the request of a download that still shows it, and only the `updateStatus`
or `setStatus` that follows mends it, before the rescan. Theorems: `Invariance`, `TypeCorrect`, `OneRequest`, `IdleIsQuiet`,
`ListHasTimer`, `ShownIsAsked`.

**DirRetrieval.** `IInv` is `NoIdlePeer` with the soundness of each download (a request
is held by one that knows its peer and whose status allows it) and `NotFoundIsRetried`.
The heart is `ScanGood`: a rescan sends at most one request and then stops, and this is
enough because, when the handler starts, no peer is idle, so that after one peer is given
back only the directories of that peer can be asked. The lemma is stated for any
availability, since a peer that appears changes it within the handler. Theorems:
`Invariance`, `TypeCorrect`, `NoPeerIsIdle`, `NotFoundHasRetry`,
`RequestsAreLegitimate`.

**FileDelivery.** For any number of chunks, of buffers per chunk, of `File` objects and of faults
(`DeliveryAssumption`: a chunk and a buffer at least). The proof has two layers.

*Sound* holds whatever happened, an old cache restored included: a thread that writes has a chunk
that is not whole, one that closes the file found it whole and with its first name (`ThreadSound`);
`numDataWriter` counts at least the threads that hold a writer, a file with a handle exists on the
disk, a `File` without hashes is complete and used by nobody (`FileSound`); the mutex and the two locks
of a file have one owner (`LocksSound`). `TypeOK` is not inductive without it: that `writers` stays a natural number when a writer
leaves, or when a removal takes several off at once, is the count of `FileSound`.

*Faithful* is what the Files, the disk and the saved cache say of each other, unless `misled`. The
safety properties are not inductive: a File that nobody uses may be opened again, a saved cache restored, a renamed file closed
under another one. The strengthening is: of the unfinished Files of the name one only is alive
(`OneLive`: linked, written or indexed), and an unfinished File that knows a whole chunk is alive (`KnownHeld`) and right about the
disk. So when the first writer of a File creates the unfinished file again, or when a thread renames it and the handles of the path are deleted,
no other File has anything to lose. `CleanHeld` says that what a thread hashed is on the disk (this is why a chunk whose hash matches is held),
`SavedHeld` that a whole chunk of the saved cache is on the disk and known by the File that is alive, so that no thread writes it again and the restored cache is true, and
`HandleHeld` that threads with a writer have the handle, or the count is too high for good, or the file is whole.
The proof has one lemma per action and layer; `FaithfulKept` serves the steps that touch neither
the disk nor the known data. Theorems: `Soundness`, `TypeCorrect`, `Invariance`, `DownloadedHeld`,
`FinishedWhole`, `WritersHaveHandles`.

**ChunkTransfer.** For any number of files, chunks, peers, threads and restarts. A transfer ends in several steps of the
main thread, with download threads and events of peers in between, so that "the peer of a transfer is occupied" is false in the
middle of a handler if a transfer is what `downloading` says. `IInv` counts as `Active` also the transfer whose wait or
end is at the head of the agenda. `Exclusive`: the occupied peers are exactly those of the active transfers, one each.
`AgendaSafe`: a transfer is waited for or ended at the head of the agenda only (`HeadOnly`); no chunk is to be picked in a file that is deleted
(`PickAlive`); the transfers of a deleted file, or of a peer about to be forgotten, have their stop still to come (`DeletedStops`,
`ForgottenStops`). `Counted`: a request belongs to an active transfer, and the running count is at most the number of those. `LinksCover`
is proved from the functions on the links, by counting the chunks of a peer. Theorems: `InvariantHolds`, `TypeCorrect`,
`PeerHasOneChunk`, `NoPeerStaysOccupied`, `LinksAreEnough`, `RunningIsTrue`.

**PooledRequests.** For any number of requests, connections, hashes, pieces, losses, timeouts and requests dropped. No message says whose it is:
an answer belongs to a request because of where it is on the connection. `IInv` has the types, `RequestSound` (a request that has not begun has no
socket and heard nothing, the others have one that was opened) and `SocketSound`: of a `Reliable` connection (not closed, no request made on it
too early after one that was given up), all that is on its way, queued or still owed by the server, at both ends, is one conversation
(`Conversation`), of the kind of its request: the only one that waits on the socket, or one that timed out or was dropped and
has none after it (`Asker`). The invariant has to speak of the two
queues, of `browse`, `owed` and `upload` together, because the answer moves from one to the other. A given-up `GET_HASHES` is what makes the counts
subtle: `Counted` relates `nbHash` of the socket to what its result still waits for only as long as the result waits. When a new
request is made, either all of that is over and the conversation is the new one, or the socket is in `mixed`. `StreamIsNotParsed` is false (5.2) and
not claimed. Theorems: `InvariantHolds`, `TypeCorrect`,
`SocketNotShared`, `AnswersAreMatched`, `IdleOwes`.

**FileUpdating.** For any tree of directories, any files, calls, changes of the disk and read errors. That the updater only sleeps when all is up to date is far from
inductive. `Followed(f)`, for each file directly in a shared directory, says where each difference between the disk and the cache is
on its way to be seen: a new file has its directory in the list of the scans, an event, or its place in what the scan that runs has still to meet
(`NewComes`); likewise for a deleted file (`DeletionComes`) and a changed one (`ChangeComes`, which may also be waiting for its
hashes). Events are processed in order and a scan works on what it listed when it began, so two more facts are needed: the last
event of a file says whether it is there (`EventsTrue`), and where the listing of the running scan is out of date there
is an event (`VisitTold`). `LoadTold` and `DoneTold` are the same for the files restored from the saved cache, and for one that
changed while its hashes were computed. `ListsSound` is that the two lists repeat no file; `RootsSound` that nothing of a
directory is left in the lists before it is shared, so that a new one starts with nothing on its way; `VisitSound` that a scan
stopped half-way is of a directory that is no longer shared; `Asleep` that where the updater sleeps there is nothing left or it will be
woken. The steps of the thread that leave the cache alone are one lemma (`MoveStep`), the calls of the main
thread another (`AsideSteady`). Nothing is claimed after a dangling pointer, where the model stops. It is proved of the
files that are directly in a shared directory: for the others it is false (disagreement 3). Theorems: `Invariance`, `TypeCorrect`, `FilesListedOnce`,
`NoneForgotten`, `QuietMeansUpToDate`.

**DownloadQueue.** For any tree of downloads, any local entries and any number of IDs in a request. The invariant `QueueInv` is
short: the list repeats no download and holds none that was never added (`ListIsSound`); nothing a predicate matches stands before
its marker (`MarkersAreFine`); what a loop of `addDownload` calls has still to add was never added (`AddingIsSound`); as long as no child is skipped,
those added stand from the place of their directory (`ChildrenInOrder`). That it survives a move or a removal is a property of a
loop over a list the loop changes, and most of the module is about these two loops. Each is a function of the number of turns, and
induction on it is done with the least turn at which the claim fails (`LeastNumber`), since the induction theorems are out of reach. Before each turn of a
move the list is in four consecutive parts (`Parts`): what stays before the place to move to, the downloads moved so far, what was passed since and stays,
and the rest, which no turn has touched. `Waiting` is the turns before the reference is met, when the downloads met are only
remembered; the turn that meets it takes them all there (`JoinAll`); afterwards each goes there alone. A turn, and each move within it, keeps every
marker `Fine`. A removal has the same shape: what was kept, the run to be erased, the rest. At the last turn the parts are the reference
definition (`MovedIsRight`, `RemovedIsRight`). Theorems: `Invariance`, `TypeCorrect`, `NothingIsHidden`, `ChildrenTakeThePlace`,
`MovesAreDocumented`, `RemovalsAreExact`.

**SortedArray.** For any odd order, any integer values and any operations. `IInv` says that for some *d* and *h* the order is
2*d* + 1 and the root is a `Tree` of *h* levels: in each node the items are in order and separate the values of the
children (`Arranged`), there are at most 2*d* items, and at least *d* below the root, there is one child more than items, or none on the last
level, and the size stored is the number of items plus the sizes stored by the children (`Local`). The sizes are part of the
invariant, not a consequence: `remove` takes a node for a leaf when it stores as many elements as it has items, and an
index is found by the sizes, so that a wrong size soon makes a wrong removal.

A tree is unfolded one level at a time (`Row`: items in order between children that are trees) and a row is put together again after
each change. `SizeOf`, `Bisect`, `Descent`, `AddAlong`, `RemoveAlong` and `Rebuilt` are functions of the turn; what holds after
each turn is shown by the first turn at which it would not (`LeastNumber`), since the induction theorems are out of reach.
Three arguments carry the rest. *Insertion*: what a turn leaves of a node with the new value is either one tree (`Whole`) or
two half full ones and the median between them (`Halves`), which hold together what the node held and the value; the node above takes
either. *Removal*: each node of the way has lost one value and one of its children may now have an item too few; an exchange with a
sister or a merge with it restores the row (`Balanced`), and then the node may lack one in turn. When the value is not in a leaf
it changes places with the one just before it or just after it, in the fuller of the two leaves, and between this and the removal of the leaf the tree is *not* in
order: the proof follows, for each node of the way, which of the two values it has lost already (`Exchanging`, `Gone`). *Indexes*: the number of
elements before a position is the sum of the sizes at its left, and the values at its left are exactly the lesser ones. Theorems: `Invariance`, `TypeCorrect`, `SizesExact`, `IndexesRight`,
`ImplementsSortedList`.

**Only model-checked:** the iterators and the search by size (`IterationFinds`: they are recursive operators, in a module of their own
so that `SortedArray` has none), and liveness under fairness: `StopTerminates`, `Settles`, `Delivers`.
The documented claims that the runs refute (5.1) are of course not proved.

## 5. Where the code and its documentation disagree

### 5.1 With a run

1. **Two threads that complete a file wait for each other** (`FM/Cache/File.cpp:585`, `completion_ends`).
   `setAsComplete`, called by `chunkComplete` with the mutex of the file, takes `writeLock` and `readLock`, gives the mutex
   back to close the handles and takes it again. A second thread whose chunk was already written enters
   `chunkComplete` in between, finds every chunk complete and the name still unfinished, keeps the mutex and waits for
   `writeLock`.
2. **A second `File` of the same name** (`FM/Cache/Cache.cpp:332`, `second_file`). `newFile` looks for the final name, under which
   an unfinished `File` is not found; a download restarted after an error, before its first whole chunk, empties its
   unfinished file.
3. **Sub-directories are not scanned** (`FM/Cache/Directory.cpp:262`, `subdirs_scanned`). The full path of a sub-directory lacks the
   name of the shared directory.

### 5.2 Stated in the modules, without a run

* `OccupiedIsAsking` (`HashRetrieval`) and `OccupiedIsAsked` (`DirRetrieval`): a rescan calls `retrieveHashes` or `retrieveEntries`
  of a download whose request is outstanding; the request is overwritten, the new one refused by the lock the download
  holds itself, and the peer stays in the set described as "Peer IDs currently occupied." (`DM/OccupiedPeers.h:53`;
  `DM/FileDownload.cpp:402`, `DM/DirDownload.cpp:88`).
* `ListedIsQueued` (`HashRetrieval`): erroneous, paused, resumed, erroneous again, a download is twice in
  `erroneousDownloads`; its removal takes one occurrence away (`DM/DownloadQueue.cpp:227`, `DM/DownloadQueue.h:103`).
* `ErroneousIsListed` (`HashRetrieval`): an erroneous status means "will be restarted
  periodically" (`DM/Constants.h:27`), but `restartErroneousDownloads`
  (`DM/DownloadManager.cpp:443`) takes the download off the list, and when `start` leaves the
  status erroneous `setStatus` does not list it again.
* `RetryWaits` (`HashRetrieval`): after a refusal the peer is given back
  (`DM/FileDownload.cpp:524`) before the retry is armed, and the rescan may ask the same peer for
  the same download at once instead of after `RETRY_PEER_GET_HASHES_PERIOD`.
* `WaitTerminates` (`ChunkTransfer`): a chunk restarted before the end of its last run is handled has two active
  threads; `ThreadPool::wait` stops at the one that is over (`src/application/Common/ThreadPool.cpp:180`, `:172`).
* `DownloaderLimit` (`ChunkTransfer`): the connection to `chunkDownloaderFinished` is made with a pointer to member at
  each start and "removed" with a `SLOT()` string, which removes nothing: a chunk started n times takes n off the
  count, and more than `number_of_downloader` transfers run (`DM/DownloadManager.cpp:457`, `core_settings.proto:42`).
* `LinksExact` (`ChunkTransfer`): a complete chunk clears its peers without their links
  (`DM/ChunkDownloader.cpp:555`), so that `LinkedPeers` counts too many.
* `MoveReachesReference` (`DownloadQueue`): a move AFTER several references waits for all of them;
  if one left the list meanwhile nothing moves (`DM/DownloadQueue.cpp:170`).
* `CompleteFilesKept` (`DownloadQueue`): `removeAllCompleteDownloads` "does not delete any
  physical file" (`DownloadManager/IDownloadManager.h:70`), but the removal of a download deletes
  its local file (`DM/FileDownload.cpp:373`).
* `IndexOfIsInverse` (`SortedArray`): "Found the index of a given value" (`Common/Containers/SortedArray.h:31`); the
  index of a value of an internal node lacks the size of its left child (`:661`): with the values 1, 2, 3 and order 3 the
  index of 2 is 0. The tests only look up absent values (`src/application/Common/TestsCommon/Tests.cpp:354`).
* `StreamIsNotParsed` (`PooledRequests`): the answer to GET_CHUNKS announces the bytes known then
  (`PM/PeerMessageSocket.cpp:367`), `Chunk::read` (`FM/Cache/Chunk.h:130`) reads to what is known later; the client stops at the
  size announced, gives the socket back open, and what follows is read as messages.
* `RemovedIsNotScanned` (`FileUpdating`): "If there is a scanning for this directory stop it."
  (`FM/FileUpdater/FileUpdater.cpp:128`), but only a scan whose current entry is the root itself is stopped (`:595`).

Two flaws bar properties of `FileDelivery` and are named there by the ghosts and by `Delivers`:

* a cache saved before the unfinished file was created again, restored after a crash, gives chunks that count as complete and hold
  zeros (`FM/Cache/File.cpp:169`: the date of an unfinished file is not tested; `FM/Cache/Chunk.h:100`);
* `FileDownload::reset` (`DM/FileDownload.cpp:723`) creates the file again while the thread of another chunk writes it.

`Delivers` names three more: `Entangled` (disagreement 1), `Barred` (an `open` that fails leaves `numDataWriter` one too
high, `FM/Cache/File.cpp:301`: the next writer does not open the file) and `Unnamed` (the program ended after the last chunk and before
the renaming; nothing renames the file when it is back).

### 5.3 Met while reading

* A child already queued counts as inserted in `newEntries` (`DM/DownloadManager.cpp:343`).
* The destructor of a directory gives its source back whoever occupies it (`DM/DirDownload.cpp:59`).
* In `scanTheQueue` a `continue` with a chunk in hand keeps it (`DM/DownloadManager.cpp:414`); a peer that answers DONT_HAVE stays
  among the peers of the chunk (`DM/ChunkDownloader.cpp:504`); `newEntries` deletes the object that emits
  the signal (`DM/DownloadManager.cpp:348`); `NetworkListener/priv/UDPListener.cpp:722` matches the answers by
  position and tag.
* A crash after the renaming and before the cache is saved leaves a complete file without hashes, which
  `Cache::newFile` sets back as unfinished. Quitting while the cache is loading saves it without the files not scanned yet, and
  the next start removes the unfinished ones (`FM/FileManager.cpp:83`, `FM/Cache/Directory.cpp:86`).
* `prioritizeAFileToHash` does not release `dirEvent` (`FM/FileUpdater/FileUpdater.cpp:175`, against the comment at `:390`). A chunk hashed
  before its file changed keeps its hash (`FM/Cache/FileHasher.cpp:99`, `:249`).
* `SortedArray::insert` returns 0 and `operator[]` may return another value when the inserted one moves up
  twice; `indexOfNearest` of an empty array is 0 where the comment says -1.
* An entry of exactly the size searched for may be missed by the size index; the extension index does not lower-case what it removes.
* `getASocket` may return a closed socket; the timer of an inactive socket may close it during a stream
  (`PM/PeerMessageSocket.cpp:455`); `GET_ENTRIES` is ignored while a browse is in progress; a replaced `GET_HASHES` leaves `nbHash` wrong;
  This is part of what `Reliable` excludes in `PooledRequests`; the rest is the next point.
* `finished()` "must be called when a transaction is terminated" (`PM/PeerMessageSocket.cpp:156`), and it is called for one that is not: a request
  that timed out, or that its owner drops (`FileDownload::stop`, `DM/FileDownload.cpp:122`, then `PM/GetHashesResult.cpp:40-46`; likewise
  `PM/GetEntriesResult.cpp:41-50`, `PM/GetChunksResult.cpp:43-50`), gives back its socket open and idle with its answer still to come. A download
  that is paused and resumed while its hashes are asked sends a second `GET_HASHES` on the same socket and is given the hashes
  of the first; a late `ENTRIES_RESULT` makes the socket idle (`PM/PeerMessageSocket.cpp:292`) while the next request waits on it, and a third one
  gets it. `mixed` in `PooledRequests` is exactly this.

## 6. Not modelled

The component list of `PROJECT.json` gives the status of each part, and the hazards
that no property covers have a note. What is left out of the modelled parts is said in section 2. Of the rest:

* the index by time and the queue file of the downloads, `ChunksOwned` by position and tag in `NetworkListener`, the gossip of the
  peers: planned;
* the word index and the extension index: maps, with little control;
* `HashCache`: a stub at this commit; `ChatSystem`: not used;
* the GUI, the client, the HTTP server and the remote control: front ends that translate requests into calls the modules
  take as inputs;
* the tools, the protocol definitions, the vendored libraries, the installers, the logs and the settings have no logic of the
  kind checked here.

## 7. Plan

Done: `HashRetrieval`, `DirRetrieval`, `DownloadQueue`, `ChunkTransfer`, `FileDelivery`, `PooledRequests` and
`FileUpdating`, with their proofs; `SortedArray` with its refinement, proved too. Left, by importance:

1. `PeerLock`: the abstract lock per peer (free, asked by one) that `HashRetrieval` and `ChunkTransfer` should
   implement, with the refinement mappings and their proofs.
2. Readers of a file in `FileDelivery`, and the uploads that hold them while the file is completed.
3. `OldestChunks`: the index by time with its posted events and removals; the queue file.
4. `ChunkDiscovery`: `IMAlive` and `ChunksOwned` by position and tag in `UDPListener`.
5. MOVE events and merged directories in `FileUpdating`.
