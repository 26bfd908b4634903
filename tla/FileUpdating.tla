---------------------------- MODULE FileUpdating ----------------------------
(***************************************************************************)
(* The FileUpdater: the thread that keeps the cache of the shared          *)
(* directories in step with the file system and computes the hashes of     *)
(* the files, and the calls of the main thread to it: share and unshare a  *)
(* directory, scan, hash a file first, stop.                               *)
(*                                                                         *)
(* u is the thread of the updater, m the call of the main thread.  The     *)
(* mutexes are not variables: a step that locks one is guarded by what m   *)
(* holds while it waits.  The lists hold the names of the files: a path    *)
(* has one File object at a time as long as no deleted object is listed.   *)
(* What the program does once one is, is undefined: the model stops there. *)
(***************************************************************************)
EXTENDS Integers, Sequences, FiniteSets

CONSTANTS
  Dirs,           \* the directories of the disk
  Files,          \* the files that may be on the disk
  None,
  Above,          \* Above[d]: the directories that hold d, from the shared one
  Place,          \* Place[d]: the path of the folder that holds the shared d
  In,             \* In[f]: the directory of the file f
  NbChunks,       \* chunks of a file
  MaxCalls,       \* bound: calls of the main thread, stop not counted
  MaxChanges,     \* bound: changes of the disk
  MaxErrors       \* bound: files of the disk that could not be read

Roots == {d \in Dirs : Above[d] = <<>>}
RootOf(d) == IF d \in Roots THEN d ELSE Above[d][1]
Path(d) == Append(Above[d], d)

(* The directory that holds d, which is not a shared one.                  *)
Up(d) == Above[d][Len(Above[d])]

FilesUnder(d) == {f \in Files : \E i \in DOMAIN Path(In[f]) : Path(In[f])[i] = d}
DirsUnder(d) == {e \in Dirs : \E i \in DOMAIN Path(e) : Path(e)[i] = d}

(* Where a directory is on the disk.                                       *)
TruePath(d) == Place[RootOf(d)] \o Path(d)

(* Where the code looks for it: the path that a SharedEntry keeps does not *)
(* end with the name of the shared directory, and getPath leaves this name *)
(* out too.                                                                *)
FullPath(d) ==
  Place[RootOf(d)] \o (IF d \in Roots THEN <<d>> ELSE Tail(Path(d)))

ASSUME UpdaterAssumption ==
  /\ None \notin Dirs \cup Files /\ Dirs \cap Files = {}
  /\ IsFiniteSet(Dirs)
  /\ Above \in [Dirs -> Seq(Dirs)]
  /\ \A d \in Dirs : \A i \in DOMAIN Above[d] :
       Above[Above[d][i]] = SubSeq(Above[d], 1, i - 1)
  /\ In \in [Files -> Dirs]
  /\ Roots \subseteq DOMAIN Place
  /\ \A d, e \in Dirs : FullPath(d) = TruePath(e) => d = e
  /\ NbChunks \in Nat \ {0}
  /\ MaxCalls \in Nat /\ MaxChanges \in Nat /\ MaxErrors \in Nat

VARIABLES
  disk,           \* the files on the disk
  events,         \* what the watcher saw and the updater has not read
  shared,         \* the directories of sharedEntries
  watched,        \* the directories the watcher watches
  cached,         \* the File objects of the cache
  subs,           \* the Directory objects of the cache, the roots apart
  missing,        \* missing[f]: the chunks of f without a hash
  changed,        \* the cached files whose size is not the one on the disk
  failed,         \* the files the last attempt to hash could not read
  saved,          \* the files whose hashes are in the saved cache
  entriesToScan,
  filesWithoutHashes, filesWithoutHashesPrioritized,
  entriesToRemove,
  deleted,        \* the roots that were deleted: the main thread frees them
  currentScanningEntry,
  hasher,         \* hashing and toStopHashing of the FileHasher
  toStopHashing, toStop,
  dirEvent,       \* the flag and the pipe of the WaitCondition
  u, m,
  calls, changes, errors

disks == <<disk, changes>>
cache == <<cached, subs, missing, changed, failed, saved>>
lists == <<filesWithoutHashes, filesWithoutHashesPrioritized>>
roots == <<shared, watched, entriesToRemove, deleted>>
scans == <<entriesToScan, currentScanningEntry>>
stops == <<hasher, toStopHashing, toStop>>
vars == <<disks, events, cache, lists, roots, scans, stops, dirEvent, u, m,
          calls, errors>>

Begin == [pc |-> "load", loading |-> TRUE, dir |-> None, visit |-> <<>>,
          rest |-> {}, old |-> {}, file |-> None, prio |-> FALSE,
          got |-> FALSE, batch |-> <<>>]
Go(pc) == [Begin EXCEPT !.pc = pc, !.loading = u.loading]

Call(pc, r) == [pc |-> pc, root |-> r]
Idle == Call("idle", None)

(* What m holds while it waits, or between two steps of a call.            *)
MutexFree == m.pc \notin {"rmWait", "rmFilter"}
HashingMutexFree == m.pc \notin {"rmWait", "rmFilter", "stopWait", "stopHashed"}
CacheMutexFree == m.pc \notin {"rmScan", "rmHash", "rmWait", "rmFilter"}

Contains(list, x) == \E i \in DOMAIN list : list[i] = x
Without(list, S) ==
  LET kept[n \in 0 .. Len(list)] ==
        IF n = 0 THEN <<>>
        ELSE IF list[n] \in S THEN kept[n - 1] ELSE Append(kept[n - 1], list[n])
  IN  kept[Len(list)]
IsListed(f) ==
  \/ Contains(filesWithoutHashes, f)
  \/ Contains(filesWithoutHashesPrioritized, f)
Dangling == \E f \in Files : IsListed(f) /\ RootOf(In[f]) \in deleted

Released == [flag |-> TRUE, pipe |-> TRUE]

Orders(S) == {s \in [1 .. Cardinality(S) -> S] : \A x \in S : Contains(s, x)}

(* The shared directories of the saved cache are added before the thread   *)
(* starts.                                                                 *)
Init ==
  /\ disk \in SUBSET Files /\ changes = 0
  /\ events = <<>>
  /\ shared \in SUBSET Roots
  /\ watched = shared
  /\ entriesToRemove = {} /\ deleted = {}
  /\ cached = {} /\ subs = {} /\ changed = {} /\ failed = {}
  /\ missing = [f \in Files |-> 0]
  /\ saved \in SUBSET {f \in Files : RootOf(In[f]) \in shared}
  /\ entriesToScan \in Orders(shared)
  /\ currentScanningEntry = None
  /\ filesWithoutHashes = <<>> /\ filesWithoutHashesPrioritized = <<>>
  /\ hasher = [hashing |-> FALSE, stop |-> FALSE]
  /\ toStopHashing = FALSE /\ toStop = FALSE
  /\ dirEvent = [flag |-> shared # {}, pipe |-> shared # {}]
  /\ u = Begin /\ m = Idle
  /\ calls = 0 /\ errors = 0

-----------------------------------------------------------------------------
(* The disk.  Every change is of the size of the file.                     *)

Seen(type, f) ==
  events' = IF RootOf(In[f]) \in watched
            THEN Append(events, [type |-> type, file |-> f]) ELSE events

Change(f) ==
  /\ changes < MaxChanges /\ changes' = changes + 1
  /\ \/ /\ f \notin disk /\ disk' = disk \cup {f} /\ Seen("new", f)
        /\ changed' = changed \cup ({f} \cap cached)
        /\ saved' = IF f \in cached THEN saved ELSE saved \ {f}
     \/ /\ f \in disk /\ disk' = disk \ {f} /\ Seen("deleted", f)
        /\ UNCHANGED <<changed, saved>>
     \/ /\ f \in disk /\ UNCHANGED disk /\ Seen("changed", f)
        /\ changed' = changed \cup ({f} \cap cached)
        /\ saved' = IF f \in cached THEN saved ELSE saved \ {f}
  /\ UNCHANGED <<cached, subs, missing, failed, lists, roots, scans, stops,
                 dirEvent, u, m, calls, errors>>

-----------------------------------------------------------------------------
(* scan: one step for each entry of a directory, under scanningMutex and   *)
(* mutex.  u.rest is what entryInfoList gave and u.old the files of the    *)
(* cache not met yet.                                                      *)

Listing(d) ==
  {f \in disk : TruePath(In[f]) = FullPath(d)}
  \cup {e \in Dirs \ Roots : TruePath(Up(e)) = FullPath(d)}

Visit(pc, d, visit) ==
  u' = [Go(pc) EXCEPT !.dir = d, !.visit = visit, !.rest = Listing(d),
                      !.old = {f \in cached : In[f] = d}]

WokenScan == IF m.pc = "rmScan" THEN Call("rmHash", m.root)
             ELSE IF m.pc = "stopScan" THEN Call("release", None) ELSE m

AfterScan(root) ==
  IF u.loading THEN [Go("restore") EXCEPT !.dir = root] ELSE Go("loop")

ScanStart ==
  /\ u.pc = "scan"
  /\ currentScanningEntry' = u.dir
  /\ Visit("visit", u.dir, <<>>)
  /\ UNCHANGED <<disks, events, cache, lists, roots, entriesToScan, stops,
                 dirEvent, m, calls, errors>>

ScanAborted ==
  /\ u.pc = "visit" /\ u.rest # {}
  /\ currentScanningEntry = None \/ toStop
  /\ currentScanningEntry' = None
  /\ m' = WokenScan
  /\ u' = AfterScan(RootOf(u.dir))
  /\ UNCHANGED <<disks, events, cache, lists, roots, entriesToScan, stops,
                 dirEvent, calls, errors>>

Scanning == u.pc = "visit" /\ currentScanningEntry # None /\ ~toStop /\ MutexFree

ScanSubDir(d) ==
  /\ Scanning /\ d \in u.rest
  /\ subs' = subs \cup {d}
  /\ u' = [u EXCEPT !.rest = @ \ {d}, !.visit = Append(@, d)]
  /\ UNCHANGED <<disks, events, cached, missing, changed, failed, saved, lists,
                 roots, scans, stops, dirEvent, m, calls, errors>>

(* A file whose size changed is another file, unless it waits for its      *)
(* hashes.                                                                 *)
ScanFile(f) ==
  /\ Scanning /\ f \in u.rest
  /\ LET isNew == f \notin cached \/ (f \in changed /\ ~IsListed(f))
         toHash == IF isNew THEN NbChunks ELSE missing[f]
     IN  /\ cached' = cached \cup {f}
         /\ missing' = [missing EXCEPT ![f] = toHash]
         /\ changed' = IF isNew THEN changed \ {f} ELSE changed
         /\ saved' = IF f \in cached /\ isNew THEN saved \ {f} ELSE saved
         /\ failed' = IF IsListed(f) THEN failed ELSE failed \ {f}
         /\ filesWithoutHashes' = IF toHash > 0 /\ ~IsListed(f)
                                  THEN Append(filesWithoutHashes, f)
                                  ELSE filesWithoutHashes
  /\ u' = [u EXCEPT !.rest = @ \ {f}, !.old = @ \ {f}]
  /\ UNCHANGED <<disks, events, subs, filesWithoutHashesPrioritized, roots,
                 scans, stops, dirEvent, m, calls, errors>>

(* deleteEntry of files.                                                   *)
DeleteFiles(F) ==
  /\ cached' = cached \ F
  /\ missing' = [f \in Files |-> IF f \in F THEN 0 ELSE missing[f]]
  /\ changed' = changed \ F /\ failed' = failed \ F
  /\ filesWithoutHashes' = Without(filesWithoutHashes, F)
  /\ filesWithoutHashesPrioritized' = Without(filesWithoutHashesPrioritized, F)
  /\ UNCHANGED <<subs, saved>>

ScanNext ==
  /\ u.pc = "visit" /\ u.rest = {} /\ MutexFree
  /\ DeleteFiles(u.old)
  /\ \/ /\ u.visit # <<>>
        /\ u' = [Go("visit") EXCEPT
                   !.dir = Head(u.visit), !.visit = Tail(u.visit),
                   !.rest = Listing(Head(u.visit)),
                   !.old = {f \in cached' : In[f] = Head(u.visit)}]
        /\ UNCHANGED <<currentScanningEntry, m>>
     \/ /\ u.visit = <<>>
        /\ currentScanningEntry' = None
        /\ m' = WokenScan
        /\ u' = AfterScan(RootOf(u.dir))
  /\ UNCHANGED <<disks, events, roots, entriesToScan, stops, dirEvent, calls,
                 errors>>

-----------------------------------------------------------------------------
(* run, before and in its loop.                                            *)

Load ==
  /\ u.pc = "load"
  /\ \/ /\ entriesToScan # <<>>
        /\ u' = [Go("scan") EXCEPT !.dir = Head(entriesToScan)]
        /\ entriesToScan' = Tail(entriesToScan)
        /\ UNCHANGED saved
     \/ /\ entriesToScan = <<>>
        /\ u' = [Go("hash") EXCEPT !.loading = FALSE]
        /\ saved' = {}
        /\ UNCHANGED entriesToScan
  /\ UNCHANGED <<disks, events, cached, subs, missing, changed, failed, lists,
                 roots, currentScanningEntry, stops, dirEvent, m, calls, errors>>

(* restoreFromFileCache: the list of the prioritized files is left alone.  *)
Restore ==
  /\ u.pc = "restore" /\ MutexFree
  /\ LET F == FilesUnder(u.dir) \cap cached \cap saved IN
       /\ missing' = [f \in Files |-> IF f \in F THEN 0 ELSE missing[f]]
       /\ filesWithoutHashes' = Without(filesWithoutHashes, F)
  /\ u' = Go("load")
  /\ UNCHANGED <<disks, events, cached, subs, changed, failed, saved,
                 filesWithoutHashesPrioritized, roots, scans, stops, dirEvent, m,
                 calls, errors>>

NothingToHash == filesWithoutHashes = <<>> /\ filesWithoutHashesPrioritized = <<>>

(* del empties the directories and posts to the main thread the deletion   *)
(* of the objects.                                                         *)
Remove ==
  /\ u.pc = "remove" /\ MutexFree
  /\ LET F == UNION {FilesUnder(r) : r \in entriesToRemove}
         D == UNION {DirsUnder(r) : r \in entriesToRemove}
     IN  /\ cached' = cached \ F /\ subs' = subs \ D
         /\ missing' = [f \in Files |-> IF f \in F THEN 0 ELSE missing[f]]
         /\ changed' = changed \ F /\ failed' = failed \ F
  /\ watched' = watched \ entriesToRemove
  /\ deleted' = deleted \cup entriesToRemove
  /\ entriesToRemove' = {}
  /\ LET toWait == entriesToScan = <<>> /\ NothingToHash IN
       u' = IF watched' = {} \/ entriesToScan # <<>>
            THEN Go(IF toWait THEN "waitDir" ELSE "take")
            ELSE Go(IF toWait THEN "waitEvent" ELSE "poll")
  /\ UNCHANGED <<disks, events, saved, lists, shared, scans, stops,
                 dirEvent, m, calls, errors>>

(* WaitCondition::wait returns at once when the flag is set.               *)
WaitDir ==
  /\ u.pc = "waitDir"
  /\ \/ dirEvent.flag /\ dirEvent' = [dirEvent EXCEPT !.flag = FALSE]
     \/ ~dirEvent.flag /\ dirEvent.pipe /\ dirEvent' = [dirEvent EXCEPT !.pipe = FALSE]
  /\ u' = Go("take")
  /\ UNCHANGED <<disks, events, cache, lists, roots, scans, stops, m, calls, errors>>

Take ==
  /\ u.pc = "take" /\ MutexFree
  /\ \/ /\ entriesToScan # <<>>
        /\ u' = [Go("scan") EXCEPT !.dir = entriesToScan[Len(entriesToScan)]]
        /\ entriesToScan' = SubSeq(entriesToScan, 1, Len(entriesToScan) - 1)
     \/ entriesToScan = <<>> /\ u' = Go("loop") /\ UNCHANGED entriesToScan
  /\ UNCHANGED <<disks, events, cache, lists, roots, currentScanningEntry, stops,
                 dirEvent, m, calls, errors>>

(* waitEvent: a released condition comes before the events.                *)
WaitEvent ==
  /\ u.pc = "waitEvent"
  /\ \/ /\ dirEvent.pipe
        /\ dirEvent' = [dirEvent EXCEPT !.pipe = FALSE]
        /\ u' = Go("loop")
        /\ UNCHANGED events
     \/ /\ ~dirEvent.pipe /\ events # <<>>
        /\ u' = [Go("events") EXCEPT !.batch = events]
        /\ events' = <<>>
        /\ UNCHANGED dirEvent
  /\ UNCHANGED <<disks, cache, lists, roots, scans, stops, m, calls, errors>>

Poll ==
  /\ u.pc = "poll"
  /\ u' = [Go("events") EXCEPT !.batch = events]
  /\ events' = <<>>
  /\ UNCHANGED <<disks, cache, lists, roots, scans, stops, dirEvent, m, calls, errors>>

(* The deepest directory of the cache on the path of f.                    *)
FittestDirectory(f) ==
  LET known == {i \in DOMAIN Path(In[f]) :
                  \A j \in 2 .. i : Path(In[f])[j] \in subs}
  IN  Path(In[f])[Cardinality(known)]

ProcessEvent ==
  /\ u.pc = "events" /\ u.batch # <<>> /\ CacheMutexFree /\ MutexFree
  /\ u' = [u EXCEPT !.batch = Tail(@)]
  /\ LET event == Head(u.batch) IN
     \/ /\ event.type = "deleted"
        /\ DeleteFiles({event.file} \cap
                       {f \in cached : RootOf(In[f]) \in shared})
        /\ UNCHANGED entriesToScan
     \/ /\ event.type \in {"new", "changed"}
        /\ LET d == FittestDirectory(event.file) IN
             entriesToScan' = IF RootOf(d) \notin shared \/ Contains(entriesToScan, d)
                              THEN entriesToScan ELSE Append(entriesToScan, d)
        /\ UNCHANGED <<cache, lists>>
  /\ UNCHANGED <<disks, events, roots, currentScanningEntry, stops, dirEvent, m,
                 calls, errors>>

EventsDone ==
  /\ u.pc = "events" /\ u.batch = <<>>
  /\ u' = Go("loop")
  /\ UNCHANGED <<disks, events, cache, lists, roots, scans, stops, dirEvent, m,
                 calls, errors>>

Loop ==
  /\ u.pc = "loop"
  /\ u' = Go(IF toStop THEN "done" ELSE "hash")
  /\ UNCHANGED <<disks, events, cache, lists, roots, scans, stops, dirEvent, m,
                 calls, errors>>

-----------------------------------------------------------------------------
(* computeSomeHashes and the FileHasher.                                   *)

Pick ==
  LET prio == filesWithoutHashesPrioritized # <<>> IN
  [Go("start") EXCEPT
     !.prio = prio,
     !.file = Head(IF prio THEN filesWithoutHashesPrioritized ELSE filesWithoutHashes)]

ComputeSomeHashes ==
  /\ u.pc = "hash" /\ HashingMutexFree
  /\ toStopHashing' = FALSE
  /\ u' = IF toStopHashing \/ NothingToHash THEN Go("remove") ELSE Pick
  /\ UNCHANGED <<disks, events, cache, lists, roots, scans, hasher, toStop,
                 dirEvent, m, calls, errors>>

Hashed(got) == u' = [u EXCEPT !.pc = "hashed", !.got = got]

(* Mutant: the end of a stopped hash is not told.                          *)
WokenHashNever == m

WokenHash == IF m.pc = "rmWait" THEN Call("rmFilter", m.root)
             ELSE IF m.pc = "stopWait" THEN Call("stopHashed", None) ELSE m

(* A stop asked for before the file is open.                               *)
HasherNotStarted ==
  /\ u.pc = "start" /\ hasher.stop
  /\ hasher' = [hasher EXCEPT !.stop = FALSE]
  /\ Hashed(FALSE)
  /\ UNCHANGED <<disks, events, cache, lists, roots, scans, toStopHashing, toStop,
                 dirEvent, m, calls, errors>>

HasherStart ==
  /\ u.pc = "start" /\ ~hasher.stop /\ u.file \in disk
  /\ hasher' = [hasher EXCEPT !.hashing = TRUE]
  /\ u' = [u EXCEPT !.pc = "read"]
  /\ UNCHANGED <<disks, events, cache, lists, roots, scans, toStopHashing, toStop,
                 dirEvent, m, calls, errors>>

(* IOErrorException: the file cannot be opened, locked or read.            *)
HasherFails ==
  /\ u.pc \in {"start", "read"} /\ ~hasher.stop
  /\ \/ u.file \notin disk /\ u.pc = "start" /\ UNCHANGED errors
     \/ u.file \in disk /\ errors < MaxErrors /\ errors' = errors + 1
  /\ hasher' = [hashing |-> FALSE, stop |-> FALSE]
  /\ failed' = failed \cup {u.file}
  /\ Hashed(TRUE)
  /\ UNCHANGED <<disks, events, cached, subs, missing, changed, saved, lists, roots,
                 scans, toStopHashing, toStop, dirEvent, m, calls>>

(* The mutex of the hasher is free between two buffers only.               *)
HasherStopped ==
  /\ u.pc = "read" /\ hasher.stop
  /\ hasher' = [hashing |-> FALSE, stop |-> FALSE]
  /\ m' = WokenHash
  /\ Hashed(FALSE)
  /\ UNCHANGED <<disks, events, cache, lists, roots, scans, toStopHashing, toStop,
                 dirEvent, calls, errors>>

(* Mutant: a chunk is always left to count.                                *)
HashChunkUnchecked ==
  /\ u.pc = "read" /\ ~hasher.stop
  /\ missing' = [missing EXCEPT ![u.file] = @ - 1]
  /\ changed' = IF missing[u.file] = 1 THEN changed \ {u.file} ELSE changed
  /\ failed' = IF missing[u.file] = 1 THEN failed \ {u.file} ELSE failed
  /\ Hashed(missing[u.file] = 1)
  /\ hasher' = [hashing |-> FALSE, stop |-> FALSE]
  /\ UNCHANGED <<disks, events, cached, subs, saved, lists, roots, scans,
                 toStopHashing, toStop, dirEvent, m, calls, errors>>

(* One chunk: the file is finished when the bytes read are its size.       *)
HashChunk ==
  /\ u.pc = "read" /\ ~hasher.stop
  /\ LET left == IF missing[u.file] = 0 THEN 0 ELSE missing[u.file] - 1 IN
       /\ missing' = [missing EXCEPT ![u.file] = left]
       /\ changed' = IF left = 0 THEN changed \ {u.file} ELSE changed
       /\ failed' = IF left = 0 THEN failed \ {u.file} ELSE failed
       /\ Hashed(left = 0)
  /\ hasher' = [hashing |-> FALSE, stop |-> FALSE]
  /\ UNCHANGED <<disks, events, cached, subs, saved, lists, roots, scans,
                 toStopHashing, toStop, dirEvent, m, calls, errors>>

(* Mutant: the first file of the list leaves it, whichever it is.          *)
AfterHashAnyFirst(list) ==
  IF u.got /\ list # <<>> THEN Tail(list)
  ELSE IF u.prio /\ Len(list) > 1 THEN Append(Tail(list), Head(list))
  ELSE list

AfterHash(list) ==
  IF list = <<>> \/ Head(list) # u.file THEN list
  ELSE IF u.got THEN Tail(list)
  ELSE IF u.prio THEN Append(Tail(list), Head(list))
  ELSE list

HashEnd ==
  /\ u.pc = "hashed" /\ HashingMutexFree /\ CacheMutexFree
  /\ IF u.prio
     THEN /\ filesWithoutHashesPrioritized' = AfterHash(filesWithoutHashesPrioritized)
          /\ UNCHANGED filesWithoutHashes
     ELSE /\ filesWithoutHashes' = AfterHash(filesWithoutHashes)
          /\ UNCHANGED filesWithoutHashesPrioritized
  /\ toStopHashing' = FALSE
  /\ \/ u' = Go("remove")
     \/ ~toStopHashing /\ u' = Go("hash")
  /\ UNCHANGED <<disks, events, cache, roots, scans, hasher, toStop, dirEvent, m,
                 calls, errors>>

-----------------------------------------------------------------------------
(* The calls of the main thread.                                           *)

NewCall == m = Idle /\ calls < MaxCalls /\ calls' = calls + 1

(* Mutant: the updater is not woken.                                       *)
AddRootQuietly(r) ==
  /\ NewCall
  /\ r \notin shared \cup entriesToRemove \cup deleted
  /\ shared' = shared \cup {r} /\ watched' = watched \cup {r}
  /\ entriesToScan' = Append(entriesToScan, r)
  /\ UNCHANGED <<disks, events, cache, lists, entriesToRemove, deleted,
                 currentScanningEntry, stops, dirEvent, u, m, errors>>

AddRoot(r) ==
  /\ NewCall
  /\ r \notin shared \cup entriesToRemove \cup deleted
  /\ shared' = shared \cup {r} /\ watched' = watched \cup {r}
  /\ entriesToScan' = Append(entriesToScan, r)
  /\ dirEvent' = Released
  /\ UNCHANGED <<disks, events, cache, lists, entriesToRemove, deleted,
                 currentScanningEntry, stops, u, m, errors>>

ScanRoots ==
  /\ NewCall
  /\ \E order \in Orders({r \in shared : ~Contains(entriesToScan, r)}) :
       entriesToScan' = entriesToScan \o order
  /\ dirEvent' = Released
  /\ UNCHANGED <<disks, events, cache, lists, roots, currentScanningEntry, stops,
                 u, m, errors>>

(* Mutant: the file stays in the other list.                               *)
PrioritizeAndKeep(f) ==
  /\ NewCall
  /\ f \in cached /\ RootOf(In[f]) \in shared /\ missing[f] > 0
  /\ filesWithoutHashesPrioritized' =
       IF Contains(filesWithoutHashesPrioritized, f)
       THEN filesWithoutHashesPrioritized
       ELSE Append(filesWithoutHashesPrioritized, f)
  /\ toStopHashing' = TRUE
  /\ UNCHANGED <<disks, events, cache, filesWithoutHashes, roots, scans, hasher,
                 toStop, dirEvent, u, m, errors>>

PrioritizeAFileToHash(f) ==
  /\ NewCall
  /\ f \in cached /\ RootOf(In[f]) \in shared /\ missing[f] > 0
  /\ filesWithoutHashes' = Without(filesWithoutHashes, {f})
  /\ filesWithoutHashesPrioritized' =
       IF Contains(filesWithoutHashesPrioritized, f)
       THEN filesWithoutHashesPrioritized
       ELSE Append(filesWithoutHashesPrioritized, f)
  /\ toStopHashing' = TRUE
  /\ UNCHANGED <<disks, events, cache, roots, scans, hasher, toStop, dirEvent, u, m,
                 errors>>

(* stopScanning: only the scan of the root itself is stopped.              *)
RmRoot(r) ==
  /\ NewCall /\ r \in shared
  /\ shared' = shared \ {r}
  /\ \/ /\ currentScanningEntry = r
        /\ currentScanningEntry' = None /\ m' = Call("rmScan", r)
        /\ UNCHANGED entriesToScan
     \/ /\ currentScanningEntry # r
        /\ entriesToScan' = Without(entriesToScan, {r}) /\ m' = Call("rmHash", r)
        /\ UNCHANGED currentScanningEntry
  /\ UNCHANGED <<disks, events, cache, lists, watched, entriesToRemove, deleted,
                 stops, dirEvent, u, errors>>

RmRootStopsHashing ==
  /\ m.pc = "rmHash"
  /\ hasher' = [hasher EXCEPT !.stop = TRUE]
  /\ m' = Call(IF hasher.hashing THEN "rmWait" ELSE "rmFilter", m.root)
  /\ UNCHANGED <<disks, events, cache, lists, roots, scans, toStopHashing, toStop,
                 dirEvent, u, calls, errors>>

RmRootFilters ==
  /\ m.pc = "rmFilter"
  /\ toStopHashing' = TRUE
  /\ filesWithoutHashes' = Without(filesWithoutHashes, FilesUnder(m.root))
  /\ filesWithoutHashesPrioritized' =
       Without(filesWithoutHashesPrioritized, FilesUnder(m.root))
  /\ entriesToScan' = Without(entriesToScan, DirsUnder(m.root))
  /\ entriesToRemove' = entriesToRemove \cup {m.root}
  /\ dirEvent' = Released
  /\ m' = Idle
  /\ UNCHANGED <<disks, events, cache, shared, watched, deleted,
                 currentScanningEntry, hasher, toStop, u, calls, errors>>

Stop ==
  /\ m = Idle
  /\ toStop' = TRUE
  /\ hasher' = [hasher EXCEPT !.stop = TRUE]
  /\ m' = Call(IF hasher.hashing THEN "stopWait" ELSE "stopHashed", None)
  /\ UNCHANGED <<disks, events, cache, lists, roots, scans, toStopHashing, dirEvent,
                 u, calls, errors>>

StopScanning ==
  /\ m.pc = "stopHashed"
  /\ toStopHashing' = TRUE
  /\ \/ /\ currentScanningEntry # None
        /\ currentScanningEntry' = None /\ m' = Call("stopScan", None)
        /\ UNCHANGED entriesToScan
     \/ /\ currentScanningEntry = None
        /\ entriesToScan' = <<>> /\ m' = Call("release", None)
        /\ UNCHANGED currentScanningEntry
  /\ UNCHANGED <<disks, events, cache, lists, roots, hasher, toStop, dirEvent, u,
                 calls, errors>>

StopReleases ==
  /\ m.pc = "release"
  /\ dirEvent' = Released
  /\ m' = Call("join", None)
  /\ UNCHANGED <<disks, events, cache, lists, roots, scans, stops, u, calls, errors>>

Join ==
  /\ m.pc = "join" /\ u.pc = "done"
  /\ m' = Call("stopped", None)
  /\ UNCHANGED <<disks, events, cache, lists, roots, scans, stops, dirEvent, u,
                 calls, errors>>

-----------------------------------------------------------------------------
Updater ==
  /\ ~Dangling
  /\ \/ ScanStart \/ ScanAborted \/ ScanNext
     \/ \E d \in Dirs : ScanSubDir(d)
     \/ \E f \in Files : ScanFile(f)
     \/ Load \/ Restore \/ Remove \/ WaitDir \/ Take \/ WaitEvent \/ Poll
     \/ ProcessEvent \/ EventsDone \/ Loop
     \/ ComputeSomeHashes \/ HasherNotStarted \/ HasherStart \/ HasherFails
     \/ HasherStopped \/ HashChunk \/ HashEnd

CallGoesOn ==
  /\ ~Dangling
  /\ \/ RmRootStopsHashing \/ RmRootFilters
     \/ StopScanning \/ StopReleases \/ Join

Others ==
  /\ ~Dangling
  /\ \/ \E r \in Roots : AddRoot(r) \/ RmRoot(r)
     \/ ScanRoots
     \/ \E f \in Files : PrioritizeAFileToHash(f) \/ Change(f)
     \/ Stop

Next == Updater \/ CallGoesOn \/ Others

Spec == Init /\ [][Next]_vars

(* The threads run; nobody has to call or to change the disk.              *)
FairSpec == Spec /\ WF_vars(Updater) /\ WF_vars(CallGoesOn)

-----------------------------------------------------------------------------
Types == {"new", "changed", "deleted"}

TypeOK ==
  /\ disk \subseteq Files /\ cached \subseteq Files
  /\ changed \subseteq cached /\ failed \subseteq cached /\ saved \subseteq Files
  /\ subs \subseteq Dirs \ Roots
  /\ missing \in [Files -> 0 .. NbChunks]
  /\ \A i \in DOMAIN events : events[i] \in [type : Types, file : Files]
  /\ shared \cup watched \cup entriesToRemove \cup deleted \subseteq Roots
  /\ \A i \in DOMAIN entriesToScan : entriesToScan[i] \in Dirs
  /\ currentScanningEntry \in Dirs \cup {None}
  /\ \A list \in {filesWithoutHashes, filesWithoutHashesPrioritized} :
       \A i \in DOMAIN list : list[i] \in Files
  /\ hasher \in [hashing : BOOLEAN, stop : BOOLEAN]
  /\ toStopHashing \in BOOLEAN /\ toStop \in BOOLEAN
  /\ dirEvent \in [flag : BOOLEAN, pipe : BOOLEAN]
  /\ m.root \in Roots \cup {None}
  /\ u.dir \in Dirs \cup {None} /\ u.file \in Files \cup {None}

(* A file waits for its hashes once, in one of the two lists: it is not    *)
(* counted nor hashed twice, whoever listed it.                            *)
ListedOnce ==
  LET all == filesWithoutHashes \o filesWithoutHashesPrioritized IN
  \A i, j \in DOMAIN all : all[i] = all[j] => i = j

(* A file of the cache that lacks a hash waits for it, unless it could not *)
(* be read, whatever moved in the lists while it was being hashed.         *)
NotForgotten ==
  \A f \in cached :
    RootOf(In[f]) \in shared /\ missing[f] > 0 /\ f \notin failed => IsListed(f)

(* The updater sleeps and nothing will wake it.                            *)
Quiet ==
  /\ \/ u.pc = "waitDir" /\ ~dirEvent.flag
     \/ u.pc = "waitEvent" /\ events = <<>>
  /\ ~dirEvent.pipe /\ m = Idle

UpToDate(f) ==
  /\ f \in disk <=> f \in cached
  /\ f \in cached => f \in failed \/ (f \notin changed /\ missing[f] = 0)

(* When the updater sleeps, what the cache knows of the shared directories *)
(* is what is on the disk, and every file that can be read is hashed: no   *)
(* call and no event got lost.  Of the directories themselves only: see    *)
(* SubDirectoriesAreScanned.                                               *)
QuietIsUpToDate ==
  Quiet => \A f \in Files : In[f] \in shared => UpToDate(f)

(* Every call of the main thread returns, stop included: the updater never *)
(* leaves it waiting for the end of a scan, of a hash or of the thread.    *)
(* And once nobody calls and the disk is left alone the updater ends       *)
(* asleep: it does not hash, scan or poll for ever.                        *)
Settles == <>[](Quiet \/ m.pc = "stopped" \/ Dangling)

(* FileUpdater::scan: "Scan recursively all the directories and files      *)
(* contained in entry" (FileUpdater.cpp:454).  It does not hold: FullPath  *)
(* is not where a sub directory is.                                        *)
SubDirectoriesAreScanned ==
  Quiet => \A f \in Files : RootOf(In[f]) \in shared => UpToDate(f)

(* rmRoot: "If there is a scanning for this directory stop it."            *)
(* (FileUpdater.cpp:128).  It does not hold: the scan may be of a sub      *)
(* directory, or not begun.                                                *)
RemovedIsNotScanned ==
  m = Idle /\ currentScanningEntry # None => RootOf(currentScanningEntry) \in shared
=============================================================================
