---------------------------- MODULE FileDelivery ----------------------------
(***************************************************************************)
(* A file that is being downloaded, from the creation of its ".unfinished" *)
(* file to the renaming once every chunk is there: the File objects of the *)
(* cache, the threads that write its chunks, the download that owns them,  *)
(* and what survives the end of the program: the disk and the saved cache. *)
(*                                                                         *)
(* One file name of one shared directory, whose hashes the download knows. *)
(* A chunk is Size buffers, each of which is right or wrong on the disk.   *)
(* Entry::mutex of a file is held by a thread at "close", its writeLock    *)
(* and readLock by a thread at "release": the other uses of these locks    *)
(* are single steps, guarded by that.                                      *)
(***************************************************************************)
EXTENDS Integers, Sequences, FiniteSets, SequencesExt

CONSTANTS
  NbChunks,       \* chunks of the file
  Size,           \* buffers of a chunk
  MaxFiles,       \* bound: File objects of the directory with this name
  MaxFaults       \* bound: crashes, ends of the program, removals of the
                  \* download, deletions by the user, failures of open, and
                  \* connections that drop or give wrong data

ASSUME DeliveryAssumption ==
  /\ NbChunks \in Nat \ {0} /\ Size \in Nat \ {0}
  /\ MaxFiles \in Nat /\ MaxFaults \in Nat

Chunks == 1 .. NbChunks
Buffers == Chunks \X (0 .. Size - 1)
NoFile == [exists |-> FALSE, right |-> {}]
Zeros == [exists |-> TRUE, right |-> {}]

VARIABLES
  phase,          \* "off", "scan" and "restore" of the updater, "up"
  unfinished,     \* "<name>.unfinished" on the disk
  finished,       \* "<name>" on the disk
  saved,          \* the saved cache, as far as restoring the name reads it
  cacheChanged,
  files,          \* the File objects of the name in their Directory
  wanted,         \* the download is in the queue
  exists,         \* exists of its localEntry
  chunksOf,       \* the File of its chunks, 0 for none
  broken,         \* its status is erroneous
  last,           \* lastTransferStatus of its ChunkDownloaders
  threads,        \* the thread of each ChunkDownloader
  faults,
  outdated,       \* the file was emptied or removed since the cache was saved
  misled          \* such a cache was restored, or the file was created again
                  \* while a thread wrote to it or a chunk of it was indexed

disk == <<unfinished, finished>>
download == <<wanted, exists, chunksOf, broken, last>>
history == <<outdated, misled>>
vars == <<phase, disk, saved, cacheChanged, files, download, threads, faults,
          history>>

Resting == [pc |-> "idle", file |-> 0, next |-> 0, clean |-> FALSE]
Zero == [c \in Chunks |-> 0]
Full == [c \in Chunks |-> Size]

(* A File without all its data: named "<name>.unfinished", all its hashes  *)
(* known.                                                                  *)
NewFile == [complete |-> FALSE, hashed |-> TRUE, known |-> Zero,
            indexed |-> {}, writers |-> 0, open |-> FALSE]

(* The saved entries of the name: is there one of a complete file, is      *)
(* there one of an unfinished file and what does the last one know.        *)
NoEntries == [complete |-> FALSE, unfinished |-> FALSE, known |-> Zero]

Init ==
  /\ phase = "up"
  /\ unfinished = NoFile /\ finished = NoFile
  /\ saved = NoEntries /\ cacheChanged = FALSE
  /\ files = <<>>
  /\ wanted = TRUE /\ exists = FALSE /\ chunksOf = 0 /\ broken = FALSE
  /\ last = [c \in Chunks |-> "ok"]
  /\ threads = [c \in Chunks |-> Resting]
  /\ faults = 0
  /\ outdated = FALSE /\ misled = FALSE

At(f, pc) == \E c \in Chunks : threads[c].file = f /\ threads[c].pc = pc
MutexFree(f) == ~ At(f, "close")
LocksFree(f) == ~ At(f, "release")
MutexesFree == \A f \in DOMAIN files : MutexFree(f)

Fault == faults < MaxFaults /\ faults' = faults + 1

-----------------------------------------------------------------------------
(* The download, in the main thread.                                       *)

(* getAllChunks: the file of the first chunk that is in the index, if all  *)
(* the hashes are those of the download.                                   *)
Indexed(c) == {f \in DOMAIN files : c \in files[f].indexed}
Linkable ==
  UNION {Indexed(c) : c \in {d \in Chunks : \A e \in Chunks :
                                            e < d => Indexed(e) = {}}}

(* start: the chunks are replaced only if a file is found.                 *)
LinkToAnExistingFile ==
  \/ /\ \A c \in Chunks : Indexed(c) = {}
     /\ exists' = FALSE /\ UNCHANGED chunksOf
  \/ exists' = TRUE /\ chunksOf' \in Linkable

Downloading(c) == threads[c].pc # "idle"
IsComplete(f, c) == f # 0 /\ files[f].known[c] = Size

(* getAChunkToDownload when the local file does not exist: newFile looks   *)
(* for a File with the name without ".unfinished".                         *)
Named == {f \in DOMAIN files : files[f].complete}

CreateFile ==
  /\ phase = "up" /\ wanted /\ ~ exists /\ ~ broken /\ MutexesFree
  /\ \E c \in Chunks : ~ Downloading(c) /\ ~ IsComplete(chunksOf, c)
  /\ exists' = TRUE
  /\ \/ \E f \in Named :
          /\ chunksOf' = f
          /\ IF files[f].hashed
             THEN UNCHANGED <<files, unfinished, cacheChanged, outdated>>
             ELSE /\ files' = [files EXCEPT ![f] = NewFile] \* setToUnfinished
                  /\ unfinished' = Zeros /\ outdated' = TRUE
                  /\ cacheChanged' = TRUE
     \/ /\ Named = {}
        /\ Len(files) < MaxFiles
        /\ files' = Append(files, NewFile)
        /\ chunksOf' = Len(files) + 1
        /\ unfinished' = Zeros /\ outdated' = TRUE
        /\ UNCHANGED cacheChanged
  /\ LET used == \E c \in Chunks : Downloading(c) \/ Indexed(c) # {}
     IN  misled' = (misled \/ (files' # files /\ used))
  /\ UNCHANGED <<phase, finished, saved, wanted, broken, last, threads,
                 faults>>

(* The peer is asked for what is missing, then the thread begins.          *)
StartDownloading(c) ==
  /\ phase = "up" /\ wanted /\ exists /\ ~ broken
  /\ ~ Downloading(c) /\ ~ IsComplete(chunksOf, c)
  /\ threads' = [threads EXCEPT ![c] =
       [pc |-> "open", file |-> chunksOf,
        next |-> files[chunksOf].known[c], clean |-> FALSE]]
  /\ last' = [last EXCEPT ![c] = "ok"]
  /\ UNCHANGED <<phase, disk, saved, cacheChanged, files, wanted, exists,
                 chunksOf, broken, faults, history>>

(* updateStatus: the chunks are read in order, up to the first that is     *)
(* being downloaded, or whose file was lost: reset.  An error is the       *)
(* status of the file unless a chunk read later may be downloaded.         *)
UpdateStatus(busy) ==
  LET stops == busy \cup {c \in Chunks : last[c] = "lost"}
      read == {c \in Chunks : \A s \in stops : c < s}
      failed == {c \in read : last[c] = "error"}
      waiting == {c \in read \ failed : ~ IsComplete(chunksOf, c)}
      cleared == [c \in Chunks |-> IF c \in failed THEN "ok" ELSE last[c]]
      first == CHOOSE s \in stops : \A d \in stops : s <= d
  IN  \/ /\ stops = {}
         /\ last' = cleared
         /\ broken' = \E e \in failed :
                        waiting # {} => \E w \in waiting : w < e
         /\ UNCHANGED <<exists, chunksOf>>
      \/ /\ stops # {} /\ first \in busy
         /\ last' = cleared /\ broken' = FALSE
         /\ UNCHANGED <<exists, chunksOf>>
      \/ /\ stops # {} /\ first \notin busy
         /\ last' = [cleared EXCEPT ![first] = "ok"]
         /\ broken' = TRUE /\ exists' = FALSE /\ chunksOf' = 0

Finished(c) ==
  /\ phase = "up" /\ threads[c].pc = "ended" /\ MutexesFree
  /\ threads' = [threads EXCEPT ![c] = Resting]
  /\ UpdateStatus({d \in Chunks \ {c} : Downloading(d)})
  /\ UNCHANGED <<phase, disk, saved, cacheChanged, files, wanted, faults,
                 history>>

(* Mutant: the restarted download keeps its status.                        *)
RestartAndStayErroneous ==
  /\ phase = "up" /\ wanted /\ broken /\ MutexesFree
  /\ LinkToAnExistingFile
  /\ UNCHANGED <<phase, disk, saved, cacheChanged, files, wanted, broken, last,
                 threads, faults, history>>

(* restartErroneousDownloads, by a timer.                                  *)
RestartErroneous ==
  /\ phase = "up" /\ wanted /\ broken /\ MutexesFree
  /\ LinkToAnExistingFile
  /\ broken' = FALSE
  /\ UNCHANGED <<phase, disk, saved, cacheChanged, files, wanted, last,
                 threads, faults, history>>

(* The user removes a download whose file is not complete: the threads are *)
(* stopped and waited for, the File is deleted.  Those that complete       *)
(* a chunk must end first.  Every handle on the path is deleted: one that  *)
(* another File of the name still holds dangles, and is taken to fail.     *)
Abandoned(f) ==
  LET n == Cardinality({c \in Chunks : /\ threads[c].pc = "write"
                                       /\ threads[c].file = f})
  IN  [files[f] EXCEPT !.writers = @ - n,
         !.open = @ /\ chunksOf = 0 /\ (n = 0 \/ files[f].writers # n)]

RemoveDownload ==
  /\ phase = "up" /\ wanted /\ Fault
  /\ \A c \in Chunks : threads[c].pc \in {"idle", "open", "write", "ended"}
  /\ chunksOf # 0 => ~ files[chunksOf].complete
  /\ wanted' = FALSE /\ exists' = FALSE /\ chunksOf' = 0 /\ broken' = FALSE
  /\ last' = [c \in Chunks |-> "ok"]
  /\ threads' = [c \in Chunks |-> Resting]
  /\ LET left == [f \in DOMAIN files |-> Abandoned(f)]
     IN  files' = IF chunksOf = 0 THEN left ELSE RemoveAt(left, chunksOf)
  /\ IF chunksOf = 0 THEN UNCHANGED <<unfinished, cacheChanged, outdated>>
     ELSE unfinished' = NoFile /\ cacheChanged' = TRUE /\ outdated' = TRUE
  /\ UNCHANGED <<phase, finished, saved, misled>>

(* The user asks for the file again: a new download starts.                *)
AddDownload ==
  /\ phase = "up" /\ ~ wanted
  /\ wanted' = TRUE
  /\ LinkToAnExistingFile
  /\ UNCHANGED <<phase, disk, saved, cacheChanged, files, broken, last,
                 threads, faults, history>>

-----------------------------------------------------------------------------
(* The thread of the chunk c.                                              *)

Become(c, pc) == threads' = [threads EXCEPT ![c].pc = pc]
EndWith(c, status) == Become(c, "ended") /\ last' = [last EXCEPT ![c] = status]
LeaveWith(c, status) == Become(c, "leave") /\ last' = [last EXCEPT ![c] = status]

(* Mutant: what was known before the writer came is not checked.           *)
KnownUnchecked(f, c) == {}

KnownBuffers(f, c) == {c} \X (0 .. files[f].known[c] - 1)
FirstWriter(f) == files[f].writers = 0

(* computeChunkHash, with what the disk holds of the known buffers, then   *)
(* newDataWriterCreated.  An exception leaves numDataWriter incremented.   *)
CreateWriter(c) ==
  LET f == threads[c].file
      counted == [files EXCEPT ![f].writers = @ + 1]
  IN  /\ threads[c].pc = "open" /\ LocksFree(f)
      /\ \/ /\ ~ FirstWriter(f) \/ unfinished.exists
            /\ threads' = [threads EXCEPT ![c].pc = "write",
                 ![c].clean = KnownBuffers(f, c) \subseteq unfinished.right]
            /\ files' = IF FirstWriter(f)
                        THEN [counted EXCEPT ![f].open = TRUE] ELSE counted
            /\ UNCHANGED <<unfinished, cacheChanged, last, faults, outdated>>
         \/ /\ FirstWriter(f) /\ ~ unfinished.exists
            /\ unfinished' = Zeros /\ outdated' = TRUE
            /\ LET lost == {d \in Chunks : files[f].known[d] # 0}
               IN  /\ files' = [counted EXCEPT ![f].open = TRUE,
                                  ![f].known = Zero, ![f].indexed = @ \ lost]
                   /\ IF lost # {}
                      THEN /\ EndWith(c, "lost") \* FileResetException
                           /\ cacheChanged' = TRUE
                      ELSE /\ threads' = [threads EXCEPT ![c].pc = "write",
                                            ![c].clean = TRUE]
                           /\ UNCHANGED <<cacheChanged, last>>
            /\ UNCHANGED faults
         \/ /\ FirstWriter(f) /\ Fault
            /\ files' = counted
            /\ EndWith(c, "error") \* UnableToOpenFileInWriteModeException
            /\ UNCHANGED <<unfinished, cacheChanged, outdated>>
      /\ UNCHANGED <<phase, finished, saved, wanted, exists, chunksOf, broken,
                     misled>>

(* A buffer of the stream is full: DataWriter::write.  The peer sends what *)
(* follows the offset it was asked for.                                    *)
WriteBuffer(c) ==
  LET t == threads[c]
      f == t.file
      k == files[f].known[c]
      end == k + 1 = Size
  IN  /\ t.pc = "write" /\ t.next < Size /\ LocksFree(f)
      /\ \E good \in BOOLEAN :
           /\ IF good THEN UNCHANGED faults ELSE Fault
           /\ LET right == good /\ t.next = k
                  clean == t.clean /\ right
              IN  \/ /\ end /\ ~ clean \* hashMismatchException
                     /\ files' = [files EXCEPT ![f].known[c] = 0]
                     /\ LeaveWith(c, "error")
                     /\ UNCHANGED unfinished
                  \/ /\ ~ (end /\ ~ clean) /\ ~ files[f].open
                     /\ LeaveWith(c, "error") \* IOErrorException
                     /\ UNCHANGED <<files, unfinished>>
                  \/ /\ ~ (end /\ ~ clean) /\ files[f].open
                     /\ files' = [files EXCEPT ![f].known[c] = k + 1]
                     /\ unfinished' = [unfinished EXCEPT !.right =
                          IF right THEN @ \cup {<<c, k>>} ELSE @ \ {<<c, k>>}]
                     /\ threads' = [threads EXCEPT ![c].next = @ + 1,
                          ![c].clean = clean,
                          ![c].pc = IF end THEN "count" ELSE "write"]
                     /\ UNCHANGED last
      /\ UNCHANGED <<phase, finished, saved, cacheChanged, wanted, exists,
                     chunksOf, broken, history>>

(* The connection drops, or the peer has no more to send.                  *)
Disconnect(c) ==
  /\ threads[c].pc = "write"
  /\ IF threads[c].next < Size THEN Fault ELSE UNCHANGED faults
  /\ LeaveWith(c, "error")
  /\ UNCHANGED <<phase, disk, saved, cacheChanged, files, wanted, exists,
                 chunksOf, broken, history>>

(* Mutant: the file is set as complete with the first chunk that is.       *)
FirstChunkCompletes(c) ==
  LET f == threads[c].file
  IN  /\ threads[c].pc = "count" /\ MutexFree(f)
      /\ files' = [files EXCEPT ![f].indexed = @ \cup {c}]
      /\ cacheChanged' = TRUE
      /\ Become(c, IF ~ files[f].complete THEN "close" ELSE "leave")
      /\ UNCHANGED <<phase, disk, saved, download, faults, history>>

(* chunkComplete, with the mutex of the file; setAsComplete keeps it until *)
(* it has the two locks.                                                   *)
ChunkComplete(c) ==
  LET f == threads[c].file
  IN  /\ threads[c].pc = "count" /\ MutexFree(f)
      /\ files' = [files EXCEPT ![f].indexed = @ \cup {c}]
      /\ cacheChanged' = TRUE
      /\ Become(c, IF files[f].known = Full /\ ~ files[f].complete
                   THEN "close" ELSE "leave")
      /\ UNCHANGED <<phase, disk, saved, download, faults, history>>

(* It has them: it gives the mutex back to close the handles of the file.  *)
ReleaseHandles(c) ==
  /\ threads[c].pc = "close" /\ LocksFree(threads[c].file)
  /\ Become(c, "release")
  /\ UNCHANGED <<phase, disk, saved, cacheChanged, files, download, faults,
                 history>>

(* It has the mutex again.  The handles are deleted by then, those of      *)
(* other Files of the path too.                                            *)
Closed == [f \in DOMAIN files |-> [files[f] EXCEPT !.open = FALSE]]

RenameFile(c) ==
  LET f == threads[c].file
  IN  /\ threads[c].pc = "release" /\ MutexFree(f)
      /\ Become(c, "leave")
      /\ IF unfinished.exists
         THEN /\ finished' = unfinished /\ unfinished' = NoFile
              /\ files' = [Closed EXCEPT ![f].complete = TRUE]
         ELSE files' = Closed /\ UNCHANGED disk
      /\ UNCHANGED <<phase, saved, cacheChanged, download, faults, history>>

(* Mutant: the writer is taken off twice.                                  *)
DeleteWriterTwice(c) ==
  LET f == threads[c].file
  IN  /\ threads[c].pc = "leave" /\ LocksFree(f)
      /\ files' = [files EXCEPT ![f].writers = @ - 2,
                                ![f].open = @ /\ files[f].writers # 2]
      /\ Become(c, "ended")
      /\ UNCHANGED <<phase, disk, saved, cacheChanged, download, faults,
                     history>>

(* Mutant: the handle is released with the first writer that leaves.       *)
DeleteWriterAndClose(c) ==
  LET f == threads[c].file
  IN  /\ threads[c].pc = "leave" /\ LocksFree(f)
      /\ files' = [files EXCEPT ![f].writers = @ - 1, ![f].open = FALSE]
      /\ Become(c, "ended")
      /\ UNCHANGED <<phase, disk, saved, cacheChanged, download, faults,
                     history>>

(* The writer is deleted: dataWriterDeleted.                               *)
DeleteWriter(c) ==
  LET f == threads[c].file
  IN  /\ threads[c].pc = "leave" /\ LocksFree(f)
      /\ files' = [files EXCEPT ![f].writers = @ - 1,
                                ![f].open = @ /\ files[f].writers # 1]
      /\ Become(c, "ended")
      /\ UNCHANGED <<phase, disk, saved, cacheChanged, download, faults,
                     history>>

-----------------------------------------------------------------------------
(* The updater computes the hashes of a complete file that has none: they  *)
(* are those of the download if its data is.                               *)
ComputeHashes(f) ==
  /\ phase = "up" /\ files[f].complete /\ ~ files[f].hashed
  /\ finished.right = Buffers
  /\ files' = [files EXCEPT ![f].hashed = TRUE, ![f].indexed = Chunks]
  /\ cacheChanged' = TRUE
  /\ UNCHANGED <<phase, disk, saved, download, threads, faults, history>>

(* populateHashes: the files that have hashes; the last entry with a name  *)
(* wins when it is restored.                                               *)
Unfinished == {f \in DOMAIN files : files[f].hashed /\ ~ files[f].complete}
Entries(unfinishedOnes, known) ==
  [complete |-> \E f \in DOMAIN files : files[f].hashed /\ files[f].complete,
   unfinished |-> unfinishedOnes, known |-> known]
SaveEntries ==
  \/ Unfinished = {} /\ saved' = Entries(FALSE, Zero)
  \/ \E f \in Unfinished :
       /\ \A g \in Unfinished : g <= f
       /\ saved' = Entries(TRUE, files[f].known)

(* persistCacheToFile, by a timer; the file is replaced as a whole.        *)
PersistCache ==
  /\ phase = "up" /\ cacheChanged /\ MutexesFree
  /\ SaveEntries /\ cacheChanged' = FALSE /\ outdated' = FALSE
  /\ UNCHANGED <<phase, disk, files, download, threads, faults, misled>>

(* The end of the process: nothing stays but the disk.                     *)
Stopped ==
  /\ phase' = "off"
  /\ files' = <<>>
  /\ threads' = [c \in Chunks |-> Resting]
  /\ last' = [c \in Chunks |-> "ok"]
  /\ exists' = FALSE /\ chunksOf' = 0 /\ broken' = FALSE
  /\ cacheChanged' = FALSE

Crash ==
  /\ phase # "off" /\ Fault /\ Stopped
  /\ UNCHANGED <<disk, saved, wanted, history>>

(* ~FileManager: the updater is stopped, the cache is saved as it is, even *)
(* before it was restored; the downloads are stopped before.               *)
Quit ==
  /\ phase # "off" /\ Fault
  /\ \A c \in Chunks : threads[c].pc \in {"idle", "open", "write", "ended"}
  /\ Stopped
  /\ SaveEntries /\ outdated' = FALSE
  /\ UNCHANGED <<disk, wanted, misled>>

Boot ==
  /\ phase = "off"
  /\ phase' = "scan"
  /\ UNCHANGED <<disk, saved, cacheChanged, files, download, threads, faults,
                 history>>

(* The scan of the directory, then restoreFromFileCache.  An unfinished    *)
(* file without an entry is removed; a complete one has no hashes, unless  *)
(* it has an entry.                                                        *)
RestoredFinished ==
  IF ~ finished.exists THEN <<>>
  ELSE <<[NewFile EXCEPT !.complete = TRUE, !.known = Full,
            !.hashed = saved.complete,
            !.indexed = IF saved.complete THEN Chunks ELSE {}]>>

RestoredUnfinished ==
  IF ~ unfinished.exists \/ ~ saved.unfinished THEN <<>>
  ELSE <<[NewFile EXCEPT !.known = saved.known,
            !.indexed = {c \in Chunks : saved.known[c] > 0}]>>

Restore ==
  /\ phase = "scan"
  /\ phase' = "restore"
  /\ files' = RestoredFinished \o RestoredUnfinished
  /\ unfinished' = IF saved.unfinished THEN unfinished ELSE NoFile
  /\ cacheChanged' = TRUE
  /\ misled' = (misled \/ outdated)
  /\ UNCHANGED <<finished, saved, download, threads, faults, outdated>>

(* fileCacheLoadingComplete: the queue is loaded, the downloads start.     *)
LoadQueue ==
  /\ phase = "restore"
  /\ phase' = "up"
  /\ IF wanted THEN LinkToAnExistingFile ELSE UNCHANGED <<exists, chunksOf>>
  /\ UNCHANGED <<disk, saved, cacheChanged, files, wanted, broken, last,
                 threads, faults, history>>

(* The user deletes the unfinished file while no handle on it is open, the *)
(* program running or not: the updater does not look at unfinished files.  *)
UserDeletes ==
  /\ unfinished.exists /\ Fault
  /\ \A f \in DOMAIN files : ~ files[f].open
  /\ unfinished' = NoFile
  /\ UNCHANGED <<phase, finished, saved, cacheChanged, files, download,
                 threads, history>>

-----------------------------------------------------------------------------
Step(c) ==
  \/ CreateWriter(c) \/ WriteBuffer(c) \/ ChunkComplete(c)
  \/ ReleaseHandles(c) \/ RenameFile(c) \/ DeleteWriter(c)

Next ==
  \/ \E c \in Chunks : Step(c) \/ Disconnect(c) \/ StartDownloading(c)
                       \/ Finished(c)
  \/ CreateFile \/ RestartErroneous \/ RemoveDownload \/ AddDownload
  \/ \E f \in DOMAIN files : ComputeHashes(f)
  \/ PersistCache \/ Crash \/ Quit \/ Boot \/ Restore \/ LoadQueue
  \/ UserDeletes

Spec == Init /\ [][Next]_vars

(* A thread that may go on does so, a peer that has no more to send lets   *)
(* the socket time out; the main loop handles its events and its timers.   *)
FairSpec ==
  /\ Spec
  /\ \A c \in Chunks :
       /\ WF_vars(Step(c))
       /\ WF_vars(threads[c].next = Size /\ Disconnect(c))
       /\ WF_vars(StartDownloading(c))
       /\ WF_vars(Finished(c))
  /\ WF_vars(CreateFile) /\ WF_vars(RestartErroneous)
  /\ WF_vars(Restore) /\ WF_vars(LoadQueue)

-----------------------------------------------------------------------------
Known == [Chunks -> 0 .. Size]
DiskFile == {NoFile} \cup [exists : {TRUE}, right : SUBSET Buffers]
File == [complete : BOOLEAN, hashed : BOOLEAN, known : Known,
         indexed : SUBSET Chunks, writers : Nat, open : BOOLEAN]
Thread(n) == [pc : {"idle", "open", "write", "count", "close", "release",
                    "leave", "ended"},
              file : 0 .. n, next : 0 .. Size, clean : BOOLEAN]

(* The variables keep their types (File.h, Chunk.h, ChunkDownloader.h).    *)
TypeOK ==
  /\ phase \in {"off", "scan", "restore", "up"}
  /\ unfinished \in DiskFile /\ finished \in DiskFile
  /\ saved \in [complete : BOOLEAN, unfinished : BOOLEAN, known : Known]
  /\ cacheChanged \in BOOLEAN
  /\ files \in Seq(File)
  /\ wanted \in BOOLEAN /\ exists \in BOOLEAN /\ broken \in BOOLEAN
  /\ chunksOf \in 0 .. Len(files)
  /\ last \in [Chunks -> {"ok", "error", "lost"}]
  /\ threads \in [Chunks -> Thread(Len(files))]
  /\ faults \in 0 .. MaxFaults
  /\ outdated \in BOOLEAN /\ misled \in BOOLEAN

(* What the download counts as a complete chunk is on the disk: a bad      *)
(* buffer, a connection that drops, a file that was deleted and a crash do *)
(* not leave a chunk that claims data it has not (DataWriter::write,       *)
(* File::newDataWriterCreated), as long as no saved cache older than the   *)
(* file was restored.                                                      *)
OnDisk(f) == IF files[f].complete THEN finished ELSE unfinished
DownloadedIsHeld ==
  misled \/ ~ exists \/ ~ OnDisk(chunksOf).exists
  \/ \A c \in Chunks : IsComplete(chunksOf, c) =>
       {c} \X (0 .. Size - 1) \subseteq OnDisk(chunksOf).right

(* A file gets its final name with all its data (File::setAsComplete).     *)
FinishedIsWhole == misled \/ ~ finished.exists \/ finished.right = Buffers

(* A thread that writes has a handle, whatever the other threads of the    *)
(* file do, unless the first open failed: the count of the writers then    *)
(* stays above the number of writers (File::newDataWriterCreated,          *)
(* dataWriterDeleted, setAsComplete).  Nor when another File was created   *)
(* on the path: its completion closes the handle.                          *)
WritersOf(f) ==
  {c \in Chunks : threads[c].file = f
     /\ threads[c].pc \in {"write", "count", "close", "release", "leave"}}
WriterHasHandle ==
  misled \/ \A c \in Chunks : threads[c].pc = "write" =>
    LET f == threads[c].file
    IN  files[f].open \/ files[f].writers > Cardinality(WritersOf(f))

(* The download ends with the file under its name, or is removed, unless   *)
(* the program stays closed (chunkComplete, restartErroneousDownloads).    *)
(* Three flaws bar it: two threads that wait for each other in             *)
(* setAsComplete; a count of writers that a failed open left too high; the *)
(* end of the program after the last chunk, before the file was renamed:   *)
(* nothing renames it once it is restored.                                 *)
Entangled == \E f \in DOMAIN files : At(f, "close") /\ At(f, "release")
Barred ==
  \E f \in DOMAIN files : /\ ~ files[f].complete /\ ~ files[f].open
                          /\ files[f].writers > Cardinality(WritersOf(f))
Unnamed ==
  \E f \in DOMAIN files : /\ files[f].known = Full /\ ~ files[f].complete
                          /\ \A c \in Chunks : threads[c].file # f
Delivers ==
  [](~ Entangled /\ ~ Barred /\ ~ Unnamed) =>
    <>[](finished.exists \/ ~ wanted \/ phase = "off")

(* A thread that completes a file gets its final name set, and goes on     *)
(* (File.cpp:570).                                                         *)
CompletionEnds ==
  \A c \in Chunks : threads[c].pc = "close" ~> threads[c].pc = "leave"

(* newFile compares the file it is asked for with the one that exists      *)
(* (Cache.cpp:331): it does not make a second File of it.                  *)
OneFilePerName == Len(files) <= 1

=============================================================================
