------------------------- MODULE FileDeliveryProofs -------------------------
(***************************************************************************)
(* Proofs about FileDelivery for any number of chunks, of buffers, of      *)
(* Files and of faults.                                                    *)
(*                                                                         *)
(* Sound is what holds whatever happened; Faithful is what relates the     *)
(* disk, the saved cache and the Files as long as no cache older than the  *)
(* file was restored and no file was created again under a thread          *)
(* (~ misled).  The heart of it is that the Files with the name of the     *)
(* unfinished file may be many, but one only is alive: one is linked, is   *)
(* written to, or has a chunk in the index.                                *)
(***************************************************************************)
EXTENDS FileDelivery, FiniteSetTheorems, SequenceTheorems, TLAPS

(* The thread of c has a file unless it is idle; it writes what is missing,*)
(* and only completes a file that has all its chunks and its first name.   *)
ThreadSound(c) ==
  LET t == threads[c]
  IN  /\ t.pc = "idle" <=> t.file = 0
      /\ t.pc \in {"open", "write"} => files[t.file].known[c] < Size
      /\ t.pc \in {"close", "release"} =>
           files[t.file].known = Full /\ ~ files[t.file].complete

(* A complete File has all its chunks; one without hashes is used by       *)
(* nobody; an open one is on the disk; the writers are counted.            *)
FileSound(f) ==
  /\ files[f].complete => files[f].known = Full
  /\ ~ files[f].hashed =>
       /\ files[f].complete /\ files[f].indexed = {} /\ f # chunksOf
       /\ \A c \in Chunks : threads[c].file # f
  /\ files[f].open => unfinished.exists
  /\ files[f].writers >= Cardinality(WritersOf(f))

(* The mutex of a file, and its two locks, have one owner.                 *)
LocksSound ==
  \A c, d \in Chunks :
    /\ threads[c].file = threads[d].file /\ threads[c].pc = threads[d].pc
    /\ threads[c].pc \in {"close", "release"}
    => c = d

PhaseSound ==
  /\ exists => chunksOf # 0
  /\ phase # "up" => /\ ~ exists /\ chunksOf = 0
                     /\ \A c \in Chunks : threads[c].pc = "idle"
  /\ phase \in {"off", "scan"} => files = <<>>

Sound ==
  /\ \A c \in Chunks : ThreadSound(c)
  /\ \A f \in DOMAIN files : FileSound(f)
  /\ LocksSound /\ PhaseSound

Live(f) ==
  f = chunksOf \/ files[f].indexed # {} \/ \E c \in Chunks : threads[c].file = f

OneLive ==
  \A f, g \in DOMAIN files :
    Live(f) /\ Live(g) /\ ~ files[f].complete /\ ~ files[g].complete => f = g

Data(c) == {c} \X (0 .. Size - 1)

(* What an unfinished File knows: a whole chunk is indexed, or its thread  *)
(* is about to index it, and it is on the disk.                            *)
KnownHeld(f) ==
  ~ files[f].complete =>
    \A c \in Chunks : files[f].known[c] = Size =>
      /\ \/ c \in files[f].indexed
         \/ threads[c].file = f /\ threads[c].pc = "count"
      /\ unfinished.exists => Data(c) \subseteq unfinished.right

(* What a thread hashed so far is on the disk.                             *)
CleanHeld(c) ==
  LET t == threads[c]
  IN  t.pc = "write" /\ t.clean /\ files[t.file].open =>
        {c} \X (0 .. files[t.file].known[c] - 1) \subseteq unfinished.right

(* A whole chunk of the saved cache is on the disk, and known by the File  *)
(* that is alive, so that no thread writes it again.                       *)
SavedHeld ==
  ~ outdated /\ unfinished.exists /\ saved.unfinished =>
    \A c \in Chunks : saved.known[c] = Size =>
      /\ Data(c) \subseteq unfinished.right
      /\ \A f \in DOMAIN files : Live(f) /\ ~ files[f].complete =>
           files[f].known[c] = Size

(* A thread that has a writer has a handle, unless the count of the        *)
(* writers is too high for good or the file is closed because it is whole. *)
HandleHeld(f) ==
  WritersOf(f) # {} =>
    \/ files[f].open
    \/ files[f].writers > Cardinality(WritersOf(f))
    \/ files[f].known = Full

Faithful ==
  /\ OneLive
  /\ \A f \in DOMAIN files : KnownHeld(f) /\ HandleHeld(f)
  /\ \A c \in Chunks : CleanHeld(c)
  /\ SavedHeld
  /\ finished.exists => finished.right = Buffers

IInv == TypeOK /\ Sound /\ (misled \/ Faithful)

SInv == TypeOK /\ Sound

-----------------------------------------------------------------------------
(* Finite sets and sequences.                                              *)

LEMMA ChunksFinite == IsFiniteSet(Chunks) /\ Chunks \subseteq Nat /\ Size \in Nat \ {0}
<1>1. NbChunks \in Nat /\ Size \in Nat \ {0}
  BY DeliveryAssumption
<1>2. IsFiniteSet(1 .. NbChunks)
  BY <1>1, FS_Interval
<1> QED
  BY <1>1, <1>2 DEF Chunks

(* The Files of the directory, as a function.                              *)
LEMMA FilesFunction ==
  ASSUME TypeOK
  PROVE  /\ Len(files) \in Nat /\ DOMAIN files = 1 .. Len(files)
         /\ \A f \in DOMAIN files : files[f] \in File
<1>1. files \in Seq(File)
  BY DEF TypeOK
<1> QED
  BY <1>1, LenProperties, ElementOfSeq

LEMMA OneFileChanged ==
  ASSUME TypeOK, NEW f \in DOMAIN files, NEW e \in File,
         files' = [files EXCEPT ![f] = e]
  PROVE  /\ files' \in Seq(File) /\ Len(files') = Len(files)
         /\ DOMAIN files' = DOMAIN files
         /\ files'[f] = e
         /\ \A g \in DOMAIN files : g # f => files'[g] = files[g]
<1>1. files \in Seq(File) /\ DOMAIN files = 1 .. Len(files)
  BY FilesFunction DEF TypeOK
<1> QED
  BY <1>1, ExceptSeq


(* A File with other known buffers of one chunk.                           *)
LEMMA KnownChanged ==
  ASSUME NEW e \in File, NEW c \in Chunks, NEW k \in 0 .. Size
  PROVE  /\ [e EXCEPT !.known[c] = k] \in File
         /\ [e EXCEPT !.known[c] = k].known = [e.known EXCEPT ![c] = k]
<1> DEFINE kk == [e.known EXCEPT ![c] = k]
<1>1. kk \in Known
  BY DEF File, Known
<1>2. [e EXCEPT !.known = kk] \in File
  <2> HIDE DEF kk
  <2> QED BY <1>1 DEF File
<1>3. [e EXCEPT !.known[c] = k] = [e EXCEPT !.known = kk]
  OBVIOUS
<1>4. [e EXCEPT !.known = kk].known = kk
  <2> HIDE DEF kk
  <2> QED BY DEF File
<1> QED
  BY <1>2, <1>3, <1>4

(* The other members of a File.                                            *)
SameButKnown(e, d) ==
  /\ e.complete = d.complete /\ e.hashed = d.hashed /\ e.indexed = d.indexed
  /\ e.writers = d.writers /\ e.open = d.open

LEMMA KnownOfOneFileChanged ==
  ASSUME TypeOK, NEW f \in DOMAIN files, NEW c \in Chunks, NEW k \in 0 .. Size,
         files' = [files EXCEPT ![f].known[c] = k]
  PROVE  /\ files' \in Seq(File) /\ Len(files') = Len(files)
         /\ DOMAIN files' = DOMAIN files
         /\ \A g \in DOMAIN files : g # f => files'[g] = files[g]
         /\ SameButKnown(files'[f], files[f])
         /\ files'[f].known = [files[f].known EXCEPT ![c] = k]
<1> DEFINE e == [files[f] EXCEPT !.known[c] = k]
<1>1. files[f] \in File
  BY FilesFunction
<1>2. files' = [files EXCEPT ![f] = e]
  OBVIOUS
<1>3. e \in File /\ e.known = [files[f].known EXCEPT ![c] = k]
  BY <1>1, KnownChanged
<1>4. SameButKnown(e, files[f])
  BY <1>1 DEF SameButKnown, File
<1> HIDE DEF e
<1> QED
  BY <1>2, <1>3, <1>4, OneFileChanged

LEMMA ExistingFile ==
  ASSUME NEW file \in DiskFile, file.exists
  PROVE  file \in [exists : {TRUE}, right : SUBSET Buffers]
<1>1. NoFile.exists = FALSE
  BY DEF NoFile
<1>2. file # NoFile
  BY <1>1
<1> QED
  BY <1>2 DEF DiskFile

LEMMA NewFileIsFile == NewFile \in File /\ Zero \in Known
BY ChunksFinite DEF NewFile, File, Known, Zero

-----------------------------------------------------------------------------
(* The writers of a File, when one thread moves.                           *)
Writing == {"write", "count", "close", "release", "leave"}

LEMMA WritersFinite ==
  ASSUME NEW f
  PROVE  /\ IsFiniteSet(WritersOf(f)) /\ WritersOf(f) \subseteq Chunks
         /\ Cardinality(WritersOf(f)) \in Nat
<1>1. WritersOf(f) \in SUBSET Chunks
  BY DEF WritersOf
<1> QED
  BY <1>1, ChunksFinite, FS_Subset, FS_CardinalityType

LEMMA SameWriters ==
  ASSUME TypeOK, NEW c \in Chunks, NEW t, threads' = [threads EXCEPT ![c] = t],
         NEW f,
         threads[c].file = f /\ threads[c].pc \in Writing
           <=> t.file = f /\ t.pc \in Writing
  PROVE  WritersOf(f)' = WritersOf(f)
<1>1. threads \in [Chunks -> Thread(Len(files))]
  BY DEF TypeOK
<1>2. threads'[c] = t /\ \A d \in Chunks : d # c => threads'[d] = threads[d]
  BY <1>1
<1> QED
  BY <1>2 DEF WritersOf, Writing

LEMMA WriterJoins ==
  ASSUME TypeOK, NEW c \in Chunks, NEW t, threads' = [threads EXCEPT ![c] = t],
         NEW f, threads[c].pc \notin Writing, t.file = f, t.pc \in Writing
  PROVE  /\ WritersOf(f)' = WritersOf(f) \cup {c}
         /\ Cardinality(WritersOf(f)') = Cardinality(WritersOf(f)) + 1
<1>1. threads \in [Chunks -> Thread(Len(files))]
  BY DEF TypeOK
<1>2. threads'[c] = t /\ \A d \in Chunks : d # c => threads'[d] = threads[d]
  BY <1>1
<1>3. WritersOf(f)' = WritersOf(f) \cup {c} /\ c \notin WritersOf(f)
  BY <1>2 DEF WritersOf, Writing
<1> QED
  BY <1>3, WritersFinite, FS_AddElement

LEMMA WriterLeaves ==
  ASSUME TypeOK, NEW c \in Chunks, NEW t, threads' = [threads EXCEPT ![c] = t],
         NEW f, threads[c].file = f, threads[c].pc \in Writing, t.pc \notin Writing
  PROVE  /\ WritersOf(f)' = WritersOf(f) \ {c} /\ c \in WritersOf(f)
         /\ Cardinality(WritersOf(f)') = Cardinality(WritersOf(f)) - 1
<1>1. threads \in [Chunks -> Thread(Len(files))]
  BY DEF TypeOK
<1>2. threads'[c] = t /\ \A d \in Chunks : d # c => threads'[d] = threads[d]
  BY <1>1
<1>3. WritersOf(f)' = WritersOf(f) \ {c} /\ c \in WritersOf(f)
  BY <1>2 DEF WritersOf, Writing
<1> QED
  BY <1>3, WritersFinite, FS_RemoveElement

-----------------------------------------------------------------------------
(* The type and the soundness of the state, step by step.                  *)

(* The thread that acts, and its file.                                     *)
LEMMA ThreadAndFile ==
  ASSUME SInv, NEW c \in Chunks, threads[c].pc # "idle"
  PROVE  /\ threads[c].file \in DOMAIN files /\ files[threads[c].file] \in File
         /\ threads[c] \in Thread(Len(files))
         /\ phase = "up"
<1>1. threads[c] \in Thread(Len(files)) /\ threads[c].file # 0 /\ phase = "up"
  BY DEF SInv, TypeOK, Sound, ThreadSound, PhaseSound
<1>2. threads[c].file \in 0 .. Len(files)
  BY <1>1 DEF Thread
<1> QED
  BY <1>1, <1>2, FilesFunction DEF SInv

LEMMA FaultCounted ==
  ASSUME TypeOK, Fault \/ UNCHANGED faults
  PROVE  faults' \in 0 .. MaxFaults
BY DeliveryAssumption DEF TypeOK, Fault

LEMMA OneThreadChanged ==
  ASSUME TypeOK, NEW c \in Chunks, NEW t \in Thread(Len(files)),
         threads' = [threads EXCEPT ![c] = t]
  PROVE  /\ threads' \in [Chunks -> Thread(Len(files))]
         /\ threads'[c] = t
         /\ \A d \in Chunks : d # c => threads'[d] = threads[d]
BY DEF TypeOK

(* A thread that does not move stays sound if its file keeps what it needs.*)
LEMMA OtherThreadSound ==
  ASSUME SInv, NEW d \in Chunks, threads'[d] = threads[d],
         \A g \in DOMAIN files : threads[d].file = g =>
           /\ files'[g].known[d] = files[g].known[d]
           /\ files[g].known = Full /\ ~ files[g].complete =>
                files'[g].known = Full /\ ~ files'[g].complete
  PROVE  ThreadSound(d)'
<1>1. CASE threads[d].pc = "idle"
  BY <1>1 DEF SInv, Sound, ThreadSound
<1>2. CASE threads[d].pc # "idle"
  <2>1. threads[d].file \in DOMAIN files
    BY <1>2, ThreadAndFile
  <2> QED
    BY <2>1 DEF SInv, Sound, ThreadSound
<1> QED
  BY <1>1, <1>2

(* A thread leaves its writer without a change of the file.                *)
LEMMA LeavingSound ==
  ASSUME SInv, NEW c \in Chunks, threads[c].pc = "write", LeaveWith(c, "error"),
         Fault \/ UNCHANGED faults,
         UNCHANGED <<phase, unfinished, finished, saved, cacheChanged, files,
                     wanted, exists, chunksOf, broken, outdated, misled>>
  PROVE  SInv'
<1>1. PICK f \in DOMAIN files : threads[c].file = f /\ files[f] \in File
  BY ThreadAndFile
<1>2. threads[c] \in Thread(Len(files))
  BY ThreadAndFile
<1> DEFINE t == [threads[c] EXCEPT !.pc = "leave"]
<1>3. /\ threads' = [threads EXCEPT ![c] = t]
      /\ t \in Thread(Len(files)) /\ t.pc = "leave" /\ t.file = f
  BY <1>1, <1>2 DEF LeaveWith, Become, Thread
<1> HIDE DEF t
<1>4. /\ threads'[c] = t /\ \A d \in Chunks : d # c => threads'[d] = threads[d]
      /\ threads' \in [Chunks -> Thread(Len(files))]
  BY <1>3, OneThreadChanged DEF SInv
<1>5. TypeOK'
  <2>1. faults' \in 0 .. MaxFaults
    BY FaultCounted DEF SInv
  <2>2. last' \in [Chunks -> {"ok", "error", "lost"}]
    BY DEF SInv, TypeOK, LeaveWith
  <2> QED
    BY <1>4, <2>1, <2>2 DEF SInv, TypeOK
<1>6. \A g \in DOMAIN files : WritersOf(g)' = WritersOf(g)
  BY <1>1, <1>2, <1>3, SameWriters DEF SInv, Writing
<1>7. \A d \in Chunks : ThreadSound(d)'
  BY <1>1, <1>3, <1>4 DEF SInv, Sound, ThreadSound
<1>8. \A g \in DOMAIN files : FileSound(g)'
  BY <1>1, <1>3, <1>4, <1>6 DEF SInv, Sound, FileSound
<1>9. LocksSound'
  BY <1>1, <1>3, <1>4 DEF SInv, Sound, LocksSound
<1>10. PhaseSound'
  BY <1>1, <1>2, <1>3, <1>4 DEF SInv, Sound, PhaseSound, ThreadSound
<1> QED
  BY <1>5, <1>7, <1>8, <1>9, <1>10 DEF SInv, Sound

LEMMA DisconnectSound ==
  ASSUME SInv, NEW c \in Chunks, Disconnect(c)
  PROVE  SInv'
BY LeavingSound DEF Disconnect, disk, history

(* What WriteBuffer may do.                                                *)
Mismatch(c, f) ==
  /\ files' = [files EXCEPT ![f].known[c] = 0]
  /\ LeaveWith(c, "error")
  /\ UNCHANGED <<unfinished, outdated, misled>>
Written(c, f, right) ==
  LET k == files[f].known[c]
      done == k + 1 = Size
      clean == threads[c].clean /\ right
  IN  /\ files[f].open /\ (done => clean)
      /\ files' = [files EXCEPT ![f].known[c] = k + 1]
      /\ unfinished' = [unfinished EXCEPT !.right =
           IF right THEN @ \cup {<<c, k>>} ELSE @ \ {<<c, k>>}]
      /\ threads' = [threads EXCEPT ![c].next = @ + 1, ![c].clean = clean,
                                    ![c].pc = IF done THEN "count" ELSE "write"]
      /\ UNCHANGED <<last, outdated, misled>>

LEMMA WriteBufferCases ==
  ASSUME NEW c \in Chunks, WriteBuffer(c), NEW f, threads[c].file = f
  PROVE  /\ threads[c].pc = "write" /\ threads[c].next < Size
         /\ Fault \/ UNCHANGED faults
         /\ \/ Mismatch(c, f)
            \/ LeaveWith(c, "error") /\ UNCHANGED <<files, unfinished>>
            \/ \E right \in BOOLEAN : Written(c, f, right)
         /\ UNCHANGED <<phase, finished, saved, cacheChanged, wanted, exists,
                        chunksOf, broken, outdated, misled>>
<1> DEFINE k == files[f].known[c]
           done == k + 1 = Size
<1>1. PICK good \in BOOLEAN :
        LET right == good /\ threads[c].next = k
            clean == threads[c].clean /\ right
        IN  /\ Fault \/ UNCHANGED faults
            /\ \/ Mismatch(c, f)
               \/ LeaveWith(c, "error") /\ UNCHANGED <<files, unfinished>>
               \/ Written(c, f, right)
  BY DEF WriteBuffer, Mismatch, Written, history
<1>2. (good /\ threads[c].next = k) \in BOOLEAN
  OBVIOUS
<1> QED
  BY <1>1, <1>2 DEF WriteBuffer, history

LEMMA WriteBufferSound ==
  ASSUME SInv, NEW c \in Chunks, WriteBuffer(c)
  PROVE  SInv'
<1>1. PICK f \in DOMAIN files : threads[c].file = f /\ files[f] \in File
  BY ThreadAndFile DEF WriteBuffer
<1>2. threads[c] \in Thread(Len(files)) /\ threads[c].pc = "write"
  BY ThreadAndFile DEF WriteBuffer
<1>3. files[f].known[c] < Size /\ files[f].known[c] \in Nat
  BY <1>1, <1>2 DEF SInv, Sound, ThreadSound, File, Known
<1>4. CASE Mismatch(c, f)
  <2> DEFINE t == [threads[c] EXCEPT !.pc = "leave"]
  <2>1. /\ threads' = [threads EXCEPT ![c] = t]
        /\ t \in Thread(Len(files)) /\ t.pc = "leave" /\ t.file = f
    BY <1>1, <1>2, <1>4 DEF Mismatch, LeaveWith, Become, Thread
  <2> HIDE DEF t
  <2>2. 0 \in 0 .. Size
    BY ChunksFinite
  <2>3. /\ files' \in Seq(File) /\ Len(files') = Len(files)
        /\ DOMAIN files' = DOMAIN files
        /\ \A g \in DOMAIN files : g # f => files'[g] = files[g]
        /\ SameButKnown(files'[f], files[f])
        /\ files'[f].known = [files[f].known EXCEPT ![c] = 0]
    BY ZenonT(60), <1>4, <2>2, KnownOfOneFileChanged DEF SInv, Mismatch
  <2>4. /\ threads'[c] = t /\ \A d \in Chunks : d # c => threads'[d] = threads[d]
        /\ threads' \in [Chunks -> Thread(Len(files))]
    BY <2>1, OneThreadChanged DEF SInv
  <2>5. UNCHANGED <<phase, finished, saved, cacheChanged, wanted, exists,
                    chunksOf, broken, outdated, misled, unfinished>>
    BY <1>1, <1>4, WriteBufferCases DEF Mismatch
  <2>6. TypeOK'
    <3>1. faults' \in 0 .. MaxFaults
      BY <1>1, WriteBufferCases, FaultCounted DEF SInv
    <3>2. last' \in [Chunks -> {"ok", "error", "lost"}]
      BY <1>4 DEF SInv, TypeOK, Mismatch, LeaveWith
    <3> QED
      BY <2>3, <2>4, <2>5, <3>1, <3>2 DEF SInv, TypeOK
  <2>7. ~ files[f].complete /\ files[f].known # Full
    BY <1>3 DEF SInv, Sound, FileSound, Full
  <2>8. \A d \in Chunks : ThreadSound(d)'
    <3>1. ThreadSound(c)'
      BY <1>1, <2>1, <2>4, ThreadAndFile DEF ThreadSound, SInv, Sound
    <3>2. ASSUME NEW d \in Chunks \ {c}
          PROVE  ThreadSound(d)'
      <4>1. files'[f].known[d] = files[f].known[d]
        BY <1>1, <2>3 DEF File, Known
      <4> QED
        BY <2>3, <2>4, <2>7, <4>1, OtherThreadSound
    <3> QED
      BY <3>1, <3>2
  <2>9. \A g \in DOMAIN files : FileSound(g)'
    <3>1. \A g \in DOMAIN files : WritersOf(g)' = WritersOf(g)
      BY <1>1, <1>2, <2>1, SameWriters DEF SInv, Writing
    <3> QED
      BY <1>1, <2>1, <2>3, <2>4, <2>5, <2>7, <3>1 DEF SInv, Sound, FileSound, SameButKnown
  <2>10. LocksSound'
    BY <1>1, <2>1, <2>4 DEF SInv, Sound, LocksSound
  <2>11. PhaseSound'
    BY <1>1, <1>2, <2>1, <2>4, <2>5, ThreadAndFile DEF SInv, Sound, PhaseSound
  <2> QED
    BY <2>3, <2>6, <2>8, <2>9, <2>10, <2>11 DEF SInv, Sound
<1>5. CASE LeaveWith(c, "error") /\ UNCHANGED <<files, unfinished>>
  BY <1>1, <1>2, <1>5, LeavingSound, WriteBufferCases
<1>6. ASSUME NEW right \in BOOLEAN, Written(c, f, right)
      PROVE  SInv'
  <2> DEFINE k == files[f].known[c]
             t == [threads[c] EXCEPT !.next = @ + 1,
                     !.clean = threads[c].clean /\ right,
                     !.pc = IF k + 1 = Size THEN "count" ELSE "write"]
  <2>1. /\ threads' = [threads EXCEPT ![c] = t]
        /\ t \in Thread(Len(files)) /\ t.file = f
        /\ t.pc = (IF k + 1 = Size THEN "count" ELSE "write")
        /\ t.pc \in {"write", "count"}
    <3>1. threads[c].next + 1 \in 0 .. Size
      BY <1>1, <1>2, WriteBufferCases, ChunksFinite DEF Thread
    <3> QED
      BY <1>1, <1>2, <1>6, <3>1 DEF Written, Thread
  <2> HIDE DEF t
  <2>2. k + 1 \in 0 .. Size
    BY <1>3, ChunksFinite
  <2>3. /\ files' \in Seq(File) /\ Len(files') = Len(files)
        /\ DOMAIN files' = DOMAIN files
        /\ \A g \in DOMAIN files : g # f => files'[g] = files[g]
        /\ SameButKnown(files'[f], files[f])
        /\ files'[f].known = [files[f].known EXCEPT ![c] = k + 1]
    <3>1. files' = [files EXCEPT ![f].known[c] = k + 1]
      BY <1>6 DEF Written
    <3> HIDE DEF k
    <3> QED
      BY ZenonT(60), <2>2, <3>1, KnownOfOneFileChanged DEF SInv
  <2>4. /\ threads'[c] = t /\ \A d \in Chunks : d # c => threads'[d] = threads[d]
        /\ threads' \in [Chunks -> Thread(Len(files))]
    BY <2>1, OneThreadChanged DEF SInv
  <2>5. UNCHANGED <<phase, finished, saved, cacheChanged, wanted, exists,
                    chunksOf, broken, outdated, misled, last>>
    BY <1>1, <1>6, WriteBufferCases DEF Written
  <2>a. unfinished' \in DiskFile /\ unfinished'.exists = unfinished.exists
    <3>1. <<c, k>> \in Buffers
      BY <1>3, ChunksFinite DEF Buffers
    <3>2. unfinished.exists
      BY <1>6 DEF SInv, Sound, FileSound, Written
    <3>3. unfinished \in [exists : {TRUE}, right : SUBSET Buffers]
      BY <3>2, ExistingFile DEF SInv, TypeOK
    <3>4. CASE right
      <4>1. unfinished' = [unfinished EXCEPT !.right = @ \cup {<<c, k>>}]
        BY <1>6, <3>4 DEF Written
      <4> QED
        BY <3>1, <3>3, <4>1 DEF DiskFile
    <3>5. CASE ~ right
      <4>1. unfinished' = [unfinished EXCEPT !.right = @ \ {<<c, k>>}]
        BY <1>6, <3>5 DEF Written
      <4> QED
        BY <3>3, <4>1 DEF DiskFile
    <3> QED
      BY <3>4, <3>5
  <2>6. TypeOK'
    <3>1. faults' \in 0 .. MaxFaults
      BY <1>1, WriteBufferCases, FaultCounted DEF SInv
    <3> QED
      BY <2>3, <2>4, <2>5, <2>a, <3>1 DEF SInv, TypeOK
  <2>7. ~ files[f].complete /\ files[f].known # Full
    BY <1>3 DEF SInv, Sound, FileSound, Full
  <2>8. \A d \in Chunks : ThreadSound(d)'
    <3>1. ThreadSound(c)'
      <4>1. files'[f].known[c] = k + 1 /\ f # 0
        BY <1>1, <2>3, FilesFunction DEF SInv, File, Known
      <4> QED
        BY <1>3, <2>1, <2>2, <2>4, <4>1, ChunksFinite DEF ThreadSound
    <3>2. ASSUME NEW d \in Chunks \ {c}
          PROVE  ThreadSound(d)'
      <4>1. files'[f].known[d] = files[f].known[d]
        BY <1>1, <2>3 DEF File, Known
      <4> QED
        BY <2>3, <2>4, <2>7, <4>1, OtherThreadSound
    <3> QED
      BY <3>1, <3>2
  <2>9. \A g \in DOMAIN files : FileSound(g)'
    <3>1. \A g \in DOMAIN files : WritersOf(g)' = WritersOf(g)
      BY <1>1, <1>2, <2>1, SameWriters DEF SInv, Writing
    <3> QED
      BY <1>1, <2>1, <2>3, <2>4, <2>5, <2>7, <2>a, <3>1
      DEF SInv, Sound, FileSound, SameButKnown
  <2>10. LocksSound'
    BY <1>1, <2>1, <2>4 DEF SInv, Sound, LocksSound
  <2>11. PhaseSound'
    BY <1>1, <1>2, <2>1, <2>4, <2>5, ThreadAndFile DEF SInv, Sound, PhaseSound
  <2> QED
    BY <2>3, <2>6, <2>8, <2>9, <2>10, <2>11 DEF SInv, Sound
<1> QED
  BY <1>1, <1>4, <1>5, <1>6, WriteBufferCases

LEMMA ChunkCompleteSound ==
  ASSUME SInv, NEW c \in Chunks, ChunkComplete(c)
  PROVE  SInv'
<1>1. PICK f \in DOMAIN files : threads[c].file = f /\ files[f] \in File
  BY ThreadAndFile DEF ChunkComplete
<1>2. threads[c] \in Thread(Len(files)) /\ threads[c].pc = "count"
  BY ThreadAndFile DEF ChunkComplete
<1> DEFINE close == files[f].known = Full /\ ~ files[f].complete
           t == [threads[c] EXCEPT !.pc = IF close THEN "close" ELSE "leave"]
           e == [files[f] EXCEPT !.indexed = @ \cup {c}]
<1>3. /\ threads' = [threads EXCEPT ![c] = t]
      /\ t \in Thread(Len(files)) /\ t.file = f
      /\ t.pc = (IF close THEN "close" ELSE "leave")
      /\ t.pc \in {"close", "leave"}
  BY <1>1, <1>2 DEF ChunkComplete, Become, Thread
<1>4. files' = [files EXCEPT ![f] = e] /\ e \in File
  BY <1>1 DEF ChunkComplete, File
<1>5. /\ e.complete = files[f].complete /\ e.hashed = files[f].hashed
      /\ e.known = files[f].known /\ e.writers = files[f].writers
      /\ e.open = files[f].open
  BY <1>1 DEF File
<1> HIDE DEF t, e
<1>6. /\ files' \in Seq(File) /\ Len(files') = Len(files)
      /\ DOMAIN files' = DOMAIN files /\ files'[f] = e
      /\ \A g \in DOMAIN files : g # f => files'[g] = files[g]
  BY <1>4, OneFileChanged DEF SInv
<1>7. /\ threads'[c] = t /\ \A d \in Chunks : d # c => threads'[d] = threads[d]
      /\ threads' \in [Chunks -> Thread(Len(files))]
  BY <1>3, OneThreadChanged DEF SInv
<1>8. /\ UNCHANGED <<phase, unfinished, finished, saved, download, faults, history>>
      /\ cacheChanged' = TRUE /\ MutexFree(f)
  BY <1>1 DEF ChunkComplete, disk
<1>9. TypeOK'
  BY <1>6, <1>7, <1>8 DEF SInv, TypeOK, download, history
<1>10. ASSUME NEW d \in Chunks
       PROVE  ThreadSound(d)'
  <2>1. CASE d = c
    BY <1>1, <1>3, <1>5, <1>6, <1>7, <2>1, FilesFunction DEF ThreadSound, SInv
  <2>2. CASE d # c
    BY <1>5, <1>6, <1>7, <2>2, OtherThreadSound
  <2> QED
    BY <2>1, <2>2
<1>11. \A g \in DOMAIN files : FileSound(g)'
  <2>1. \A g \in DOMAIN files : WritersOf(g)' = WritersOf(g)
    BY ZenonT(60), <1>1, <1>2, <1>3, SameWriters DEF SInv, Writing
  <2>2. files[f].hashed
    BY <1>1 DEF SInv, Sound, FileSound
  <2>3. FileSound(f)'
    BY <1>1, <1>5, <1>6, <1>8, <2>1, <2>2 DEF SInv, Sound, FileSound
  <2>4. ASSUME NEW g \in DOMAIN files, g # f
        PROVE  FileSound(g)'
    BY <1>1, <1>3, <1>6, <1>7, <1>8, <2>1, <2>4 DEF SInv, Sound, FileSound, download
  <2> QED
    BY <2>3, <2>4
<1>12. LocksSound'
  BY <1>1, <1>3, <1>7, <1>8 DEF SInv, Sound, LocksSound, MutexFree, At
<1>13. PhaseSound'
  BY <1>1, <1>2, <1>3, <1>7, <1>8, ThreadAndFile DEF SInv, Sound, PhaseSound, download
<1> QED
  BY <1>6, <1>9, <1>10, <1>11, <1>12, <1>13 DEF SInv, Sound

LEMMA ReleaseHandlesSound ==
  ASSUME SInv, NEW c \in Chunks, ReleaseHandles(c)
  PROVE  SInv'
<1>1. PICK f \in DOMAIN files : threads[c].file = f /\ files[f] \in File
  BY ThreadAndFile DEF ReleaseHandles
<1>2. threads[c] \in Thread(Len(files)) /\ threads[c].pc = "close"
  BY ThreadAndFile DEF ReleaseHandles
<1> DEFINE t == [threads[c] EXCEPT !.pc = "release"]
<1>3. /\ threads' = [threads EXCEPT ![c] = t]
      /\ t \in Thread(Len(files)) /\ t.file = f /\ t.pc = "release"
  BY <1>1, <1>2 DEF ReleaseHandles, Become, Thread
<1> HIDE DEF t
<1>4. /\ threads'[c] = t /\ \A d \in Chunks : d # c => threads'[d] = threads[d]
      /\ threads' \in [Chunks -> Thread(Len(files))]
  BY <1>3, OneThreadChanged DEF SInv
<1>5. /\ UNCHANGED <<phase, unfinished, finished, saved, cacheChanged, files,
                     download, faults, history>>
      /\ LocksFree(f)
  BY <1>1 DEF ReleaseHandles, disk
<1>6. TypeOK'
  BY <1>4, <1>5 DEF SInv, TypeOK, download, history
<1>7. \A d \in Chunks : ThreadSound(d)'
  BY <1>1, <1>2, <1>3, <1>4, <1>5 DEF SInv, Sound, ThreadSound
<1>8. \A g \in DOMAIN files : FileSound(g)'
  <2>1. \A g \in DOMAIN files : WritersOf(g)' = WritersOf(g)
    BY <1>1, <1>2, <1>3, SameWriters DEF SInv, Writing
  <2> QED
    BY <1>1, <1>3, <1>4, <1>5, <2>1 DEF SInv, Sound, FileSound, download
<1>9. LocksSound'
  BY <1>1, <1>3, <1>4, <1>5 DEF SInv, Sound, LocksSound, LocksFree, At
<1>10. PhaseSound'
  BY <1>1, <1>2, <1>3, <1>4, <1>5, ThreadAndFile DEF SInv, Sound, PhaseSound, download
<1> QED
  BY <1>5, <1>6, <1>7, <1>8, <1>9, <1>10 DEF SInv, Sound

LEMMA DeleteWriterSound ==
  ASSUME SInv, NEW c \in Chunks, DeleteWriter(c)
  PROVE  SInv'
<1>1. PICK f \in DOMAIN files : threads[c].file = f /\ files[f] \in File
  BY ThreadAndFile DEF DeleteWriter
<1>2. threads[c] \in Thread(Len(files)) /\ threads[c].pc = "leave"
  BY ThreadAndFile DEF DeleteWriter
<1> DEFINE t == [threads[c] EXCEPT !.pc = "ended"]
           e == [files[f] EXCEPT !.writers = @ - 1,
                                 !.open = @ /\ files[f].writers # 1]
<1>3. /\ threads' = [threads EXCEPT ![c] = t]
      /\ t \in Thread(Len(files)) /\ t.file = f /\ t.pc = "ended"
  BY <1>1, <1>2 DEF DeleteWriter, Become, Thread
<1>4. /\ Cardinality(WritersOf(f)) \in Nat \ {0}
      /\ Cardinality(WritersOf(f)') = Cardinality(WritersOf(f)) - 1
      /\ files[f].writers >= Cardinality(WritersOf(f))
  <2> HIDE DEF t
  <2>1. /\ c \in WritersOf(f)
        /\ Cardinality(WritersOf(f)') = Cardinality(WritersOf(f)) - 1
    BY <1>1, <1>2, <1>3, WriterLeaves DEF SInv, Writing
  <2>2. Cardinality(WritersOf(f)) # 0
    BY <2>1, WritersFinite, FS_EmptySet
  <2> QED
    BY <2>1, <2>2, WritersFinite DEF SInv, Sound, FileSound
<1>5. files' = [files EXCEPT ![f] = e] /\ e \in File
  <2>1. files[f].writers - 1 \in Nat
    BY <1>1, <1>4 DEF File
  <2> QED
    BY <1>1, <2>1 DEF DeleteWriter, File
<1>6. /\ e.complete = files[f].complete /\ e.hashed = files[f].hashed
      /\ e.known = files[f].known /\ e.writers = files[f].writers - 1
      /\ e.indexed = files[f].indexed /\ (e.open => files[f].open)
  BY <1>1 DEF File
<1> HIDE DEF t, e
<1>7. /\ files' \in Seq(File) /\ Len(files') = Len(files)
      /\ DOMAIN files' = DOMAIN files /\ files'[f] = e
      /\ \A g \in DOMAIN files : g # f => files'[g] = files[g]
  BY <1>5, OneFileChanged DEF SInv
<1>8. /\ threads'[c] = t /\ \A d \in Chunks : d # c => threads'[d] = threads[d]
      /\ threads' \in [Chunks -> Thread(Len(files))]
  BY <1>3, OneThreadChanged DEF SInv
<1>9. UNCHANGED <<phase, unfinished, finished, saved, cacheChanged, download,
                  faults, history>>
  BY DEF DeleteWriter, disk
<1>10. TypeOK'
  BY <1>7, <1>8, <1>9 DEF SInv, TypeOK, download, history
<1>11. ASSUME NEW d \in Chunks
       PROVE  ThreadSound(d)'
  <2>1. CASE d = c
    BY <1>1, <1>3, <1>8, <2>1, FilesFunction DEF ThreadSound, SInv
  <2>2. CASE d # c
    BY <1>6, <1>7, <1>8, <2>2, OtherThreadSound
  <2> QED
    BY <2>1, <2>2
<1>12. ASSUME NEW g \in DOMAIN files
       PROVE  FileSound(g)'
  <2>1. CASE g = f
    <3>1. files'[f].writers >= Cardinality(WritersOf(f)')
      BY <1>1, <1>4, <1>6, <1>7 DEF File
    <3> QED
      BY <1>1, <1>3, <1>6, <1>7, <1>8, <1>9, <2>1, <3>1
      DEF SInv, Sound, FileSound, download
  <2>2. CASE g # f
    <3>1. WritersOf(g)' = WritersOf(g)
      BY <1>1, <1>3, <2>2, SameWriters DEF SInv
    <3> QED
      BY <1>1, <1>3, <1>7, <1>8, <1>9, <2>2, <3>1
      DEF SInv, Sound, FileSound, download
  <2> QED
    BY <2>1, <2>2
<1>13. LocksSound'
  BY <1>1, <1>3, <1>8 DEF SInv, Sound, LocksSound
<1>14. PhaseSound'
  BY <1>1, <1>2, <1>3, <1>8, <1>9, ThreadAndFile DEF SInv, Sound, PhaseSound, download
<1> QED
  BY <1>7, <1>10, <1>11, <1>12, <1>13, <1>14 DEF SInv, Sound

(* The first writer of a File whose unfinished file is not on the disk.    *)
Lost(f) == {d \in Chunks : files[f].known[d] # 0}

LEMMA NoWriterYet ==
  ASSUME SInv, NEW f \in DOMAIN files, FirstWriter(f)
  PROVE  WritersOf(f) = {} /\ Cardinality(WritersOf(f)) = 0
<1>1. Cardinality(WritersOf(f)) <= 0
  BY DEF SInv, Sound, FileSound, FirstWriter
<1> QED
  BY <1>1, WritersFinite, FS_EmptySet

(* What CreateWriter may do.                                               *)
WithWriter(e) == [e EXCEPT !.writers = @ + 1]
Opened(e) == [e EXCEPT !.writers = @ + 1, !.open = TRUE]
Emptied(e, lost) == [e EXCEPT !.writers = @ + 1, !.open = TRUE,
                              !.known = Zero, !.indexed = @ \ lost]
Joined(c, f) ==
  /\ ~ FirstWriter(f) \/ unfinished.exists
  /\ threads' = [threads EXCEPT ![c].pc = "write",
       ![c].clean = KnownBuffers(f, c) \subseteq unfinished.right]
  /\ files' = [files EXCEPT ![f] = IF FirstWriter(f) THEN Opened(files[f])
                                   ELSE WithWriter(files[f])]
  /\ UNCHANGED <<unfinished, cacheChanged, last, faults, outdated>>
Recreated(c, f) ==
  /\ FirstWriter(f) /\ ~ unfinished.exists
  /\ unfinished' = Zeros /\ outdated' = TRUE /\ cacheChanged' \in BOOLEAN
  /\ files' = [files EXCEPT ![f] = Emptied(files[f], Lost(f))]
  /\ \/ Lost(f) # {} /\ EndWith(c, "lost")
     \/ /\ Lost(f) = {}
        /\ threads' = [threads EXCEPT ![c].pc = "write", ![c].clean = TRUE]
        /\ UNCHANGED last
  /\ UNCHANGED faults
Refused(c, f) ==
  /\ Fault /\ FirstWriter(f) /\ EndWith(c, "error")
  /\ files' = [files EXCEPT ![f] = WithWriter(files[f])]
  /\ UNCHANGED <<unfinished, cacheChanged, outdated>>

LEMMA WithWriterIsFile ==
  ASSUME NEW e \in File
  PROVE  /\ WithWriter(e) \in File /\ Opened(e) \in File
         /\ WithWriter(e).complete = e.complete /\ Opened(e).complete = e.complete
         /\ WithWriter(e).hashed = e.hashed /\ Opened(e).hashed = e.hashed
         /\ WithWriter(e).known = e.known /\ Opened(e).known = e.known
         /\ WithWriter(e).writers = e.writers + 1
         /\ Opened(e).writers = e.writers + 1
         /\ WithWriter(e).indexed = e.indexed /\ Opened(e).indexed = e.indexed
         /\ WithWriter(e).open = e.open /\ Opened(e).open = TRUE
<1>1. e.writers + 1 \in Nat
  BY DEF File
<1>2. WithWriter(e) \in File /\ Opened(e) \in File
  BY <1>1 DEF WithWriter, Opened, File
<1> QED
  BY <1>2 DEF WithWriter, Opened, File

LEMMA EmptiedIsFile ==
  ASSUME NEW e \in File, NEW lost
  PROVE  /\ Emptied(e, lost) \in File
         /\ Emptied(e, lost).complete = e.complete
         /\ Emptied(e, lost).hashed = e.hashed
         /\ Emptied(e, lost).known = Zero
         /\ Emptied(e, lost).writers = e.writers + 1
         /\ Emptied(e, lost).indexed = e.indexed \ lost
         /\ Emptied(e, lost).open = TRUE
<1>1. e.indexed \ lost \in SUBSET Chunks /\ e.writers + 1 \in Nat /\ Zero \in Known
  BY NewFileIsFile DEF File
<1>2. Emptied(e, lost) \in File
  BY <1>1 DEF Emptied, File
<1> QED
  BY <1>2 DEF Emptied, File

LEMMA CreateWriterCases ==
  ASSUME SInv, NEW c \in Chunks, CreateWriter(c),
         NEW f \in DOMAIN files, threads[c].file = f
  PROVE  /\ threads[c].pc = "open" /\ LocksFree(f)
         /\ UNCHANGED <<phase, finished, saved, wanted, exists, chunksOf, broken, misled>>
         /\ Joined(c, f) \/ Recreated(c, f) \/ Refused(c, f)
<1> DEFINE counted == [files EXCEPT ![f].writers = @ + 1]
<1>1. files[f] \in File /\ files \in Seq(File) /\ DOMAIN files = 1 .. Len(files)
  BY FilesFunction DEF SInv, TypeOK
<1>2. /\ counted = [files EXCEPT ![f] = WithWriter(files[f])]
      /\ [counted EXCEPT ![f].open = TRUE] = [files EXCEPT ![f] = Opened(files[f])]
      /\ [counted EXCEPT ![f].open = TRUE, ![f].known = Zero, ![f].indexed = @ \ Lost(f)]
           = [files EXCEPT ![f] = Emptied(files[f], Lost(f))]
  BY <1>1 DEF File, WithWriter, Opened, Emptied
<1>3. cacheChanged \in BOOLEAN
  BY DEF SInv, TypeOK
<1>4. CASE /\ ~ FirstWriter(f) \/ unfinished.exists
           /\ threads' = [threads EXCEPT ![c].pc = "write",
                ![c].clean = KnownBuffers(f, c) \subseteq unfinished.right]
           /\ files' = IF FirstWriter(f)
                       THEN [counted EXCEPT ![f].open = TRUE] ELSE counted
           /\ UNCHANGED <<unfinished, cacheChanged, last, faults, outdated>>
  <2> HIDE DEF counted
  <2>1. Joined(c, f)
    BY <1>2, <1>4 DEF Joined
  <2> QED
    BY <2>1 DEF CreateWriter
<1>5. CASE /\ FirstWriter(f) /\ ~ unfinished.exists
           /\ unfinished' = Zeros /\ outdated' = TRUE
           /\ files' = [counted EXCEPT ![f].open = TRUE, ![f].known = Zero,
                          ![f].indexed = @ \ Lost(f)]
           /\ IF Lost(f) # {}
              THEN EndWith(c, "lost") /\ cacheChanged' = TRUE
              ELSE /\ threads' = [threads EXCEPT ![c].pc = "write", ![c].clean = TRUE]
                   /\ UNCHANGED <<cacheChanged, last>>
           /\ UNCHANGED faults
  <2> HIDE DEF counted
  <2>1. Recreated(c, f)
    BY <1>2, <1>3, <1>5 DEF Recreated
  <2> QED
    BY <2>1 DEF CreateWriter
<1>6. CASE /\ FirstWriter(f) /\ Fault
           /\ files' = counted /\ EndWith(c, "error")
           /\ UNCHANGED <<unfinished, cacheChanged, outdated>>
  <2> HIDE DEF counted
  <2>1. Refused(c, f)
    BY <1>2, <1>6 DEF Refused
  <2> QED
    BY <2>1 DEF CreateWriter
<1> QED
  BY <1>4, <1>5, <1>6 DEF CreateWriter, Lost

LEMMA JoinedSound ==
  ASSUME SInv, NEW c \in Chunks, NEW f \in DOMAIN files, threads[c].file = f,
         threads[c].pc = "open", Joined(c, f),
         UNCHANGED <<phase, finished, saved, wanted, exists, chunksOf, broken, misled>>
  PROVE  SInv'
<1>1. files[f] \in File /\ threads[c] \in Thread(Len(files)) /\ phase = "up"
  BY ThreadAndFile
<1> DEFINE held == KnownBuffers(f, c) \subseteq unfinished.right
           t == [threads[c] EXCEPT !.pc = "write", !.clean = held]
           e == IF FirstWriter(f) THEN Opened(files[f]) ELSE WithWriter(files[f])
<1>2. /\ threads' = [threads EXCEPT ![c] = t]
      /\ t \in Thread(Len(files)) /\ t.file = f /\ t.pc = "write"
  <2>1. held \in BOOLEAN
    OBVIOUS
  <2>2. threads' = [threads EXCEPT ![c].pc = "write", ![c].clean = held]
    BY DEF Joined
  <2> HIDE DEF held
  <2> QED
    BY <1>1, <2>1, <2>2 DEF Thread
<1>3. files' = [files EXCEPT ![f] = e] /\ e \in File
  BY <1>1, WithWriterIsFile DEF Joined
<1>4. /\ e.complete = files[f].complete /\ e.hashed = files[f].hashed
      /\ e.known = files[f].known /\ e.writers = files[f].writers + 1
      /\ e.indexed = files[f].indexed
      /\ (e.open => files[f].open \/ unfinished.exists)
  BY <1>1, WithWriterIsFile DEF Joined
<1> HIDE DEF t, e
<1>5. /\ files' \in Seq(File) /\ Len(files') = Len(files)
      /\ DOMAIN files' = DOMAIN files /\ files'[f] = e
      /\ \A g \in DOMAIN files : g # f => files'[g] = files[g]
  BY <1>3, OneFileChanged DEF SInv
<1>6. /\ threads'[c] = t /\ \A d \in Chunks : d # c => threads'[d] = threads[d]
      /\ threads' \in [Chunks -> Thread(Len(files))]
  BY <1>2, OneThreadChanged DEF SInv
<1>7. UNCHANGED <<unfinished, cacheChanged, last, faults, outdated>>
  BY DEF Joined
<1>8. TypeOK'
  BY <1>5, <1>6, <1>7 DEF SInv, TypeOK
<1>9. ASSUME NEW d \in Chunks
      PROVE  ThreadSound(d)'
  <2>1. CASE d = c
    BY <1>2, <1>4, <1>5, <1>6, <2>1, FilesFunction DEF ThreadSound, SInv, Sound
  <2>2. CASE d # c
    BY <1>4, <1>5, <1>6, <2>2, OtherThreadSound
  <2> QED
    BY <2>1, <2>2
<1>10. FileSound(f)'
  <2>1. Cardinality(WritersOf(f)') = Cardinality(WritersOf(f)) + 1
    BY <1>2, WriterJoins DEF SInv, Writing
  <2>2. files[f].hashed /\ files[f].writers >= Cardinality(WritersOf(f))
    BY DEF SInv, Sound, FileSound
  <2>3. files'[f].writers >= Cardinality(WritersOf(f)')
    BY <1>1, <1>4, <1>5, <2>1, <2>2, WritersFinite DEF File
  <2> QED
    BY <1>4, <1>5, <1>7, <2>2, <2>3 DEF SInv, Sound, FileSound
<1>11. ASSUME NEW g \in DOMAIN files, g # f
       PROVE  FileSound(g)'
  <2>1. WritersOf(g)' = WritersOf(g)
    BY <1>2, <1>11, SameWriters DEF SInv
  <2> QED
    BY <1>2, <1>5, <1>6, <1>7, <1>11, <2>1 DEF SInv, Sound, FileSound
<1>12. LocksSound'
  BY <1>2, <1>6 DEF SInv, Sound, LocksSound
<1>13. PhaseSound'
  BY <1>1, <1>2, <1>6 DEF SInv, Sound, PhaseSound
<1> QED
  BY <1>5, <1>8, <1>9, <1>10, <1>11, <1>12, <1>13 DEF SInv, Sound

LEMMA RecreatedSound ==
  ASSUME SInv, NEW c \in Chunks, NEW f \in DOMAIN files, threads[c].file = f,
         threads[c].pc = "open", Recreated(c, f),
         UNCHANGED <<phase, finished, saved, wanted, exists, chunksOf, broken, misled>>
  PROVE  SInv'
<1>1. files[f] \in File /\ threads[c] \in Thread(Len(files)) /\ phase = "up"
  BY ThreadAndFile
<1> DEFINE e == Emptied(files[f], Lost(f))
<1>2. PICK t \in Thread(Len(files)) :
        /\ threads' = [threads EXCEPT ![c] = t]
        /\ t.file = f /\ t.pc \in {"write", "ended"}
  <2>1. CASE EndWith(c, "lost")
    <3>1. /\ [threads[c] EXCEPT !.pc = "ended"] \in Thread(Len(files))
          /\ [threads[c] EXCEPT !.pc = "ended"].file = f
          /\ [threads[c] EXCEPT !.pc = "ended"].pc = "ended"
      BY <1>1 DEF Thread
    <3> QED
      BY <2>1, <3>1 DEF EndWith, Become
  <2>2. CASE threads' = [threads EXCEPT ![c].pc = "write", ![c].clean = TRUE]
    <3>1. /\ [threads[c] EXCEPT !.pc = "write", !.clean = TRUE] \in Thread(Len(files))
          /\ [threads[c] EXCEPT !.pc = "write", !.clean = TRUE].file = f
          /\ [threads[c] EXCEPT !.pc = "write", !.clean = TRUE].pc = "write"
      BY <1>1 DEF Thread
    <3> QED
      BY <2>2, <3>1
  <2> QED
    BY <2>1, <2>2 DEF Recreated
<1>3. files' = [files EXCEPT ![f] = e] /\ e \in File
  BY <1>1, EmptiedIsFile DEF Recreated
<1>4. /\ e.complete = files[f].complete /\ e.hashed = files[f].hashed
      /\ e.known = Zero /\ e.writers = 1 /\ e.indexed \subseteq files[f].indexed
  <2>1. files[f].writers = 0
    BY DEF Recreated, FirstWriter
  <2>2. /\ e.complete = files[f].complete /\ e.hashed = files[f].hashed
        /\ e.known = Zero /\ e.writers = files[f].writers + 1
        /\ e.indexed = files[f].indexed \ Lost(f)
    BY <1>1, EmptiedIsFile
  <2> QED
    BY <2>1, <2>2
<1> HIDE DEF e
<1>5. /\ files' \in Seq(File) /\ Len(files') = Len(files)
      /\ DOMAIN files' = DOMAIN files /\ files'[f] = e
      /\ \A g \in DOMAIN files : g # f => files'[g] = files[g]
  BY <1>3, OneFileChanged DEF SInv
<1>6. /\ threads'[c] = t /\ \A d \in Chunks : d # c => threads'[d] = threads[d]
      /\ threads' \in [Chunks -> Thread(Len(files))]
  BY <1>2, OneThreadChanged DEF SInv
<1>7. /\ unfinished' = Zeros /\ unfinished'.exists /\ Zeros \in DiskFile
      /\ outdated' = TRUE /\ cacheChanged' \in BOOLEAN /\ UNCHANGED faults
  BY DEF Recreated, Zeros, DiskFile
<1>8. TypeOK'
  <2>1. last' \in [Chunks -> {"ok", "error", "lost"}]
    BY DEF SInv, TypeOK, Recreated, EndWith
  <2> QED
    BY <1>5, <1>6, <1>7, <2>1 DEF SInv, TypeOK
<1>9. ~ files[f].complete /\ files[f].hashed
  <2>1. files[f].known[c] < Size
    BY DEF SInv, Sound, ThreadSound
  <2>2. Full[c] = Size
    BY DEF Full
  <2>3. files[f].known[c] \in Nat
    BY <1>1 DEF File, Known
  <2> QED
    BY <2>1, <2>2, <2>3, ChunksFinite DEF SInv, Sound, FileSound
<1>10. \A d \in Chunks : threads[d].file = f => threads[d].pc \notin Writing
  BY NoWriterYet DEF Recreated, WritersOf, Writing
<1>11. ASSUME NEW d \in Chunks
       PROVE  ThreadSound(d)'
  <2>1. CASE d = c
    BY <1>2, <1>4, <1>5, <1>6, <2>1, FilesFunction, ChunksFinite
    DEF ThreadSound, SInv, Sound, Zero
  <2>2. CASE d # c /\ threads[d].file # f
    BY <1>5, <1>6, <2>2, OtherThreadSound
  <2>3. CASE d # c /\ threads[d].file = f
    BY <1>4, <1>5, <1>6, <1>10, <2>3, ChunksFinite
    DEF ThreadSound, SInv, Sound, Zero, Writing
  <2> QED
    BY <2>1, <2>2, <2>3
<1>12. FileSound(f)'
  <2>1. Cardinality(WritersOf(f)') <= 1
    <3>1. CASE t.pc = "write"
      <4>1. Cardinality(WritersOf(f)') = Cardinality(WritersOf(f)) + 1
        BY <1>2, <3>1, WriterJoins DEF SInv, Writing
      <4> QED
        BY <4>1, NoWriterYet DEF Recreated
    <3>2. CASE t.pc = "ended"
      <4>1. WritersOf(f)' = WritersOf(f)
        BY <1>2, <3>2, SameWriters DEF SInv, Writing
      <4> QED
        BY <4>1, NoWriterYet DEF Recreated
    <3> QED
      BY <1>2, <3>1, <3>2
  <2>2. files'[f].writers >= Cardinality(WritersOf(f)')
    BY <1>4, <1>5, <2>1
  <2> QED
    BY <1>4, <1>5, <1>7, <1>9, <2>2 DEF FileSound
<1>13. ASSUME NEW g \in DOMAIN files, g # f
       PROVE  FileSound(g)'
  <2>1. WritersOf(g)' = WritersOf(g)
    BY <1>2, <1>13, SameWriters DEF SInv
  <2> QED
    BY <1>2, <1>5, <1>6, <1>7, <1>13, <2>1 DEF SInv, Sound, FileSound
<1>14. LocksSound'
  BY <1>2, <1>6 DEF SInv, Sound, LocksSound
<1>15. PhaseSound'
  BY <1>1, <1>2, <1>6 DEF SInv, Sound, PhaseSound
<1> QED
  BY <1>5, <1>8, <1>11, <1>12, <1>13, <1>14, <1>15 DEF SInv, Sound

LEMMA RefusedSound ==
  ASSUME SInv, NEW c \in Chunks, NEW f \in DOMAIN files, threads[c].file = f,
         threads[c].pc = "open", Refused(c, f),
         UNCHANGED <<phase, finished, saved, wanted, exists, chunksOf, broken, misled>>
  PROVE  SInv'
<1>1. files[f] \in File /\ threads[c] \in Thread(Len(files)) /\ phase = "up"
  BY ThreadAndFile
<1> DEFINE t == [threads[c] EXCEPT !.pc = "ended"]
           e == WithWriter(files[f])
<1>2. /\ threads' = [threads EXCEPT ![c] = t]
      /\ t \in Thread(Len(files)) /\ t.file = f /\ t.pc = "ended"
  BY <1>1 DEF Refused, EndWith, Become, Thread
<1>3. files' = [files EXCEPT ![f] = e] /\ e \in File
  BY <1>1 DEF Refused, File, WithWriter
<1>4. /\ e.complete = files[f].complete /\ e.hashed = files[f].hashed
      /\ e.known = files[f].known /\ e.writers = files[f].writers + 1
      /\ e.indexed = files[f].indexed /\ e.open = files[f].open
  BY <1>1 DEF File, WithWriter
<1> HIDE DEF t, e
<1>5. /\ files' \in Seq(File) /\ Len(files') = Len(files)
      /\ DOMAIN files' = DOMAIN files /\ files'[f] = e
      /\ \A g \in DOMAIN files : g # f => files'[g] = files[g]
  BY <1>3, OneFileChanged DEF SInv
<1>6. /\ threads'[c] = t /\ \A d \in Chunks : d # c => threads'[d] = threads[d]
      /\ threads' \in [Chunks -> Thread(Len(files))]
  BY <1>2, OneThreadChanged DEF SInv
<1>7. UNCHANGED <<unfinished, cacheChanged, outdated>>
  BY DEF Refused
<1>8. TypeOK'
  <2>1. last' \in [Chunks -> {"ok", "error", "lost"}]
    BY DEF SInv, TypeOK, Refused, EndWith
  <2>2. faults' \in 0 .. MaxFaults
    BY FaultCounted DEF SInv, Refused
  <2> QED
    BY <1>5, <1>6, <1>7, <2>1, <2>2 DEF SInv, TypeOK
<1>9. ASSUME NEW d \in Chunks
      PROVE  ThreadSound(d)'
  <2>1. CASE d = c
    BY <1>2, <1>4, <1>5, <1>6, <2>1, FilesFunction DEF ThreadSound, SInv, Sound
  <2>2. CASE d # c
    BY <1>4, <1>5, <1>6, <2>2, OtherThreadSound
  <2> QED
    BY <2>1, <2>2
<1>10. \A g \in DOMAIN files : WritersOf(g)' = WritersOf(g)
  BY <1>2, SameWriters DEF SInv, Writing
<1>11. FileSound(f)'
  <2>1. files'[f].writers >= Cardinality(WritersOf(f)')
    BY <1>1, <1>4, <1>5, <1>10, WritersFinite DEF File, SInv, Sound, FileSound
  <2> QED
    BY <1>4, <1>5, <1>7, <2>1 DEF SInv, Sound, FileSound
<1>12. ASSUME NEW g \in DOMAIN files, g # f
       PROVE  FileSound(g)'
  BY <1>2, <1>5, <1>6, <1>7, <1>10, <1>12 DEF SInv, Sound, FileSound
<1>13. LocksSound'
  BY <1>2, <1>6 DEF SInv, Sound, LocksSound
<1>14. PhaseSound'
  BY <1>1, <1>2, <1>6 DEF SInv, Sound, PhaseSound
<1> QED
  BY <1>5, <1>8, <1>9, <1>11, <1>12, <1>13, <1>14 DEF SInv, Sound

LEMMA CreateWriterSound ==
  ASSUME SInv, NEW c \in Chunks, CreateWriter(c)
  PROVE  SInv'
<1>1. PICK f \in DOMAIN files : threads[c].file = f
  BY ThreadAndFile DEF CreateWriter
<1> QED
  BY <1>1, CreateWriterCases, JoinedSound, RecreatedSound, RefusedSound

(* What RenameFile may do.                                                 *)
Shut(e) == [e EXCEPT !.open = FALSE]
Renamed(e) == [e EXCEPT !.open = FALSE, !.complete = TRUE]

LEMMA ShutIsFile ==
  ASSUME NEW e \in File
  PROVE  /\ Shut(e) \in File /\ Renamed(e) \in File
         /\ Shut(e).complete = e.complete /\ Renamed(e).complete = TRUE
         /\ Shut(e).hashed = e.hashed /\ Renamed(e).hashed = e.hashed
         /\ Shut(e).known = e.known /\ Renamed(e).known = e.known
         /\ Shut(e).writers = e.writers /\ Renamed(e).writers = e.writers
         /\ Shut(e).indexed = e.indexed /\ Renamed(e).indexed = e.indexed
         /\ Shut(e).open = FALSE /\ Renamed(e).open = FALSE
<1>1. Shut(e) \in File /\ Renamed(e) \in File
  BY DEF Shut, Renamed, File
<1> QED
  BY <1>1 DEF Shut, Renamed, File

LEMMA RenameFileFiles ==
  ASSUME SInv, NEW c \in Chunks, RenameFile(c), NEW f \in DOMAIN files, threads[c].file = f
  PROVE  /\ files' \in Seq(File) /\ Len(files') = Len(files)
         /\ DOMAIN files' = DOMAIN files
         /\ \A g \in DOMAIN files : g # f => files'[g] = Shut(files[g])
         /\ files'[f] = IF unfinished.exists THEN Renamed(files[f]) ELSE Shut(files[f])
<1>1. /\ DOMAIN files = 1 .. Len(files) /\ Len(files) \in Nat
      /\ \A g \in DOMAIN files : files[g] \in File
  BY FilesFunction DEF SInv
<1>2. Closed = [g \in DOMAIN files |-> Shut(files[g])]
  BY DEF Closed, Shut
<1>3. Closed \in Seq(File) /\ Len(Closed) = Len(files) /\ DOMAIN Closed = DOMAIN files
  <2>1. Closed \in [1 .. Len(files) -> File]
    BY <1>1, <1>2, ShutIsFile
  <2>2. Closed \in Seq(File)
    BY <1>1, <2>1, SeqDef
  <2> QED
    BY <1>1, <1>2, <2>2, LenProperties
<1>4. CASE unfinished.exists
  <2>1. files' = [Closed EXCEPT ![f] = Renamed(files[f])]
    <3>1. files' = [Closed EXCEPT ![f].complete = TRUE]
      BY <1>4 DEF RenameFile
    <3>2. [Closed[f] EXCEPT !.complete = TRUE] = Renamed(files[f])
      BY <1>1, <1>2, ShutIsFile DEF Renamed, Shut, File
    <3> QED
      BY <3>1, <3>2
  <2>2. Renamed(files[f]) \in File
    BY <1>1, ShutIsFile
  <2> QED
    BY <1>1, <1>2, <1>3, <1>4, <2>1, <2>2, ExceptSeq
<1>5. CASE ~ unfinished.exists
  BY <1>2, <1>3, <1>5 DEF RenameFile
<1> QED
  BY <1>4, <1>5

LEMMA RenameFileSound ==
  ASSUME SInv, NEW c \in Chunks, RenameFile(c)
  PROVE  SInv'
<1>1. PICK f \in DOMAIN files : threads[c].file = f /\ files[f] \in File
  BY ThreadAndFile DEF RenameFile
<1>2. /\ threads[c] \in Thread(Len(files)) /\ threads[c].pc = "release"
      /\ phase = "up" /\ MutexFree(f)
  BY <1>1, ThreadAndFile DEF RenameFile
<1> DEFINE t == [threads[c] EXCEPT !.pc = "leave"]
<1>3. /\ threads' = [threads EXCEPT ![c] = t]
      /\ t \in Thread(Len(files)) /\ t.file = f /\ t.pc = "leave"
  BY <1>1, <1>2 DEF RenameFile, Become, Thread
<1> HIDE DEF t
<1>4. /\ threads'[c] = t /\ \A d \in Chunks : d # c => threads'[d] = threads[d]
      /\ threads' \in [Chunks -> Thread(Len(files))]
  BY <1>3, OneThreadChanged DEF SInv
<1>5. /\ files' \in Seq(File) /\ Len(files') = Len(files)
      /\ DOMAIN files' = DOMAIN files
      /\ \A g \in DOMAIN files : g # f => files'[g] = Shut(files[g])
      /\ files'[f] = IF unfinished.exists THEN Renamed(files[f]) ELSE Shut(files[f])
  BY <1>1, RenameFileFiles
<1>6. \A g \in DOMAIN files :
        /\ files'[g].known = files[g].known /\ files'[g].hashed = files[g].hashed
        /\ files'[g].writers = files[g].writers
        /\ files'[g].indexed = files[g].indexed
        /\ files'[g].open = FALSE
        /\ g # f => files'[g].complete = files[g].complete
  <2> SUFFICES ASSUME NEW g \in DOMAIN files
               PROVE  /\ files'[g].known = files[g].known
                      /\ files'[g].hashed = files[g].hashed
                      /\ files'[g].writers = files[g].writers
                      /\ files'[g].indexed = files[g].indexed
                      /\ files'[g].open = FALSE
                      /\ g # f => files'[g].complete = files[g].complete
    OBVIOUS
  <2>1. files[g] \in File
    BY FilesFunction DEF SInv
  <2>2. CASE g = f
    <3>1. files'[g] = Renamed(files[g]) \/ files'[g] = Shut(files[g])
      BY <1>5, <2>2
    <3> DEFINE e == files[g]
    <3>2. /\ Shut(e).known = e.known /\ Shut(e).hashed = e.hashed
          /\ Shut(e).writers = e.writers
          /\ Shut(e).indexed = e.indexed /\ Shut(e).open = FALSE
      BY <2>1, ShutIsFile
    <3>3. /\ Renamed(e).known = e.known /\ Renamed(e).hashed = e.hashed
          /\ Renamed(e).writers = e.writers
          /\ Renamed(e).indexed = e.indexed /\ Renamed(e).open = FALSE
      BY <2>1, ShutIsFile
    <3> QED
      BY <2>2, <3>1, <3>2, <3>3
  <2>3. CASE g # f
    BY <1>5, <2>1, <2>3, ShutIsFile
  <2> QED
    BY <2>2, <2>3
<1>7. UNCHANGED <<phase, saved, cacheChanged, download, faults, history>>
  BY DEF RenameFile
<1>8. TypeOK'
  <2>1. unfinished' \in DiskFile /\ finished' \in DiskFile
    BY DEF SInv, TypeOK, RenameFile, disk, DiskFile
  <2> QED
    BY <1>4, <1>5, <1>7, <2>1 DEF SInv, TypeOK, download, history
<1>9. files[f].known = Full /\ ~ files[f].complete /\ files[f].hashed
  BY <1>1, <1>2 DEF SInv, Sound, ThreadSound, FileSound
<1>10. \A d \in Chunks : threads[d].file = f =>
         d = c \/ threads[d].pc \notin {"open", "write", "close", "release"}
  <2>1. \A d \in Chunks : files[f].known[d] = Size
    BY <1>9 DEF Full
  <2>2. ~ (Size < Size)
    BY ChunksFinite
  <2> QED
    BY <1>1, <1>2, <2>1, <2>2
    DEF SInv, Sound, ThreadSound, LocksSound, MutexFree, At
<1>11. ASSUME NEW d \in Chunks
       PROVE  ThreadSound(d)'
  <2>1. CASE d = c
    BY <1>1, <1>3, <1>4, <2>1, FilesFunction DEF ThreadSound, SInv
  <2>2. CASE d # c /\ threads[d].file # f
    BY <1>4, <1>6, <2>2, OtherThreadSound
  <2>3. CASE d # c /\ threads[d].file = f
    BY <1>4, <1>10, <2>3 DEF ThreadSound, SInv, Sound
  <2> QED
    BY <2>1, <2>2, <2>3
<1>12. ASSUME NEW g \in DOMAIN files
       PROVE  FileSound(g)'
  <2>1. WritersOf(g)' = WritersOf(g)
    BY <1>1, <1>2, <1>3, SameWriters DEF SInv, Writing
  <2>2. CASE g = f
    BY <1>6, <1>9, <2>1, <2>2 DEF SInv, Sound, FileSound
  <2>3. CASE g # f
    BY <1>1, <1>3, <1>4, <1>6, <1>7, <2>1, <2>3 DEF SInv, Sound, FileSound, download
  <2> QED
    BY <2>2, <2>3
<1>13. LocksSound'
  BY <1>3, <1>4 DEF SInv, Sound, LocksSound
<1>14. PhaseSound'
  BY <1>1, <1>2, <1>3, <1>4, <1>7 DEF SInv, Sound, PhaseSound, download
<1> QED
  BY <1>5, <1>8, <1>11, <1>12, <1>13, <1>14 DEF SInv, Sound

-----------------------------------------------------------------------------
(* The main thread.                                                        *)
LEMMA StartDownloadingSound ==
  ASSUME SInv, NEW c \in Chunks, StartDownloading(c)
  PROVE  SInv'
<1>1. /\ chunksOf \in DOMAIN files /\ phase = "up" /\ threads[c].pc = "idle"
      /\ files[chunksOf] \in File /\ files[chunksOf].hashed
      /\ files[chunksOf].known[c] \in 0 .. Size
      /\ files[chunksOf].known[c] < Size
  <2>1. /\ chunksOf \in DOMAIN files /\ chunksOf # 0 /\ files[chunksOf] \in File
    BY FilesFunction DEF SInv, Sound, TypeOK, PhaseSound, StartDownloading
  <2>2. files[chunksOf].known[c] \in 0 .. Size /\ files[chunksOf].known[c] # Size
    BY <2>1 DEF File, Known, StartDownloading, IsComplete
  <2>3. files[chunksOf].known[c] < Size
    BY <2>2, ChunksFinite
  <2> QED
    BY <2>1, <2>2, <2>3 DEF SInv, Sound, FileSound, StartDownloading, Downloading
<1> DEFINE t == [pc |-> "open", file |-> chunksOf,
                 next |-> files[chunksOf].known[c], clean |-> FALSE]
<1>2. /\ threads' = [threads EXCEPT ![c] = t]
      /\ t \in Thread(Len(files)) /\ t.file = chunksOf /\ t.pc = "open"
  BY <1>1, FilesFunction DEF StartDownloading, Thread, SInv
<1> HIDE DEF t
<1>3. /\ threads'[c] = t /\ \A d \in Chunks : d # c => threads'[d] = threads[d]
      /\ threads' \in [Chunks -> Thread(Len(files))]
  BY <1>2, OneThreadChanged DEF SInv
<1>4. UNCHANGED <<phase, unfinished, finished, saved, cacheChanged, files, wanted,
                  exists, chunksOf, broken, faults, outdated, misled>>
  BY DEF StartDownloading, disk, history
<1>5. TypeOK'
  <2>1. last' \in [Chunks -> {"ok", "error", "lost"}]
    BY DEF SInv, TypeOK, StartDownloading
  <2> QED
    BY <1>3, <1>4, <2>1 DEF SInv, TypeOK
<1>6. ASSUME NEW d \in Chunks
      PROVE  ThreadSound(d)'
  <2>1. CASE d = c
    BY <1>1, <1>2, <1>3, <1>4, <2>1, FilesFunction DEF ThreadSound, SInv
  <2>2. CASE d # c
    BY <1>3, <1>4, <2>2, OtherThreadSound
  <2> QED
    BY <2>1, <2>2
<1>7. \A g \in DOMAIN files : FileSound(g)'
  <2>1. \A g \in DOMAIN files : WritersOf(g)' = WritersOf(g)
    BY <1>1, <1>2, SameWriters DEF SInv, Writing
  <2> QED
    BY <1>1, <1>2, <1>3, <1>4, <2>1 DEF SInv, Sound, FileSound
<1>8. LocksSound'
  BY <1>2, <1>3 DEF SInv, Sound, LocksSound
<1>9. PhaseSound'
  BY <1>1, <1>3, <1>4 DEF SInv, Sound, PhaseSound
<1> QED
  BY <1>4, <1>5, <1>6, <1>7, <1>8, <1>9 DEF SInv, Sound

(* What updateStatus leaves of the download.                               *)
LEMMA UpdateStatusEffect ==
  ASSUME TypeOK, NEW busy \in SUBSET Chunks, UpdateStatus(busy)
  PROVE  /\ last' \in [Chunks -> {"ok", "error", "lost"}]
         /\ broken' \in BOOLEAN
         /\ UNCHANGED <<exists, chunksOf>> \/ (exists' = FALSE /\ chunksOf' = 0)
<1> DEFINE stops == busy \cup {c \in Chunks : last[c] = "lost"}
           read == {c \in Chunks : \A s \in stops : c < s}
           failed == {c \in read : last[c] = "error"}
           waiting == {c \in read \ failed : ~ IsComplete(chunksOf, c)}
           cleared == [c \in Chunks |-> IF c \in failed THEN "ok" ELSE last[c]]
           first == CHOOSE s \in stops : \A d \in stops : s <= d
           late == \E e \in failed : waiting # {} => \E w \in waiting : w < e
<1>1. last \in [Chunks -> {"ok", "error", "lost"}]
  BY DEF TypeOK
<1>2. cleared \in [Chunks -> {"ok", "error", "lost"}]
  <2> HIDE DEF failed
  <2> QED BY <1>1
<1>3. late \in BOOLEAN
  OBVIOUS
<1>4. \/ last' = cleared /\ broken' = late /\ UNCHANGED <<exists, chunksOf>>
      \/ last' = cleared /\ broken' = FALSE /\ UNCHANGED <<exists, chunksOf>>
      \/ /\ last' = [cleared EXCEPT ![first] = "ok"]
         /\ broken' = TRUE /\ exists' = FALSE /\ chunksOf' = 0
  BY DEF UpdateStatus
<1> HIDE DEF cleared, late, first
<1>5. [cleared EXCEPT ![first] = "ok"] \in [Chunks -> {"ok", "error", "lost"}]
  BY <1>2
<1>6. last' = cleared \/ last' = [cleared EXCEPT ![first] = "ok"]
  BY <1>4
<1>7. last' \in [Chunks -> {"ok", "error", "lost"}]
  BY <1>2, <1>5, <1>6
<1>8. broken' = late \/ broken' = TRUE \/ broken' = FALSE
  BY <1>4
<1>9. broken' \in BOOLEAN
  BY <1>3, <1>8
<1>10. (exists' = exists /\ chunksOf' = chunksOf) \/ (exists' = FALSE /\ chunksOf' = 0)
  BY <1>4
<1> QED
  BY <1>7, <1>9, <1>10

LEMMA FinishedSound ==
  ASSUME SInv, NEW c \in Chunks, Finished(c)
  PROVE  SInv'
<1>1. PICK f \in DOMAIN files : threads[c].file = f /\ files[f] \in File
  BY ThreadAndFile DEF Finished
<1>2. Resting \in Thread(Len(files)) /\ Resting.pc = "idle" /\ Resting.file = 0
  BY FilesFunction, ChunksFinite DEF Resting, Thread, SInv
<1>3. threads' = [threads EXCEPT ![c] = Resting] /\ threads[c].pc = "ended"
  BY DEF Finished
<1>4. /\ threads'[c] = Resting /\ \A d \in Chunks : d # c => threads'[d] = threads[d]
      /\ threads' \in [Chunks -> Thread(Len(files))]
  BY <1>2, <1>3, OneThreadChanged DEF SInv
<1>5. UNCHANGED <<phase, unfinished, finished, saved, cacheChanged, files, wanted,
                  faults, outdated, misled>>
  BY DEF Finished, disk, history
<1>6. /\ last' \in [Chunks -> {"ok", "error", "lost"}]
      /\ broken' \in BOOLEAN
      /\ UNCHANGED <<exists, chunksOf>> \/ (exists' = FALSE /\ chunksOf' = 0)
  <2>1. {d \in Chunks \ {c} : Downloading(d)} \in SUBSET Chunks
    OBVIOUS
  <2>2. UpdateStatus({d \in Chunks \ {c} : Downloading(d)})
    BY DEF Finished
  <2> QED
    BY <2>1, <2>2, UpdateStatusEffect DEF SInv
<1>7. TypeOK'
  <2>1. chunksOf' \in 0 .. Len(files) /\ exists' \in BOOLEAN
    <3>1. 0 \in 0 .. Len(files) /\ chunksOf \in 0 .. Len(files) /\ exists \in BOOLEAN
      BY FilesFunction DEF SInv, TypeOK
    <3> QED
      BY <1>6, <3>1
  <2> QED
    BY <1>4, <1>5, <1>6, <2>1 DEF SInv, TypeOK
<1>8. ASSUME NEW d \in Chunks
      PROVE  ThreadSound(d)'
  <2>1. CASE d = c
    BY <1>2, <1>4, <2>1 DEF ThreadSound
  <2>2. CASE d # c
    BY <1>4, <1>5, <2>2, OtherThreadSound
  <2> QED
    BY <2>1, <2>2
<1>9. \A g \in DOMAIN files : FileSound(g)'
  <2>1. \A g \in DOMAIN files : WritersOf(g)' = WritersOf(g)
    BY <1>2, <1>3, SameWriters DEF SInv, Writing
  <2>2. \A g \in DOMAIN files : g # 0
    BY FilesFunction DEF SInv
  <2> QED
    BY <1>2, <1>4, <1>5, <1>6, <2>1, <2>2 DEF SInv, Sound, FileSound
<1>10. LocksSound'
  BY <1>2, <1>4 DEF SInv, Sound, LocksSound
<1>11. PhaseSound'
  BY <1>2, <1>4, <1>5, <1>6 DEF SInv, Sound, PhaseSound
<1> QED
  BY <1>5, <1>7, <1>8, <1>9, <1>10, <1>11 DEF SInv, Sound

(* The File of the chunks once they are linked.                            *)
LEMMA LinkEffect ==
  ASSUME SInv, LinkToAnExistingFile
  PROVE  /\ exists' \in BOOLEAN
         /\ \/ exists' = FALSE /\ UNCHANGED chunksOf
            \/ /\ exists' = TRUE /\ chunksOf' \in DOMAIN files
               /\ files[chunksOf'].hashed /\ files[chunksOf'].indexed # {}
<1>1. ASSUME NEW f \in Linkable
      PROVE  f \in DOMAIN files /\ files[f].indexed # {}
  BY DEF Linkable, Indexed
<1>2. ASSUME NEW f \in Linkable
      PROVE  files[f].hashed
  BY <1>1 DEF SInv, Sound, FileSound
<1> QED
  BY <1>1, <1>2 DEF LinkToAnExistingFile

(* The chunks are linked, or not, and nothing else changes but the phase.  *)
LEMMA LinkingSound ==
  ASSUME SInv, LinkToAnExistingFile \/ UNCHANGED <<exists, chunksOf>>,
         phase' = "up", phase \in {"restore", "up"},
         wanted' \in BOOLEAN, broken' \in BOOLEAN,
         UNCHANGED <<unfinished, finished, saved, cacheChanged, files, last,
                     threads, faults, outdated, misled>>
  PROVE  SInv'
<1>1. /\ exists' \in BOOLEAN
      /\ \/ UNCHANGED <<exists, chunksOf>>
         \/ exists' = FALSE /\ UNCHANGED chunksOf
         \/ /\ exists' = TRUE /\ chunksOf' \in DOMAIN files
            /\ files[chunksOf'].hashed
  BY LinkEffect DEF SInv, TypeOK
<1>2. DOMAIN files = 1 .. Len(files) /\ Len(files) \in Nat
  BY FilesFunction DEF SInv
<1>3. TypeOK'
  BY <1>1, <1>2 DEF SInv, TypeOK
<1>4. \A d \in Chunks : ThreadSound(d)'
  BY DEF SInv, Sound, ThreadSound
<1>5. \A g \in DOMAIN files : FileSound(g)'
  <2>1. \A g \in DOMAIN files : WritersOf(g)' = WritersOf(g)
    BY DEF WritersOf
  <2> QED
    BY <1>1, <2>1 DEF SInv, Sound, FileSound
<1>6. LocksSound'
  BY DEF SInv, Sound, LocksSound
<1>7. PhaseSound'
  BY <1>1, <1>2 DEF SInv, Sound, PhaseSound
<1> QED
  BY <1>3, <1>4, <1>5, <1>6, <1>7 DEF SInv, Sound

LEMMA StartSound ==
  ASSUME SInv, RestartErroneous \/ AddDownload \/ LoadQueue
  PROVE  SInv'
<1>1. broken \in BOOLEAN /\ wanted \in BOOLEAN
  BY DEF SInv, TypeOK
<1>2. CASE RestartErroneous
  BY <1>1, <1>2, LinkingSound DEF RestartErroneous, disk, history
<1>3. CASE AddDownload /\ phase = "up"
  BY <1>1, <1>3, LinkingSound DEF AddDownload, disk, history
<1>4. CASE LoadQueue
  BY <1>1, <1>4, LinkingSound DEF LoadQueue, disk, history
<1> QED
  BY <1>2, <1>3, <1>4 DEF AddDownload

(* A new or emptied File, on which no thread works, is linked.             *)
LEMMA CreatedSound ==
  ASSUME SInv, phase = "up",
         NEW n \in DOMAIN files',
         files' \in Seq(File), DOMAIN files \subseteq DOMAIN files',
         \A g \in DOMAIN files' : g # n => g \in DOMAIN files /\ files'[g] = files[g],
         files'[n] = NewFile,
         \A c \in Chunks : threads[c].file # n,
         unfinished' = Zeros, outdated' = TRUE, cacheChanged' \in BOOLEAN,
         exists' = TRUE, chunksOf' = n, misled' \in BOOLEAN,
         UNCHANGED <<phase, finished, saved, wanted, broken, last, threads, faults>>
  PROVE  SInv'
<1>1. /\ DOMAIN files' = 1 .. Len(files') /\ Len(files') \in Nat
      /\ DOMAIN files = 1 .. Len(files) /\ Len(files) \in Nat
  BY FilesFunction, LenProperties DEF SInv
<1>2. 0 .. Len(files) \subseteq 0 .. Len(files')
  <2>1. Len(files) <= Len(files')
    <3>1. CASE Len(files) = 0
      BY <1>1, <3>1
    <3>2. CASE Len(files) # 0
      <4>1. Len(files) \in DOMAIN files
        BY <1>1, <3>2
      <4> QED
        BY <1>1, <4>1
    <3> QED
      BY <3>1, <3>2
  <2> QED
    BY <1>1, <2>1
<1>3. Zeros \in DiskFile /\ Zeros.exists
  BY DEF Zeros, DiskFile
<1>4. TypeOK'
  <2>1. \A c \in Chunks : threads[c] \in Thread(Len(files'))
    BY <1>2 DEF SInv, TypeOK, Thread
  <2>2. threads \in [Chunks -> Thread(Len(files'))]
    BY <2>1 DEF SInv, TypeOK
  <2>3. chunksOf' \in 0 .. Len(files')
    BY <1>1
  <2> QED
    BY <1>3, <2>2, <2>3 DEF SInv, TypeOK
<1>5. ASSUME NEW d \in Chunks
      PROVE  ThreadSound(d)'
  <2>1. CASE threads[d].pc = "idle"
    BY <2>1 DEF SInv, Sound, ThreadSound
  <2>2. CASE threads[d].pc # "idle"
    <3>1. threads[d].file \in DOMAIN files
      BY <2>2, ThreadAndFile
    <3> QED
      BY <3>1 DEF SInv, Sound, ThreadSound
  <2> QED
    BY <2>1, <2>2
<1>6. \A g \in DOMAIN files' : WritersOf(g)' = WritersOf(g)
  BY DEF WritersOf
<1>7. FileSound(n)'
  <2>1. WritersOf(n) = {} /\ Cardinality(WritersOf(n)) = 0
    BY FS_EmptySet DEF WritersOf
  <2>2. Cardinality(WritersOf(n)') = 0
    BY <1>6, <2>1
  <2>3. /\ NewFile.complete = FALSE /\ NewFile.hashed = TRUE
        /\ NewFile.open = FALSE /\ NewFile.writers = 0
    BY DEF NewFile
  <2> QED
    BY <2>2, <2>3 DEF FileSound
<1>8. ASSUME NEW g \in DOMAIN files', g # n
      PROVE  FileSound(g)'
  BY <1>3, <1>6, <1>8 DEF SInv, Sound, FileSound
<1>9. LocksSound'
  BY DEF SInv, Sound, LocksSound
<1>10. PhaseSound'
  BY <1>1 DEF SInv, Sound, PhaseSound
<1> QED
  BY <1>4, <1>5, <1>7, <1>8, <1>9, <1>10 DEF SInv, Sound

(* What CreateFile may do.                                                 *)
LinkedTo(f) ==
  /\ f \in DOMAIN files /\ files[f].complete /\ files[f].hashed /\ chunksOf' = f
  /\ UNCHANGED <<files, unfinished, cacheChanged, outdated>>
EmptiedAs(f) ==
  /\ f \in DOMAIN files /\ files[f].complete /\ ~ files[f].hashed /\ chunksOf' = f
  /\ files' = [files EXCEPT ![f] = NewFile]
  /\ unfinished' = Zeros /\ outdated' = TRUE /\ cacheChanged' = TRUE
Appended ==
  /\ files' = Append(files, NewFile) /\ chunksOf' = Len(files) + 1
  /\ unfinished' = Zeros /\ outdated' = TRUE /\ UNCHANGED cacheChanged

LEMMA CreateFileCases ==
  ASSUME SInv, CreateFile
  PROVE  /\ phase = "up" /\ exists' = TRUE /\ misled' \in BOOLEAN
         /\ UNCHANGED <<phase, finished, saved, wanted, broken, last, threads, faults>>
         /\ (\E f \in DOMAIN files : LinkedTo(f) \/ EmptiedAs(f)) \/ Appended
<1> DEFINE used == \E c \in Chunks : Downloading(c) \/ Indexed(c) # {}
<1>1. misled' \in BOOLEAN
  <2>1. misled' = (misled \/ (files' # files /\ used))
    BY DEF CreateFile
  <2> HIDE DEF used
  <2> QED
    BY <2>1
<1>2. \/ \E f \in Named :
           /\ chunksOf' = f
           /\ IF files[f].hashed
              THEN UNCHANGED <<files, unfinished, cacheChanged, outdated>>
              ELSE /\ files' = [files EXCEPT ![f] = NewFile]
                   /\ unfinished' = Zeros /\ outdated' = TRUE
                   /\ cacheChanged' = TRUE
      \/ Appended
  BY DEF CreateFile, Appended
<1>3. (\E f \in DOMAIN files : LinkedTo(f) \/ EmptiedAs(f)) \/ Appended
  <2>1. CASE Appended
    BY <2>1
  <2>2. CASE ~ Appended
    <3>1. PICK f \in Named :
            /\ chunksOf' = f
            /\ IF files[f].hashed
               THEN UNCHANGED <<files, unfinished, cacheChanged, outdated>>
               ELSE /\ files' = [files EXCEPT ![f] = NewFile]
                    /\ unfinished' = Zeros /\ outdated' = TRUE
                    /\ cacheChanged' = TRUE
      BY <1>2, <2>2
    <3>2. f \in DOMAIN files /\ files[f].complete
      BY <3>1 DEF Named
    <3>3. LinkedTo(f) \/ EmptiedAs(f)
      BY <3>1, <3>2 DEF LinkedTo, EmptiedAs
    <3> QED
      BY <3>2, <3>3
  <2> QED
    BY <2>1, <2>2
<1> QED
  BY <1>1, <1>3 DEF CreateFile

LEMMA CreateFileSound ==
  ASSUME SInv, CreateFile
  PROVE  SInv'
<1>1. /\ phase = "up" /\ exists' = TRUE /\ misled' \in BOOLEAN
      /\ UNCHANGED <<phase, finished, saved, wanted, broken, last, threads, faults>>
      /\ (\E f \in DOMAIN files : LinkedTo(f) \/ EmptiedAs(f)) \/ Appended
  BY CreateFileCases
<1>2. /\ DOMAIN files = 1 .. Len(files) /\ Len(files) \in Nat /\ files \in Seq(File)
      /\ NewFile \in File
  BY FilesFunction, NewFileIsFile DEF SInv, TypeOK
<1>3. ASSUME NEW f \in DOMAIN files, LinkedTo(f)
      PROVE  SInv'
  <2>1. UNCHANGED <<files, unfinished, cacheChanged, outdated>> /\ chunksOf' = f
        /\ files[f].hashed
    BY <1>3 DEF LinkedTo
  <2>2. TypeOK'
    BY <1>1, <1>2, <2>1 DEF SInv, TypeOK
  <2>3. \A d \in Chunks : ThreadSound(d)'
    BY <1>1, <2>1 DEF SInv, Sound, ThreadSound
  <2>4. \A g \in DOMAIN files : WritersOf(g)' = WritersOf(g)
    BY <1>1 DEF WritersOf
  <2>5. \A g \in DOMAIN files : FileSound(g)'
    BY <1>1, <2>1, <2>4 DEF SInv, Sound, FileSound
  <2>6. LocksSound' /\ PhaseSound'
    BY <1>1, <1>2, <2>1 DEF SInv, Sound, LocksSound, PhaseSound
  <2> QED
    BY <2>1, <2>2, <2>3, <2>5, <2>6 DEF SInv, Sound
<1>4. ASSUME NEW f \in DOMAIN files, EmptiedAs(f)
      PROVE  SInv'
  <2>1. /\ files' \in Seq(File) /\ DOMAIN files' = DOMAIN files /\ files'[f] = NewFile
        /\ \A g \in DOMAIN files : g # f => files'[g] = files[g]
    BY <1>2, <1>4, OneFileChanged DEF EmptiedAs, SInv
  <2>2. \A c \in Chunks : threads[c].file # f
    BY <1>4 DEF EmptiedAs, SInv, Sound, FileSound
  <2>3. unfinished' = Zeros /\ outdated' = TRUE /\ cacheChanged' \in BOOLEAN /\ chunksOf' = f
    BY <1>4 DEF EmptiedAs
  <2> QED
    BY <1>1, <2>1, <2>2, <2>3, CreatedSound
<1>5. CASE Appended
  <2> DEFINE n == Len(files) + 1
  <2>1. /\ files' \in Seq(File) /\ DOMAIN files' = 1 .. n /\ files'[n] = NewFile
        /\ \A g \in 1 .. Len(files) : files'[g] = files[g]
    BY <1>2, <1>5, AppendProperties DEF Appended
  <2>2. \A c \in Chunks : threads[c].file # n
    BY <1>2 DEF SInv, TypeOK, Thread
  <2>3. /\ unfinished' = Zeros /\ outdated' = TRUE /\ cacheChanged' \in BOOLEAN
        /\ chunksOf' = n
    BY <1>5 DEF Appended, SInv, TypeOK
  <2>4. /\ n \in DOMAIN files' /\ DOMAIN files \subseteq DOMAIN files'
        /\ \A g \in DOMAIN files' : g # n => g \in DOMAIN files /\ files'[g] = files[g]
    BY <1>2, <2>1
  <2> HIDE DEF n
  <2> QED
    BY <1>1, <2>1, <2>2, <2>3, <2>4, CreatedSound
<1> QED
  BY <1>1, <1>3, <1>4, <1>5

-----------------------------------------------------------------------------
(* The updater and the end of the program.                                 *)
LEMMA ComputeHashesSound ==
  ASSUME SInv, NEW f \in DOMAIN files, ComputeHashes(f)
  PROVE  SInv'
<1> DEFINE e == [files[f] EXCEPT !.hashed = TRUE, !.indexed = Chunks]
<1>1. files[f] \in File /\ files[f].complete
  BY FilesFunction DEF SInv, ComputeHashes
<1>2. /\ e \in File /\ e.complete = files[f].complete /\ e.hashed
      /\ e.known = files[f].known /\ e.writers = files[f].writers
      /\ e.open = files[f].open
  <2>1. Chunks \in SUBSET Chunks
    OBVIOUS
  <2>2. e \in File
    BY <1>1, <2>1 DEF File
  <2> QED
    BY <1>1, <2>2 DEF File
<1>3. files' = [files EXCEPT ![f] = e]
  BY DEF ComputeHashes
<1> HIDE DEF e
<1>4. /\ files' \in Seq(File) /\ Len(files') = Len(files)
      /\ DOMAIN files' = DOMAIN files /\ files'[f] = e
      /\ \A g \in DOMAIN files : g # f => files'[g] = files[g]
  BY <1>2, <1>3, OneFileChanged DEF SInv
<1>5. /\ UNCHANGED <<phase, unfinished, finished, saved, wanted, exists, chunksOf,
                     broken, last, threads, faults, outdated, misled>>
      /\ cacheChanged' = TRUE
  BY DEF ComputeHashes, disk, download, history
<1>6. TypeOK'
  BY <1>4, <1>5 DEF SInv, TypeOK
<1>7. \A d \in Chunks : ThreadSound(d)'
  <2>1. \A g \in DOMAIN files : /\ files'[g].known = files[g].known
                                /\ files'[g].complete = files[g].complete
    BY <1>2, <1>4
  <2> QED
    BY <1>5, <2>1, OtherThreadSound
<1>8. \A g \in DOMAIN files : WritersOf(g)' = WritersOf(g)
  BY <1>5 DEF WritersOf
<1>9. FileSound(f)'
  BY <1>1, <1>2, <1>4, <1>5, <1>8 DEF SInv, Sound, FileSound
<1>10. ASSUME NEW g \in DOMAIN files, g # f
       PROVE  FileSound(g)'
  BY <1>4, <1>5, <1>8, <1>10 DEF SInv, Sound, FileSound
<1>11. LocksSound' /\ PhaseSound'
  BY <1>1, <1>4, <1>5 DEF SInv, Sound, LocksSound, PhaseSound
<1> QED
  BY <1>4, <1>6, <1>7, <1>9, <1>10, <1>11 DEF SInv, Sound

(* What is saved has its type.                                             *)
LEMMA SaveEntriesType ==
  ASSUME TypeOK, SaveEntries
  PROVE  saved' \in [complete : BOOLEAN, unfinished : BOOLEAN, known : Known]
<1> DEFINE any == \E f \in DOMAIN files : files[f].hashed /\ files[f].complete
<1>1. any \in BOOLEAN
  OBVIOUS
<1>2. \A b \in BOOLEAN : \A k : Entries(b, k) = [complete |-> any, unfinished |-> b, known |-> k]
  BY DEF Entries
<1>3. \A f \in Unfinished : files[f].known \in Known
  BY FilesFunction DEF Unfinished, File
<1>4. \E b \in BOOLEAN, k \in Known : saved' = Entries(b, k)
  BY <1>3, NewFileIsFile DEF SaveEntries
<1> HIDE DEF any
<1> QED
  BY <1>1, <1>2, <1>4

(* The state of the Files, of the download and of the threads stays.       *)
LEMMA FilesStaySound ==
  ASSUME SInv, NEW p, p = phase', p # "up" => phase # "up",
         p \in {"off", "scan"} => files = <<>>,
         UNCHANGED <<unfinished, files, exists, chunksOf, threads>>
  PROVE  Sound'
<1>1. \A d \in Chunks : ThreadSound(d)'
  BY DEF SInv, Sound, ThreadSound
<1>2. \A g \in DOMAIN files : WritersOf(g)' = WritersOf(g)
  BY DEF WritersOf
<1>3. \A g \in DOMAIN files : FileSound(g)'
  BY <1>2 DEF SInv, Sound, FileSound
<1>4. LocksSound' /\ PhaseSound'
  BY DEF SInv, Sound, LocksSound, PhaseSound
<1> QED
  BY <1>1, <1>3, <1>4 DEF Sound

LEMMA PersistCacheSound ==
  ASSUME SInv, PersistCache
  PROVE  SInv'
<1>1. /\ UNCHANGED <<phase, unfinished, finished, files, wanted, exists, chunksOf,
                     broken, last, threads, faults, misled>>
      /\ phase = "up" /\ SaveEntries /\ cacheChanged' = FALSE /\ outdated' = FALSE
  BY DEF PersistCache, disk, download
<1>2. TypeOK'
  BY <1>1, SaveEntriesType DEF SInv, TypeOK
<1>3. Sound'
  BY <1>1, FilesStaySound
<1> QED
  BY <1>2, <1>3 DEF SInv

LEMMA BootSound ==
  ASSUME SInv, Boot
  PROVE  SInv'
<1>1. /\ UNCHANGED <<unfinished, finished, saved, cacheChanged, files, wanted, exists,
                     chunksOf, broken, last, threads, faults, outdated, misled>>
      /\ phase = "off" /\ phase' = "scan"
  BY DEF Boot, disk, download, history
<1>2. TypeOK'
  BY <1>1 DEF SInv, TypeOK
<1>3. Sound'
  <2>1. files = <<>>
    BY <1>1 DEF SInv, Sound, PhaseSound
  <2> QED
    BY <1>1, <2>1, FilesStaySound
<1> QED
  BY <1>2, <1>3 DEF SInv

LEMMA RestingIsThread ==
  ASSUME NEW n \in Nat
  PROVE  /\ Resting \in Thread(n) /\ Resting.pc = "idle" /\ Resting.file = 0
         /\ [c \in Chunks |-> Resting] \in [Chunks -> Thread(n)]
BY ChunksFinite DEF Resting, Thread

(* Threads that rest are sound, and so are the Files when none is counted. *)
LEMMA RestingSound ==
  ASSUME threads' = [c \in Chunks |-> Resting]
  PROVE  /\ \A d \in Chunks : ThreadSound(d)'
         /\ LocksSound'
         /\ \A f : f # 0 => WritersOf(f)' = {}
         /\ \A c \in Chunks : threads'[c].pc = "idle" /\ threads'[c].file = 0
<1>1. \A c \in Chunks : threads'[c] = Resting
  OBVIOUS
<1>2. Resting.pc = "idle" /\ Resting.file = 0
  BY DEF Resting
<1> QED
  BY <1>1, <1>2 DEF ThreadSound, LocksSound, WritersOf

LEMMA EndSound ==
  ASSUME SInv, Crash \/ Quit
  PROVE  SInv'
<1>1. Stopped /\ UNCHANGED <<unfinished, finished, wanted, misled>>
  BY DEF Crash, Quit, disk, history
<1>2. faults' \in 0 .. MaxFaults
  BY FaultCounted DEF SInv, Crash, Quit
<1>3. /\ saved' \in [complete : BOOLEAN, unfinished : BOOLEAN, known : Known]
      /\ outdated' \in BOOLEAN
  BY SaveEntriesType DEF SInv, TypeOK, Crash, Quit, history
<1>4. files' = <<>> /\ files' \in Seq(File) /\ Len(files') = 0 /\ DOMAIN files' = {}
  BY <1>1, EmptySeq DEF Stopped
<1>5. [c \in Chunks |-> "ok"] \in [Chunks -> {"ok", "error", "lost"}]
  OBVIOUS
<1>6. TypeOK'
  <2>1. threads' \in [Chunks -> Thread(Len(files'))]
    BY <1>1, <1>4, RestingIsThread DEF Stopped
  <2>2. last' \in [Chunks -> {"ok", "error", "lost"}]
    BY <1>1, <1>5 DEF Stopped
  <2>3. chunksOf' \in 0 .. Len(files')
    BY <1>1, <1>4 DEF Stopped
  <2> QED
    BY <1>1, <1>2, <1>3, <1>4, <2>1, <2>2, <2>3 DEF SInv, TypeOK, Stopped
<1>7. Sound'
  BY <1>1, <1>4, RestingSound DEF Sound, PhaseSound, Stopped
<1> QED
  BY <1>6, <1>7 DEF SInv

LEMMA UserDeletesSound ==
  ASSUME SInv, UserDeletes
  PROVE  SInv'
<1>1. /\ UNCHANGED <<phase, finished, saved, cacheChanged, files, wanted, exists,
                     chunksOf, broken, last, threads, outdated, misled>>
      /\ unfinished' = NoFile /\ \A f \in DOMAIN files : ~ files[f].open
  BY DEF UserDeletes, download, history
<1>2. TypeOK'
  <2>1. faults' \in 0 .. MaxFaults
    BY FaultCounted DEF SInv, UserDeletes
  <2> QED
    BY <1>1, <2>1 DEF SInv, TypeOK, DiskFile
<1>3. \A d \in Chunks : ThreadSound(d)'
  BY <1>1 DEF SInv, Sound, ThreadSound
<1>4. \A g \in DOMAIN files : WritersOf(g)' = WritersOf(g)
  BY <1>1 DEF WritersOf
<1>5. \A g \in DOMAIN files : FileSound(g)'
  BY <1>1, <1>4 DEF SInv, Sound, FileSound
<1>6. LocksSound' /\ PhaseSound'
  BY <1>1 DEF SInv, Sound, LocksSound, PhaseSound
<1> QED
  BY <1>1, <1>2, <1>3, <1>5, <1>6 DEF SInv, Sound

(* The Files of a directory on which no thread works.                      *)
QuietFile(e) ==
  /\ e.complete => e.known = Full
  /\ ~ e.hashed => e.complete /\ e.indexed = {}

LEMMA QuietSound ==
  ASSUME threads' = [c \in Chunks |-> Resting],
         files' \in Seq(File), exists' = FALSE, chunksOf' = 0,
         phase' \in {"off", "scan"} => files' = <<>>,
         \A g \in DOMAIN files' : /\ QuietFile(files'[g])
                                  /\ files'[g].open => unfinished'.exists
  PROVE  Sound'
<1>1. /\ \A d \in Chunks : ThreadSound(d)'
      /\ LocksSound'
      /\ \A f : f # 0 => WritersOf(f)' = {}
      /\ \A c \in Chunks : threads'[c].pc = "idle" /\ threads'[c].file = 0
  BY RestingSound
<1>2. ASSUME NEW g \in DOMAIN files'
      PROVE  FileSound(g)'
  <2>1. g # 0 /\ files'[g] \in File
    BY LenProperties, ElementOfSeq
  <2>2. Cardinality(WritersOf(g)') = 0
    BY <1>1, <2>1, FS_EmptySet
  <2>3. files'[g].writers >= Cardinality(WritersOf(g)')
    BY <2>1, <2>2 DEF File
  <2> QED
    BY <1>1, <1>2, <2>1, <2>3 DEF FileSound, QuietFile
<1>3. PhaseSound'
  BY <1>1 DEF PhaseSound
<1> QED
  BY <1>1, <1>2, <1>3 DEF Sound

(* What is restored: at most a complete File, then an unfinished one.      *)
RestoredFile ==
  {e \in File : QuietFile(e) /\ ~ e.open /\ e.writers = 0}

LEMMA RestoredTypes ==
  ASSUME TypeOK
  PROVE  RestoredFinished \in Seq(RestoredFile) /\ RestoredUnfinished \in Seq(RestoredFile)
<1>1. saved \in [complete : BOOLEAN, unfinished : BOOLEAN, known : Known]
  BY DEF TypeOK
<1>2. NewFile \in File /\ Full \in Known
  BY NewFileIsFile, ChunksFinite DEF Full, Known
<1>3. <<>> \in Seq(RestoredFile) /\ \A e \in RestoredFile : <<e>> \in Seq(RestoredFile)
  BY EmptySeq
<1>4. RestoredFinished \in Seq(RestoredFile)
  <2> DEFINE ii == IF saved.complete THEN Chunks ELSE {}
             e == [NewFile EXCEPT !.complete = TRUE, !.known = Full,
                     !.hashed = saved.complete, !.indexed = ii]
  <2>1. ii \in SUBSET Chunks /\ (~ saved.complete => ii = {})
    OBVIOUS
  <2>2. RestoredFinished = IF ~ finished.exists THEN <<>> ELSE <<e>>
    BY DEF RestoredFinished
  <2> HIDE DEF ii
  <2>3. e \in File
    BY <1>1, <1>2, <2>1 DEF File
  <2>4. /\ e.complete = TRUE /\ e.known = Full /\ e.hashed = saved.complete
        /\ e.indexed = ii /\ e.open = FALSE /\ e.writers = 0
    BY DEF NewFile
  <2> HIDE DEF e
  <2>5. e \in RestoredFile
    BY <2>1, <2>3, <2>4 DEF RestoredFile, QuietFile
  <2> QED
    BY <1>3, <2>2, <2>5
<1>5. RestoredUnfinished \in Seq(RestoredFile)
  <2> DEFINE ii == {c \in Chunks : saved.known[c] > 0}
             e == [NewFile EXCEPT !.known = saved.known, !.indexed = ii]
  <2>1. ii \in SUBSET Chunks
    OBVIOUS
  <2>2. RestoredUnfinished = IF ~ unfinished.exists \/ ~ saved.unfinished
                             THEN <<>> ELSE <<e>>
    BY DEF RestoredUnfinished
  <2> HIDE DEF ii
  <2>3. e \in File
    BY <1>1, <1>2, <2>1 DEF File
  <2>4. /\ e.complete = FALSE /\ e.hashed = TRUE
        /\ e.open = FALSE /\ e.writers = 0
    BY DEF NewFile
  <2> HIDE DEF e
  <2>5. e \in RestoredFile
    BY <2>3, <2>4 DEF RestoredFile, QuietFile
  <2> QED
    BY <1>3, <2>2, <2>5
<1> QED
  BY <1>4, <1>5

LEMMA RestoreSound ==
  ASSUME SInv, Restore
  PROVE  SInv'
<1>1. /\ UNCHANGED <<finished, saved, wanted, exists, chunksOf, broken, last, threads,
                     faults, outdated>>
      /\ phase = "scan" /\ phase' = "restore" /\ cacheChanged' = TRUE
      /\ unfinished' = IF saved.unfinished THEN unfinished ELSE NoFile
      /\ files' = RestoredFinished \o RestoredUnfinished
      /\ misled' = (misled \/ outdated)
  BY DEF Restore, download
<1>2. files' \in Seq(RestoredFile) /\ Len(files') \in Nat
  BY <1>1, RestoredTypes, ConcatProperties, LenProperties DEF SInv
<1>3. files' \in Seq(File)
  BY <1>2, SeqMonotonic DEF RestoredFile
<1>4. /\ exists = FALSE /\ chunksOf = 0 /\ files = <<>>
      /\ \A c \in Chunks : threads[c].pc = "idle" /\ threads[c].file = 0
  BY <1>1 DEF SInv, Sound, PhaseSound, TypeOK, ThreadSound
<1>5. TypeOK'
  <2>1. \A c \in Chunks : threads[c] \in Thread(Len(files'))
    <3>1. \A c \in Chunks : threads[c] \in Thread(Len(files))
      BY DEF SInv, TypeOK
    <3> QED
      BY <1>2, <1>4, <3>1 DEF Thread
  <2>2. threads' \in [Chunks -> Thread(Len(files'))]
    BY <1>1, <2>1 DEF SInv, TypeOK
  <2>3. chunksOf' \in 0 .. Len(files')
    BY <1>1, <1>2, <1>4
  <2>4. unfinished' \in DiskFile /\ misled' \in BOOLEAN
    BY <1>1 DEF SInv, TypeOK, DiskFile
  <2> QED
    BY <1>1, <1>3, <2>2, <2>3, <2>4 DEF SInv, TypeOK
<1>6. ASSUME NEW d \in Chunks
      PROVE  ThreadSound(d)'
  BY <1>1, <1>4 DEF ThreadSound
<1>7. ASSUME NEW g \in DOMAIN files'
      PROVE  FileSound(g)'
  <2>1. g # 0 /\ files'[g] \in RestoredFile
    BY <1>2, LenProperties, ElementOfSeq
  <2>2. WritersOf(g)' = {}
    BY <1>1, <1>4 DEF WritersOf
  <2>3. Cardinality(WritersOf(g)') = 0
    BY <2>2, FS_EmptySet
  <2> QED
    BY <1>1, <1>4, <2>1, <2>3 DEF FileSound, RestoredFile, QuietFile
<1>8. LocksSound' /\ PhaseSound'
  BY <1>1, <1>4 DEF LocksSound, PhaseSound
<1> QED
  BY <1>5, <1>6, <1>7, <1>8 DEF SInv, Sound

(* The elements of a sequence without one of them.                         *)
LEMMA RemoveAtElements ==
  ASSUME NEW S, NEW seq \in Seq(S), NEW i \in 1 .. Len(seq)
  PROVE  /\ RemoveAt(seq, i) \in Seq(S)
         /\ Len(RemoveAt(seq, i)) = Len(seq) - 1
         /\ \A j \in 1 .. Len(seq) - 1 :
              RemoveAt(seq, i)[j] = IF j < i THEN seq[j] ELSE seq[j + 1]
<1>1. Len(seq) \in Nat /\ \A j \in 1 .. Len(seq) : seq[j] \in S
  BY LenProperties
<1> DEFINE a == SubSeq(seq, 1, i - 1)
           b == SubSeq(seq, i + 1, Len(seq))
<1>2. /\ a \in Seq(S) /\ Len(a) = i - 1
      /\ \A j \in 1 .. i - 1 : a[j] = seq[j]
  <2>1. \A j \in 1 .. i - 1 : seq[j] \in S
    BY <1>1
  <2>2. /\ a \in Seq(S) /\ Len(a) = IF 1 <= i - 1 THEN i - 1 - 1 + 1 ELSE 0
        /\ \A j \in 1 .. i - 1 - 1 + 1 : a[j] = seq[1 + j - 1]
    BY <1>1, <2>1, SubSeqProperties
  <2> HIDE DEF a
  <2> QED
    BY <1>1, <2>2
<1>3. /\ b \in Seq(S) /\ Len(b) = Len(seq) - i
      /\ \A j \in 1 .. Len(seq) - i : b[j] = seq[i + j]
  <2>1. \A j \in i + 1 .. Len(seq) : seq[j] \in S
    BY <1>1
  <2>2. /\ b \in Seq(S)
        /\ Len(b) = IF i + 1 <= Len(seq) THEN Len(seq) - (i + 1) + 1 ELSE 0
        /\ \A j \in 1 .. Len(seq) - (i + 1) + 1 : b[j] = seq[i + 1 + j - 1]
    BY <1>1, <2>1, SubSeqProperties
  <2> HIDE DEF b
  <2> QED
    BY <1>1, <2>2
<1>4. RemoveAt(seq, i) = a \o b
  BY DEF RemoveAt
<1> HIDE DEF a, b
<1>5. /\ a \o b \in Seq(S) /\ Len(a \o b) = Len(a) + Len(b)
      /\ \A j \in 1 .. Len(a) + Len(b) :
           (a \o b)[j] = IF j <= Len(a) THEN a[j] ELSE b[j - Len(a)]
  BY <1>2, <1>3, ConcatProperties
<1>6. ASSUME NEW j \in 1 .. Len(seq) - 1
      PROVE  (a \o b)[j] = IF j < i THEN seq[j] ELSE seq[j + 1]
  <2>1. CASE j < i
    BY <1>1, <1>2, <1>3, <1>5, <2>1
  <2>2. CASE ~ (j < i)
    <3>1. /\ (a \o b)[j] = b[j - (i - 1)] /\ j - (i - 1) \in 1 .. Len(seq) - i
          /\ i + (j - (i - 1)) = j + 1
      BY <1>1, <1>2, <1>3, <1>5, <2>2
    <3> QED
      BY <1>3, <2>2, <3>1
  <2> QED
    BY <2>1, <2>2
<1> QED
  BY <1>1, <1>2, <1>3, <1>4, <1>5, <1>6

(* A File once the threads of a removed download left it.                  *)
LEMMA AbandonedIsFile ==
  ASSUME SInv, NEW f \in DOMAIN files
  PROVE  /\ Abandoned(f) \in File
         /\ Abandoned(f).complete = files[f].complete
         /\ Abandoned(f).hashed = files[f].hashed
         /\ Abandoned(f).known = files[f].known
         /\ Abandoned(f).indexed = files[f].indexed
         /\ Abandoned(f).open => files[f].open /\ chunksOf = 0
<1> DEFINE ww == {c \in Chunks : threads[c].pc = "write" /\ threads[c].file = f}
           n == Cardinality(ww)
           o == files[f].open /\ chunksOf = 0 /\ (n = 0 \/ files[f].writers # n)
<1>1. files[f] \in File /\ files[f].writers >= Cardinality(WritersOf(f))
  BY FilesFunction DEF SInv, Sound, FileSound
<1>2. n \in Nat /\ n <= Cardinality(WritersOf(f))
  <2>1. ww \in SUBSET WritersOf(f)
    BY DEF WritersOf
  <2> HIDE DEF ww
  <2> QED
    BY <2>1, WritersFinite, FS_Subset, FS_CardinalityType
<1>3. files[f].writers - n \in Nat /\ o \in BOOLEAN
  BY <1>1, <1>2, WritersFinite DEF File
<1>4. Abandoned(f) = [files[f] EXCEPT !.writers = files[f].writers - n, !.open = o]
  BY <1>1 DEF Abandoned, File
<1>5. o => files[f].open /\ chunksOf = 0
  OBVIOUS
<1> HIDE DEF n, o
<1>6. Abandoned(f) \in File
  BY <1>1, <1>3, <1>4 DEF File
<1> QED
  BY <1>1, <1>4, <1>5, <1>6 DEF File

(* The Files after the removal: those that were there, but the one of the  *)
(* download.                                                               *)
Shifted(g) == IF chunksOf = 0 \/ g < chunksOf THEN g ELSE g + 1

LEMMA RemoveDownloadFiles ==
  ASSUME SInv, RemoveDownload
  PROVE  /\ files' \in Seq(File)
         /\ \A g \in DOMAIN files' :
              /\ Shifted(g) \in DOMAIN files /\ Shifted(g) # chunksOf
              /\ files'[g] = Abandoned(Shifted(g))
<1> DEFINE left == [f \in DOMAIN files |-> Abandoned(f)]
<1>1. DOMAIN files = 1 .. Len(files) /\ Len(files) \in Nat
  BY FilesFunction DEF SInv
<1>2. left \in [1 .. Len(files) -> File]
  BY <1>1, AbandonedIsFile
<1>3. left \in Seq(File) /\ DOMAIN left = 1 .. Len(files)
  BY <1>1, <1>2, SeqDef
<1>4. Len(left) = Len(files)
  BY <1>1, <1>3, LenProperties
<1>5. files' = IF chunksOf = 0 THEN left ELSE RemoveAt(left, chunksOf)
  BY DEF RemoveDownload
<1>6. CASE chunksOf = 0
  BY <1>1, <1>3, <1>5, <1>6 DEF Shifted
<1>7. CASE chunksOf # 0
  <2>1. chunksOf \in 1 .. Len(left)
    BY <1>1, <1>4, <1>7 DEF SInv, TypeOK
  <2>2. \A f \in DOMAIN files : left[f] = Abandoned(f)
    OBVIOUS
  <2> HIDE DEF left
  <2>3. /\ files' \in Seq(File) /\ Len(files') = Len(files) - 1
        /\ \A j \in 1 .. Len(files) - 1 :
             files'[j] = IF j < chunksOf THEN left[j] ELSE left[j + 1]
    BY <1>3, <1>4, <1>5, <1>7, <2>1, RemoveAtElements
  <2>4. DOMAIN files' = 1 .. Len(files) - 1
    BY <2>3, LenProperties
  <2>5. ASSUME NEW g \in DOMAIN files'
        PROVE  /\ Shifted(g) \in DOMAIN files /\ Shifted(g) # chunksOf
               /\ files'[g] = Abandoned(Shifted(g))
    <3>1. g \in Nat /\ g >= 1 /\ g + 1 <= Len(files) /\ chunksOf \in 1 .. Len(files)
      BY <1>1, <1>4, <2>1, <2>4
    <3>2. CASE g < chunksOf
      BY <1>1, <1>7, <2>2, <2>3, <2>4, <3>1, <3>2 DEF Shifted
    <3>3. CASE ~ (g < chunksOf)
      BY <1>1, <1>7, <2>2, <2>3, <2>4, <3>1, <3>3 DEF Shifted
    <3> QED
      BY <3>2, <3>3
  <2> QED
    BY <2>3, <2>5
<1> QED
  BY <1>6, <1>7

LEMMA RemoveDownloadSound ==
  ASSUME SInv, RemoveDownload
  PROVE  SInv'
<1>1. /\ UNCHANGED <<phase, finished, saved, misled>> /\ phase = "up"
      /\ wanted' = FALSE /\ exists' = FALSE /\ chunksOf' = 0 /\ broken' = FALSE
      /\ last' = [c \in Chunks |-> "ok"]
      /\ threads' = [c \in Chunks |-> Resting]
      /\ IF chunksOf = 0 THEN UNCHANGED <<unfinished, cacheChanged, outdated>>
         ELSE unfinished' = NoFile /\ cacheChanged' = TRUE /\ outdated' = TRUE
  BY DEF RemoveDownload
<1>2. /\ files' \in Seq(File)
      /\ \A g \in DOMAIN files' :
           Shifted(g) \in DOMAIN files /\ files'[g] = Abandoned(Shifted(g))
  BY RemoveDownloadFiles
<1>3. TypeOK'
  <2>1. faults' \in 0 .. MaxFaults
    BY FaultCounted DEF SInv, RemoveDownload
  <2>2. Len(files') \in Nat
    BY <1>2, LenProperties
  <2>3. threads' \in [Chunks -> Thread(Len(files'))] /\ chunksOf' \in 0 .. Len(files')
    BY <1>1, <2>2, RestingIsThread
  <2>4. last' \in [Chunks -> {"ok", "error", "lost"}]
    BY <1>1
  <2>5. unfinished' \in DiskFile /\ cacheChanged' \in BOOLEAN /\ outdated' \in BOOLEAN
    BY <1>1 DEF SInv, TypeOK, DiskFile
  <2> QED
    BY <1>1, <1>2, <2>1, <2>3, <2>4, <2>5 DEF SInv, TypeOK
<1>4. ASSUME NEW g \in DOMAIN files'
      PROVE  QuietFile(files'[g]) /\ (files'[g].open => unfinished'.exists)
  <2>1. Shifted(g) \in DOMAIN files /\ files'[g] = Abandoned(Shifted(g))
    BY <1>2
  <2>2. QuietFile(files'[g])
    BY <2>1, AbandonedIsFile DEF QuietFile, SInv, Sound, FileSound
  <2>3. files'[g].open => files[Shifted(g)].open /\ chunksOf = 0
    BY <2>1, AbandonedIsFile
  <2>4. files'[g].open => unfinished'.exists
    BY <1>1, <2>1, <2>3 DEF SInv, Sound, FileSound
  <2> QED
    BY <2>2, <2>4
<1>5. Sound'
  BY <1>1, <1>2, <1>4, QuietSound
<1> QED
  BY <1>3, <1>5 DEF SInv

-----------------------------------------------------------------------------
LEMMA InitSound ==
  ASSUME Init
  PROVE  SInv
<1>1. /\ files = <<>> /\ files \in Seq(File) /\ Len(files) = 0 /\ DOMAIN files = {}
  BY EmptySeq DEF Init
<1>2. /\ threads \in [Chunks -> Thread(Len(files))]
      /\ \A c \in Chunks : threads[c].pc = "idle" /\ threads[c].file = 0
  BY <1>1, RestingIsThread DEF Init
<1>3. last \in [Chunks -> {"ok", "error", "lost"}] /\ chunksOf \in 0 .. Len(files)
  BY <1>1 DEF Init
<1>4. /\ NoFile \in DiskFile /\ faults \in 0 .. MaxFaults
      /\ NoEntries \in [complete : BOOLEAN, unfinished : BOOLEAN, known : Known]
  BY DeliveryAssumption, NewFileIsFile DEF DiskFile, NoEntries, Init
<1>5. TypeOK
  BY <1>1, <1>2, <1>3, <1>4 DEF TypeOK, Init
<1>6. Sound
  BY <1>1, <1>2 DEF Sound, ThreadSound, LocksSound, PhaseSound, Init
<1> QED
  BY <1>5, <1>6 DEF SInv

LEMMA StepSound ==
  ASSUME SInv, [Next]_vars
  PROVE  SInv'
<1>1. CASE \E c \in Chunks : Step(c) \/ Disconnect(c) \/ StartDownloading(c)
                              \/ Finished(c)
  BY <1>1, CreateWriterSound, WriteBufferSound, ChunkCompleteSound,
     ReleaseHandlesSound, RenameFileSound, DeleteWriterSound, DisconnectSound,
     StartDownloadingSound, FinishedSound
  DEF Step
<1>2. CASE CreateFile \/ RestartErroneous \/ RemoveDownload \/ AddDownload
  BY <1>2, CreateFileSound, StartSound, RemoveDownloadSound
<1>3. CASE \E f \in DOMAIN files : ComputeHashes(f)
  BY <1>3, ComputeHashesSound
<1>4. CASE PersistCache \/ Crash \/ Quit \/ Boot \/ Restore \/ LoadQueue \/ UserDeletes
  BY <1>4, PersistCacheSound, EndSound, BootSound, RestoreSound, StartSound,
     UserDeletesSound
<1>5. CASE UNCHANGED vars
  <2>1. UNCHANGED <<phase, unfinished, finished, saved, cacheChanged, files, wanted,
                    exists, chunksOf, broken, last, threads, faults, outdated, misled>>
    BY <1>5 DEF vars, disk, download, history
  <2>2. TypeOK'
    BY <2>1 DEF SInv, TypeOK
  <2>3. Sound'
    BY <2>1, FilesStaySound DEF SInv, Sound, PhaseSound
  <2> QED
    BY <2>2, <2>3 DEF SInv
<1> QED
  BY <1>1, <1>2, <1>3, <1>4, <1>5 DEF Next

(* Whatever the threads, the disk, the user and the end of the program do, *)
(* the variables keep their types and the locks their owners.              *)
THEOREM Soundness == Spec => []SInv
<1>1. Init => SInv
  BY InitSound
<1>2. SInv /\ [Next]_vars => SInv'
  BY StepSound
<1> QED
  BY <1>1, <1>2, PTL DEF Spec

(* The variables keep their types (File.h, Chunk.h, ChunkDownloader.h): no *)
(* writer is taken off that was not counted.                               *)
THEOREM TypeCorrect == Spec => []TypeOK
<1>1. SInv => TypeOK
  BY DEF SInv
<1> QED
  BY <1>1, Soundness, PTL

-----------------------------------------------------------------------------
(* What the Files, the disk and the saved cache say of each other.         *)

(* A step that leaves the disk, the saved cache and the data of the Files. *)
LEMMA FaithfulKept ==
  ASSUME Faithful,
         UNCHANGED <<unfinished, finished, saved, outdated>>,
         DOMAIN files' = DOMAIN files,
         \A f \in DOMAIN files :
           /\ files'[f].complete = files[f].complete
           /\ files'[f].known = files[f].known
           /\ Live(f)' => Live(f) \/ files[f].complete
           /\ HandleHeld(f)'
           /\ \A c \in Chunks :
                \/ c \in files[f].indexed
                \/ threads[c].file = f /\ threads[c].pc = "count"
                => \/ c \in files'[f].indexed
                   \/ threads'[c].file = f /\ threads'[c].pc = "count",
         \A c \in Chunks : CleanHeld(c)'
  PROVE  Faithful'
<1>1. OneLive'
  BY DEF Faithful, OneLive
<1>2. ASSUME NEW f \in DOMAIN files
      PROVE  KnownHeld(f)'
  <2>1. KnownHeld(f)
    BY DEF Faithful
  <2> QED
    BY <2>1 DEF KnownHeld
<1>3. SavedHeld'
  BY DEF Faithful, SavedHeld
<1> QED
  BY <1>1, <1>2, <1>3 DEF Faithful

LEMMA CleanKept ==
  ASSUME SInv, NEW d \in Chunks, CleanHeld(d), threads'[d] = threads[d],
         UNCHANGED unfinished,
         \A g \in DOMAIN files : threads[d].file = g =>
           /\ files'[g].known[d] = files[g].known[d]
           /\ files'[g].open => files[g].open
  PROVE  CleanHeld(d)'
<1>1. CASE threads[d].pc # "idle"
  <2>1. threads[d].file \in DOMAIN files
    BY <1>1, ThreadAndFile
  <2> QED
    BY <2>1 DEF CleanHeld
<1>2. CASE threads[d].pc = "idle"
  BY <1>2 DEF CleanHeld
<1> QED
  BY <1>1, <1>2

LEMMA NotWriting ==
  ASSUME NEW d \in Chunks, threads'[d].pc # "write"
  PROVE  CleanHeld(d)'
BY DEF CleanHeld

(* The thread that acts stays counted, or stays not counted.               *)
LEMMA CountedAsBefore ==
  ASSUME SInv, NEW c \in Chunks, NEW t, threads' = [threads EXCEPT ![c] = t],
         threads[c].file = t.file, threads[c].pc \in Writing, t.pc \in Writing
  PROVE  \A f \in DOMAIN files : WritersOf(f)' = WritersOf(f)
<1>1. TypeOK
  BY DEF SInv
<1>2. ASSUME NEW f \in DOMAIN files
      PROVE  WritersOf(f)' = WritersOf(f)
  <2>1. threads[c].file = f /\ threads[c].pc \in Writing
          <=> t.file = f /\ t.pc \in Writing
    OBVIOUS
  <2> QED
    BY <1>1, <2>1, SameWriters
<1> QED
  BY <1>2

LEMMA NotItsFile ==
  ASSUME SInv, NEW c \in Chunks, NEW t, threads' = [threads EXCEPT ![c] = t],
         NEW f, threads[c].file # f, t.file # f
  PROVE  WritersOf(f)' = WritersOf(f)
<1>1. TypeOK
  BY DEF SInv
<1>2. threads[c].file = f /\ threads[c].pc \in Writing
        <=> t.file = f /\ t.pc \in Writing
  OBVIOUS
<1> QED
  BY <1>1, <1>2, SameWriters

LEMMA HandleKept ==
  ASSUME NEW f \in DOMAIN files, HandleHeld(f), WritersOf(f)' = WritersOf(f),
         files'[f].writers = files[f].writers, files'[f].known = files[f].known,
         files'[f].open = files[f].open
  PROVE  HandleHeld(f)'
BY DEF HandleHeld

(* The thread that acts changes its state only.                            *)
LEMMA BecomeThread ==
  ASSUME SInv, NEW c \in Chunks, threads[c].pc # "idle",
         NEW p \in {"ended", "leave", "close", "release"}, Become(c, p)
  PROVE  \E t \in Thread(Len(files)) :
           /\ threads' = [threads EXCEPT ![c] = t]
           /\ t.file = threads[c].file /\ t.pc = p
           /\ threads'[c] = t /\ \A d \in Chunks : d # c => threads'[d] = threads[d]
<1> DEFINE t == [threads[c] EXCEPT !.pc = p]
<1>1. threads[c] \in Thread(Len(files))
  BY ThreadAndFile
<1>2. t \in Thread(Len(files)) /\ t.file = threads[c].file /\ t.pc = p
  BY <1>1 DEF Thread
<1>3. threads' = [threads EXCEPT ![c] = t]
  BY DEF Become
<1> HIDE DEF t
<1>4. threads'[c] = t /\ \A d \in Chunks : d # c => threads'[d] = threads[d]
  BY <1>2, <1>3, OneThreadChanged DEF SInv
<1> QED
  BY <1>2, <1>3, <1>4

(* A thread that goes on without a change of the Files, and stays counted  *)
(* or stays not counted.                                                   *)
LEMMA GoingOnFaithful ==
  ASSUME SInv, Faithful, NEW c \in Chunks,
         NEW p \in {"leave", "release"}, Become(c, p),
         threads[c].pc \in {"write", "close"},
         UNCHANGED <<unfinished, finished, saved, files, chunksOf, outdated>>
  PROVE  Faithful'
<1>1. PICK t \in Thread(Len(files)) :
        /\ threads' = [threads EXCEPT ![c] = t]
        /\ t.file = threads[c].file /\ t.pc = p
        /\ threads'[c] = t /\ \A d \in Chunks : d # c => threads'[d] = threads[d]
  BY BecomeThread
<1>2. \A g \in DOMAIN files : WritersOf(g)' = WritersOf(g)
  <2>1. threads[c].pc \in Writing /\ t.pc \in Writing
    BY <1>1 DEF Writing
  <2> QED
    BY <1>1, <2>1, CountedAsBefore
<1>3. \A g \in DOMAIN files : HandleHeld(g)'
  BY <1>2, HandleKept DEF Faithful
<1>4. ASSUME NEW d \in Chunks
      PROVE  CleanHeld(d)'
  <2>1. CASE d = c
    BY <1>1, <2>1, NotWriting
  <2>2. CASE d # c
    BY <1>1, <2>2, CleanKept DEF Faithful
  <2> QED
    BY <2>1, <2>2
<1>5. \A g \in DOMAIN files : Live(g)' => Live(g)
  BY <1>1 DEF Live
<1>6. \A d \in Chunks : \A g \in DOMAIN files :
        threads[d].file = g /\ threads[d].pc = "count" =>
          threads'[d].file = g /\ threads'[d].pc = "count"
  BY <1>1
<1> QED
  BY <1>3, <1>4, <1>5, <1>6, FaithfulKept

LEMMA DisconnectFaithful ==
  ASSUME SInv, Faithful, NEW c \in Chunks, Disconnect(c)
  PROVE  Faithful'
BY GoingOnFaithful DEF Disconnect, LeaveWith, disk, history

LEMMA ReleaseHandlesFaithful ==
  ASSUME SInv, Faithful, NEW c \in Chunks, ReleaseHandles(c)
  PROVE  Faithful'
BY GoingOnFaithful DEF ReleaseHandles, disk, download, history

LEMMA StartDownloadingFaithful ==
  ASSUME SInv, Faithful, NEW c \in Chunks, StartDownloading(c)
  PROVE  Faithful'
<1>1. UNCHANGED <<unfinished, finished, saved, files, chunksOf, outdated>>
  BY DEF StartDownloading, disk, history
<1>2. chunksOf \in DOMAIN files /\ threads[c].pc = "idle"
  BY FilesFunction
  DEF SInv, Sound, TypeOK, PhaseSound, StartDownloading, Downloading
<1> DEFINE t == [pc |-> "open", file |-> chunksOf,
                 next |-> files[chunksOf].known[c], clean |-> FALSE]
<1>3. /\ threads' = [threads EXCEPT ![c] = t]
      /\ t.pc = "open" /\ t.file = chunksOf
  BY DEF StartDownloading
<1> HIDE DEF t
<1>4. threads'[c] = t /\ \A d \in Chunks : d # c => threads'[d] = threads[d]
  BY <1>3 DEF SInv, TypeOK
<1>5. \A g \in DOMAIN files : WritersOf(g)' = WritersOf(g)
  BY <1>2, <1>3, SameWriters DEF SInv, Writing
<1>6. \A g \in DOMAIN files : HandleHeld(g)'
  BY <1>1, <1>5, HandleKept DEF Faithful
<1>7. ASSUME NEW d \in Chunks
      PROVE  CleanHeld(d)'
  <2>1. CASE d = c
    BY <1>3, <1>4, <2>1, NotWriting
  <2>2. CASE d # c
    BY <1>1, <1>4, <2>2, CleanKept DEF Faithful
  <2> QED
    BY <2>1, <2>2
<1>8. \A g \in DOMAIN files : Live(g)' => Live(g)
  BY <1>1, <1>3, <1>4 DEF Live
<1>9. \A d \in Chunks : \A g \in DOMAIN files :
        threads[d].file = g /\ threads[d].pc = "count" =>
          threads'[d].file = g /\ threads'[d].pc = "count"
  BY <1>2, <1>4
<1> QED
  BY <1>1, <1>6, <1>7, <1>8, <1>9, FaithfulKept

LEMMA FinishedFaithful ==
  ASSUME SInv, Faithful, NEW c \in Chunks, Finished(c)
  PROVE  Faithful'
<1>1. /\ UNCHANGED <<unfinished, finished, saved, files, outdated>>
      /\ threads' = [threads EXCEPT ![c] = Resting] /\ threads[c].pc = "ended"
  BY DEF Finished, disk, history
<1>2. chunksOf' \in {chunksOf, 0}
  <2>1. {d \in Chunks \ {c} : Downloading(d)} \in SUBSET Chunks
    OBVIOUS
  <2>2. UpdateStatus({d \in Chunks \ {c} : Downloading(d)})
    BY DEF Finished
  <2> QED
    BY <2>1, <2>2, UpdateStatusEffect DEF SInv
<1>3. Resting.pc = "idle" /\ Resting.file = 0 /\ \A g \in DOMAIN files : g # 0
  BY FilesFunction DEF Resting, SInv
<1>4. threads'[c] = Resting /\ \A d \in Chunks : d # c => threads'[d] = threads[d]
  BY <1>1 DEF SInv, TypeOK
<1>5. \A g \in DOMAIN files : WritersOf(g)' = WritersOf(g)
  BY <1>1, <1>3, SameWriters DEF SInv, Writing
<1>6. \A g \in DOMAIN files : HandleHeld(g)'
  BY <1>1, <1>5, HandleKept DEF Faithful
<1>7. ASSUME NEW d \in Chunks
      PROVE  CleanHeld(d)'
  <2>1. CASE d = c
    BY <1>3, <1>4, <2>1, NotWriting
  <2>2. CASE d # c
    BY <1>1, <1>4, <2>2, CleanKept DEF Faithful
  <2> QED
    BY <2>1, <2>2
<1>8. \A g \in DOMAIN files : Live(g)' => Live(g)
  BY <1>1, <1>2, <1>3, <1>4 DEF Live
<1>9. \A d \in Chunks : \A g \in DOMAIN files :
        threads[d].file = g /\ threads[d].pc = "count" =>
          threads'[d].file = g /\ threads'[d].pc = "count"
  BY <1>1, <1>4
<1> QED
  BY <1>1, <1>6, <1>7, <1>8, <1>9, FaithfulKept

(* The download is linked to a File that is alive, or to none.             *)
LEMMA LinkingFaithful ==
  ASSUME SInv, Faithful,
         LinkToAnExistingFile \/ UNCHANGED chunksOf,
         UNCHANGED <<unfinished, finished, saved, files, threads, outdated>>
  PROVE  Faithful'
<1>1. \/ UNCHANGED chunksOf
      \/ files[chunksOf'].indexed # {}
  BY LinkEffect
<1>2. \A g \in DOMAIN files : WritersOf(g)' = WritersOf(g)
  BY DEF WritersOf
<1>3. \A g \in DOMAIN files : HandleHeld(g)'
  BY <1>2, HandleKept DEF Faithful
<1>4. \A d \in Chunks : CleanHeld(d)'
  BY CleanKept DEF Faithful
<1>5. \A g \in DOMAIN files : Live(g)' => Live(g)
  BY <1>1 DEF Live
<1> QED
  BY <1>3, <1>4, <1>5, FaithfulKept

LEMMA StartFaithful ==
  ASSUME SInv, Faithful, RestartErroneous \/ AddDownload \/ LoadQueue \/ Boot
  PROVE  Faithful'
<1>1. CASE RestartErroneous
  BY <1>1, LinkingFaithful DEF RestartErroneous, disk, history
<1>2. CASE AddDownload
  BY <1>2, LinkingFaithful DEF AddDownload, disk, history
<1>3. CASE LoadQueue
  BY <1>3, LinkingFaithful DEF LoadQueue, disk, history
<1>4. CASE Boot
  BY <1>4, LinkingFaithful DEF Boot, disk, download, history
<1> QED
  BY <1>1, <1>2, <1>3, <1>4

LEMMA ChunkCompleteFaithful ==
  ASSUME SInv, SInv', Faithful, NEW c \in Chunks, ChunkComplete(c)
  PROVE  Faithful'
<1>1. PICK f \in DOMAIN files : threads[c].file = f /\ files[f] \in File
  BY ThreadAndFile DEF ChunkComplete
<1>2. /\ UNCHANGED <<unfinished, finished, saved, chunksOf, outdated>>
      /\ threads[c].pc = "count"
      /\ files' = [files EXCEPT ![f].indexed = @ \cup {c}]
      /\ Become(c, "close") \/ Become(c, "leave")
  BY <1>1 DEF ChunkComplete, disk, download, history
<1>3. PICK p \in {"close", "leave"} : Become(c, p)
  BY <1>2
<1>4. PICK t \in Thread(Len(files)) :
        /\ threads' = [threads EXCEPT ![c] = t]
        /\ t.file = threads[c].file /\ t.pc = p
        /\ threads'[c] = t /\ \A d \in Chunks : d # c => threads'[d] = threads[d]
  BY <1>2, <1>3, BecomeThread
<1> DEFINE e == [files[f] EXCEPT !.indexed = @ \cup {c}]
<1>5. /\ files' = [files EXCEPT ![f] = e] /\ e \in File
      /\ e.indexed = files[f].indexed \cup {c} /\ e.complete = files[f].complete
      /\ e.known = files[f].known /\ e.writers = files[f].writers
      /\ e.open = files[f].open
  <2>1. files[f].indexed \cup {c} \in SUBSET Chunks
    BY <1>1 DEF File
  <2>2. e \in File
    BY <1>1, <2>1 DEF File
  <2> QED
    BY <1>1, <1>2, <2>2 DEF File
<1> HIDE DEF e
<1>6. /\ DOMAIN files' = DOMAIN files /\ files'[f] = e
      /\ \A g \in DOMAIN files : g # f => files'[g] = files[g]
  BY <1>5, OneFileChanged DEF SInv
<1>7. \A g \in DOMAIN files :
        /\ files'[g].complete = files[g].complete /\ files'[g].known = files[g].known
        /\ files'[g].writers = files[g].writers /\ files'[g].open = files[g].open
        /\ files[g].indexed \subseteq files'[g].indexed
  BY <1>5, <1>6
<1>8. \A g \in DOMAIN files : WritersOf(g)' = WritersOf(g)
  <2>1. threads[c].pc \in Writing /\ t.pc \in Writing
    BY <1>2, <1>3, <1>4 DEF Writing
  <2> QED
    BY <1>4, <2>1, CountedAsBefore
<1>9. \A g \in DOMAIN files : HandleHeld(g)'
  BY <1>7, <1>8, HandleKept DEF Faithful
<1>10. ASSUME NEW d \in Chunks
       PROVE  CleanHeld(d)'
  <2>1. CASE d = c
    BY <1>4, <2>1, NotWriting
  <2>2. CASE d # c
    BY <1>2, <1>4, <1>7, <2>2, CleanKept DEF Faithful
  <2> QED
    BY <2>1, <2>2
<1>11. \A g \in DOMAIN files : Live(g)' => Live(g)
  <2>1. Live(f)
    BY <1>1 DEF Live
  <2>2. ASSUME NEW g \in DOMAIN files, g # f, Live(g)'
        PROVE  Live(g)
    BY <1>2, <1>4, <1>6, <2>2 DEF Live
  <2> QED
    BY <2>1, <2>2
<1>12. \A d \in Chunks : \A g \in DOMAIN files :
         threads[d].file = g /\ threads[d].pc = "count" =>
           \/ d \in files'[g].indexed
           \/ threads'[d].file = g /\ threads'[d].pc = "count"
  BY <1>1, <1>4, <1>5, <1>6
<1> QED
  BY <1>2, <1>6, <1>7, <1>9, <1>10, <1>11, <1>12, FaithfulKept

LEMMA DeleteWriterFaithful ==
  ASSUME SInv, Faithful, NEW c \in Chunks, DeleteWriter(c)
  PROVE  Faithful'
<1>1. PICK f \in DOMAIN files : threads[c].file = f /\ files[f] \in File
  BY ThreadAndFile DEF DeleteWriter
<1>2. /\ UNCHANGED <<unfinished, finished, saved, chunksOf, outdated>>
      /\ threads[c].pc = "leave" /\ Become(c, "ended")
      /\ files' = [files EXCEPT ![f].writers = @ - 1,
                                ![f].open = @ /\ files[f].writers # 1]
  BY <1>1 DEF DeleteWriter, disk, download, history
<1>3. PICK t \in Thread(Len(files)) :
        /\ threads' = [threads EXCEPT ![c] = t]
        /\ t.file = threads[c].file /\ t.pc = "ended"
        /\ threads'[c] = t /\ \A d \in Chunks : d # c => threads'[d] = threads[d]
  BY <1>2, BecomeThread
<1>4. /\ WritersOf(f)' = WritersOf(f) \ {c} /\ c \in WritersOf(f)
      /\ Cardinality(WritersOf(f)') = Cardinality(WritersOf(f)) - 1
  BY <1>1, <1>2, <1>3, WriterLeaves DEF SInv, Writing
<1>5. /\ files[f].writers >= Cardinality(WritersOf(f))
      /\ Cardinality(WritersOf(f)) \in Nat /\ Cardinality(WritersOf(f)) >= 1
      /\ files[f].writers \in Nat /\ files[f].writers - 1 \in Nat
  <2>1. Cardinality(WritersOf(f)) # 0
    BY <1>4, WritersFinite, FS_EmptySet
  <2> QED
    BY <1>1, <2>1, WritersFinite DEF SInv, Sound, FileSound, File
<1> DEFINE o == files[f].open /\ files[f].writers # 1
           e == [files[f] EXCEPT !.writers = files[f].writers - 1, !.open = o]
<1>6. /\ files' = [files EXCEPT ![f] = e] /\ e \in File
      /\ e.indexed = files[f].indexed /\ e.complete = files[f].complete
      /\ e.known = files[f].known /\ e.writers = files[f].writers - 1
      /\ e.open = o
  <2>1. o \in BOOLEAN
    BY <1>1 DEF File
  <2>2. files' = [files EXCEPT ![f] = e]
    BY <1>1, <1>2 DEF File
  <2> HIDE DEF o
  <2>3. e \in File
    BY <1>1, <1>5, <2>1 DEF File
  <2> QED
    BY <1>1, <2>2, <2>3 DEF File
<1> HIDE DEF e
<1>7. /\ DOMAIN files' = DOMAIN files /\ files'[f] = e
      /\ \A g \in DOMAIN files : g # f => files'[g] = files[g]
  BY <1>6, OneFileChanged DEF SInv
<1>8. \A g \in DOMAIN files :
        /\ files'[g].complete = files[g].complete /\ files'[g].known = files[g].known
        /\ files'[g].open => files[g].open
        /\ files'[g].indexed = files[g].indexed
  BY <1>6, <1>7
<1>9. HandleHeld(f)'
  <2>1. HandleHeld(f)
    BY DEF Faithful
  <2>2. SUFFICES ASSUME WritersOf(f)' # {}
                 PROVE  \/ files'[f].open
                        \/ files'[f].writers > Cardinality(WritersOf(f)')
                        \/ files'[f].known = Full
    BY DEF HandleHeld
  <2>3. Cardinality(WritersOf(f)') # 0 /\ Cardinality(WritersOf(f)') \in Nat
    <3>1. IsFiniteSet(WritersOf(f)')
      BY <1>4, WritersFinite, FS_RemoveElement
    <3> QED
      BY <2>2, <3>1, FS_EmptySet, FS_CardinalityType
  <2>4. files[f].writers # 1
    BY <1>4, <1>5, <2>3
  <2>5. WritersOf(f) # {}
    BY <1>4
  <2>6. CASE files[f].open
    BY <1>6, <1>7, <2>4, <2>6
  <2>7. CASE files[f].writers > Cardinality(WritersOf(f))
    BY <1>4, <1>5, <1>6, <1>7, <2>7
  <2>8. CASE files[f].known = Full
    BY <1>6, <1>7, <2>8
  <2> QED
    BY <2>1, <2>5, <2>6, <2>7, <2>8 DEF HandleHeld
<1>10. ASSUME NEW g \in DOMAIN files, g # f
       PROVE  HandleHeld(g)'
  <2>1. WritersOf(g)' = WritersOf(g)
    BY ZenonT(60), <1>1, <1>3, <1>10, NotItsFile
  <2> QED
    BY <1>7, <1>10, <2>1, HandleKept DEF Faithful
<1>11. ASSUME NEW d \in Chunks
       PROVE  CleanHeld(d)'
  <2>1. CASE d = c
    BY <1>3, <2>1, NotWriting
  <2>2. CASE d # c
    BY <1>2, <1>3, <1>8, <2>2, CleanKept DEF Faithful
  <2> QED
    BY <2>1, <2>2
<1>12. \A g \in DOMAIN files : Live(g)' => Live(g)
  BY <1>2, <1>3, <1>8 DEF Live
<1>13. \A d \in Chunks : \A g \in DOMAIN files :
         threads[d].file = g /\ threads[d].pc = "count" =>
           threads'[d].file = g /\ threads'[d].pc = "count"
  BY <1>2, <1>3
<1> QED
  BY <1>2, <1>7, <1>8, <1>9, <1>10, <1>11, <1>12, <1>13, FaithfulKept

(* The first open of a File failed, or a writer joins those that have the  *)
(* handle or opens it.                                                     *)
LEMMA RefusedFaithful ==
  ASSUME SInv, Faithful, NEW c \in Chunks, NEW f \in DOMAIN files, threads[c].file = f,
         threads[c].pc = "open", Refused(c, f), UNCHANGED <<finished, saved, chunksOf>>
  PROVE  Faithful'
<1>1. files[f] \in File
  BY FilesFunction DEF SInv
<1>2. /\ UNCHANGED <<unfinished, outdated>> /\ Become(c, "ended")
      /\ files' = [files EXCEPT ![f] = WithWriter(files[f])] /\ FirstWriter(f)
  BY DEF Refused, EndWith
<1>3. PICK t \in Thread(Len(files)) :
        /\ threads' = [threads EXCEPT ![c] = t]
        /\ t.file = threads[c].file /\ t.pc = "ended"
        /\ threads'[c] = t /\ \A d \in Chunks : d # c => threads'[d] = threads[d]
  BY <1>2, BecomeThread
<1> DEFINE e == WithWriter(files[f])
<1>4. /\ files' = [files EXCEPT ![f] = e] /\ e \in File
      /\ e.indexed = files[f].indexed /\ e.complete = files[f].complete
      /\ e.known = files[f].known /\ e.open = files[f].open
  BY <1>1, <1>2, WithWriterIsFile
<1> HIDE DEF e
<1>5. /\ DOMAIN files' = DOMAIN files /\ files'[f] = e
      /\ \A g \in DOMAIN files : g # f => files'[g] = files[g]
  BY <1>4, OneFileChanged DEF SInv
<1>6. \A g \in DOMAIN files :
        /\ files'[g].complete = files[g].complete /\ files'[g].known = files[g].known
        /\ files'[g].open = files[g].open /\ files'[g].indexed = files[g].indexed
  BY <1>4, <1>5
<1>7. \A g \in DOMAIN files : WritersOf(g)' = WritersOf(g)
  BY <1>3, SameWriters DEF SInv, Writing
<1>8. HandleHeld(f)'
  BY <1>2, <1>7, NoWriterYet DEF HandleHeld
<1>9. \A g \in DOMAIN files : g # f => HandleHeld(g)'
  BY <1>5, <1>7, HandleKept DEF Faithful
<1>10. ASSUME NEW d \in Chunks
       PROVE  CleanHeld(d)'
  <2>1. CASE d = c
    BY <1>3, <2>1, NotWriting
  <2>2. CASE d # c
    BY <1>2, <1>3, <1>6, <2>2, CleanKept DEF Faithful
  <2> QED
    BY <2>1, <2>2
<1>11. \A g \in DOMAIN files : Live(g)' => Live(g)
  BY <1>3, <1>6 DEF Live
<1>12. \A d \in Chunks : \A g \in DOMAIN files :
         threads[d].file = g /\ threads[d].pc = "count" =>
           threads'[d].file = g /\ threads'[d].pc = "count"
  BY <1>3
<1> QED
  BY <1>2, <1>5, <1>6, <1>8, <1>9, <1>10, <1>11, <1>12, FaithfulKept

LEMMA JoinedFaithful ==
  ASSUME SInv, Faithful, NEW c \in Chunks, NEW f \in DOMAIN files, threads[c].file = f,
         threads[c].pc = "open", Joined(c, f), UNCHANGED <<finished, saved, chunksOf>>
  PROVE  Faithful'
<1>1. files[f] \in File /\ threads[c] \in Thread(Len(files))
  BY ThreadAndFile
<1>2. UNCHANGED <<unfinished, outdated>>
  BY DEF Joined
<1> DEFINE held == KnownBuffers(f, c) \subseteq unfinished.right
           t == [threads[c] EXCEPT !.pc = "write", !.clean = held]
           e == IF FirstWriter(f) THEN Opened(files[f]) ELSE WithWriter(files[f])
<1>3. /\ threads' = [threads EXCEPT ![c] = t]
      /\ t.file = f /\ t.pc = "write" /\ (t.clean => held)
  <2>1. held \in BOOLEAN
    OBVIOUS
  <2>2. threads' = [threads EXCEPT ![c].pc = "write", ![c].clean = held]
    BY DEF Joined
  <2> HIDE DEF held
  <2> QED
    BY <1>1, <2>1, <2>2 DEF Thread
<1>4. /\ files' = [files EXCEPT ![f] = e] /\ e \in File
      /\ e.complete = files[f].complete /\ e.known = files[f].known
      /\ e.writers = files[f].writers + 1 /\ e.indexed = files[f].indexed
      /\ (FirstWriter(f) => e.open) /\ (~ FirstWriter(f) => e.open = files[f].open)
  BY <1>1, WithWriterIsFile DEF Joined
<1> HIDE DEF t, e
<1>5. /\ DOMAIN files' = DOMAIN files /\ files'[f] = e
      /\ \A g \in DOMAIN files : g # f => files'[g] = files[g]
  BY <1>4, OneFileChanged DEF SInv
<1>6. threads'[c] = t /\ \A d \in Chunks : d # c => threads'[d] = threads[d]
  BY <1>3 DEF SInv, TypeOK
<1>7. /\ WritersOf(f)' = WritersOf(f) \cup {c}
      /\ Cardinality(WritersOf(f)') = Cardinality(WritersOf(f)) + 1
  BY <1>3, WriterJoins DEF SInv, Writing
<1>8. HandleHeld(f)'
  <2>1. CASE FirstWriter(f)
    BY <1>4, <1>5, <2>1 DEF HandleHeld
  <2>2. CASE ~ FirstWriter(f) /\ WritersOf(f) = {}
    <3>1. Cardinality(WritersOf(f)') = 1
      BY <1>7, <2>2, FS_EmptySet
    <3> QED
      BY <1>1, <1>4, <1>5, <2>2, <3>1 DEF HandleHeld, FirstWriter, File
  <2>3. CASE ~ FirstWriter(f) /\ WritersOf(f) # {}
    <3>1. HandleHeld(f) /\ Cardinality(WritersOf(f)) \in Nat
      BY WritersFinite DEF Faithful
    <3> QED
      BY <1>1, <1>4, <1>5, <1>7, <2>3, <3>1 DEF HandleHeld, File
  <2> QED
    BY <2>1, <2>2, <2>3
<1>9. ASSUME NEW g \in DOMAIN files, g # f
      PROVE  HandleHeld(g)'
  <2>1. WritersOf(g)' = WritersOf(g)
    BY <1>3, <1>9, SameWriters DEF SInv
  <2> QED
    BY <1>5, <1>9, <2>1, HandleKept DEF Faithful
<1>10. ASSUME NEW d \in Chunks
       PROVE  CleanHeld(d)'
  <2>1. CASE d = c
    BY <1>2, <1>3, <1>4, <1>5, <1>6, <2>1 DEF CleanHeld, KnownBuffers
  <2>2. CASE d # c /\ threads[d].pc # "write"
    BY <1>6, <2>2, NotWriting
  <2>3. CASE d # c /\ threads[d].pc = "write"
    <3>1. threads[d].file = f => ~ FirstWriter(f)
      BY <2>3, NoWriterYet DEF WritersOf
    <3>2. \A g \in DOMAIN files : threads[d].file = g =>
            /\ files'[g].known[d] = files[g].known[d]
            /\ files'[g].open => files[g].open
      BY <1>4, <1>5, <3>1
    <3> QED
      BY <1>2, <1>6, <2>3, <3>2, CleanKept DEF Faithful
  <2> QED
    BY <2>1, <2>2, <2>3
<1>11. \A g \in DOMAIN files :
         /\ files'[g].complete = files[g].complete /\ files'[g].known = files[g].known
         /\ files'[g].indexed = files[g].indexed
  BY <1>4, <1>5
<1>12. \A g \in DOMAIN files : Live(g)' => Live(g)
  BY <1>3, <1>6, <1>11 DEF Live
<1>13. \A d \in Chunks : \A g \in DOMAIN files :
         threads[d].file = g /\ threads[d].pc = "count" =>
           threads'[d].file = g /\ threads'[d].pc = "count"
  BY <1>6
<1> QED
  BY <1>2, <1>5, <1>8, <1>9, <1>10, <1>11, <1>12, <1>13, FaithfulKept

(* An unfinished File that knows a whole chunk is alive.                   *)
LEMMA WholeChunkIsLive ==
  ASSUME Faithful, NEW g \in DOMAIN files, ~ files[g].complete,
         NEW d \in Chunks, files[g].known[d] = Size
  PROVE  Live(g)
<1>1. KnownHeld(g)
  BY DEF Faithful
<1> QED
  BY <1>1 DEF KnownHeld, Live

(* The file that a thread writes is not complete, and alive.               *)
LEMMA WrittenIsLive ==
  ASSUME SInv, NEW c \in Chunks, NEW f \in DOMAIN files, threads[c].file = f,
         threads[c].pc \in {"open", "write"}
  PROVE  /\ ~ files[f].complete /\ Live(f) /\ files[f].known # Full
         /\ files[f].known[c] \in Nat /\ files[f].known[c] < Size
<1>1. files[f].known[c] \in Nat /\ files[f].known[c] < Size
  BY FilesFunction DEF SInv, Sound, ThreadSound, File, Known
<1>2. files[f].known # Full
  <2>1. Full[c] = Size
    BY DEF Full
  <2> QED
    BY <1>1, <2>1, ChunksFinite
<1>3. ~ files[f].complete
  BY <1>2 DEF SInv, Sound, FileSound
<1> QED
  BY <1>1, <1>2, <1>3 DEF Live

(* The unfinished file is created again by its first writer.               *)
LEMMA RecreatedFaithful ==
  ASSUME SInv, Faithful, NEW c \in Chunks, NEW f \in DOMAIN files, threads[c].file = f,
         threads[c].pc = "open", Recreated(c, f), UNCHANGED <<finished, saved, chunksOf>>
  PROVE  Faithful'
<1>1. files[f] \in File /\ threads[c] \in Thread(Len(files))
  BY ThreadAndFile
<1>2. FirstWriter(f) /\ ~ unfinished.exists /\ unfinished' = Zeros /\ outdated' = TRUE
  BY DEF Recreated
<1>3. ~ files[f].complete /\ Live(f)
  BY WrittenIsLive
<1> DEFINE e == Emptied(files[f], Lost(f))
<1>4. /\ files' = [files EXCEPT ![f] = e] /\ e \in File
      /\ e.complete = files[f].complete /\ e.known = Zero /\ e.open = TRUE
      /\ e.indexed \subseteq files[f].indexed
  <2>1. e.indexed = files[f].indexed \ Lost(f)
    BY <1>1, EmptiedIsFile
  <2>2. files' = [files EXCEPT ![f] = e]
    BY DEF Recreated
  <2>3. /\ e \in File /\ e.complete = files[f].complete /\ e.known = Zero
        /\ e.open = TRUE
    BY <1>1, EmptiedIsFile
  <2> QED
    BY <2>1, <2>2, <2>3
<1> HIDE DEF e
<1>5. /\ DOMAIN files' = DOMAIN files /\ files'[f] = e
      /\ \A g \in DOMAIN files : g # f => files'[g] = files[g]
  BY <1>4, OneFileChanged DEF SInv
<1>6. PICK t :
        /\ threads' = [threads EXCEPT ![c] = t] /\ t.file = f
        /\ t.pc = "ended" \/ e.known = Zero
  <2>1. CASE EndWith(c, "lost")
    <3>1. Become(c, "ended")
      BY <2>1 DEF EndWith
    <3> QED
      BY <1>4, <3>1, BecomeThread
  <2>2. CASE threads' = [threads EXCEPT ![c].pc = "write", ![c].clean = TRUE]
    <3> DEFINE t == [threads[c] EXCEPT !.pc = "write", !.clean = TRUE]
    <3>1. threads' = [threads EXCEPT ![c] = t] /\ t.file = f
      BY <1>1, <2>2 DEF Thread
    <3> QED
      BY <1>4, <3>1
  <2> QED
    BY <2>1, <2>2 DEF Recreated
<1>7. threads'[c] = t /\ \A d \in Chunks : d # c => threads'[d] = threads[d]
  BY <1>6 DEF SInv, TypeOK
<1>8. \A g \in DOMAIN files : g # f => WritersOf(g)' = WritersOf(g)
  BY <1>6, NotItsFile
<1>9. OneLive'
  <2>1. \A g \in DOMAIN files : Live(g)' => Live(g)
    <3>1. \A g \in DOMAIN files : g # f /\ Live(g)' => Live(g)
      BY <1>5, <1>6, <1>7 DEF Live
    <3> QED
      BY <1>3, <3>1
  <2>2. \A g \in DOMAIN files : files'[g].complete = files[g].complete
    BY <1>4, <1>5
  <2> QED
    BY <1>5, <2>1, <2>2 DEF Faithful, OneLive
<1>10. ASSUME NEW g \in DOMAIN files
       PROVE  KnownHeld(g)'
  <2>1. CASE g = f
    <3>1. \A d \in Chunks : Zero[d] # Size
      BY ChunksFinite DEF Zero
    <3> QED
      BY <1>4, <1>5, <2>1, <3>1 DEF KnownHeld
  <2>2. CASE g # f
    <3>1. \A d \in Chunks : files[g].complete \/ files[g].known[d] # Size
      BY <1>3, <2>2, WholeChunkIsLive DEF Faithful, OneLive
    <3> QED
      BY <1>5, <2>2, <3>1 DEF KnownHeld
  <2> QED
    BY <2>1, <2>2
<1>11. ASSUME NEW g \in DOMAIN files
       PROVE  HandleHeld(g)'
  <2>1. CASE g = f
    BY <1>4, <1>5, <2>1 DEF HandleHeld
  <2>2. CASE g # f
    BY <1>5, <1>8, <2>2, HandleKept DEF Faithful
  <2> QED
    BY <2>1, <2>2
<1>12. ASSUME NEW d \in Chunks
       PROVE  CleanHeld(d)'
  <2>1. CASE d = c
    <3>1. {c} \X (0 .. Zero[c] - 1) = {}
      BY DEF Zero
    <3> QED
      BY <1>4, <1>5, <1>6, <1>7, <2>1, <3>1 DEF CleanHeld
  <2>2. CASE d # c /\ threads[d].pc # "write"
    BY <1>7, <2>2, NotWriting
  <2>3. CASE d # c /\ threads[d].pc = "write"
    <3>1. threads[d].file # f
      BY <1>2, <2>3, NoWriterYet DEF WritersOf
    <3>2. threads[d].file \in DOMAIN files
      BY <2>3, ThreadAndFile
    <3>3. ~ files[threads[d].file].open
      BY <1>2, <3>2 DEF SInv, Sound, FileSound
    <3> QED
      BY <1>5, <1>7, <2>3, <3>1, <3>2, <3>3 DEF CleanHeld
  <2> QED
    BY <2>1, <2>2, <2>3
<1>13. SavedHeld'
  BY <1>2 DEF SavedHeld
<1> QED
  BY <1>5, <1>9, <1>10, <1>11, <1>12, <1>13 DEF Faithful

LEMMA CreateWriterFaithful ==
  ASSUME SInv, Faithful, NEW c \in Chunks, CreateWriter(c)
  PROVE  Faithful'
<1>1. PICK f \in DOMAIN files : threads[c].file = f
  BY ThreadAndFile DEF CreateWriter
<1>2. /\ threads[c].pc = "open" /\ UNCHANGED <<finished, saved, chunksOf>>
      /\ Joined(c, f) \/ Recreated(c, f) \/ Refused(c, f)
  BY <1>1, CreateWriterCases
<1> QED
  BY <1>1, <1>2, JoinedFaithful, RecreatedFaithful, RefusedFaithful

(* The Files, when the hash of a chunk does not match and when a buffer is *)
(* written.                                                                *)
LEMMA MismatchFiles ==
  ASSUME TypeOK, NEW f \in DOMAIN files, NEW c \in Chunks, Mismatch(c, f)
  PROVE  /\ files' \in Seq(File) /\ Len(files') = Len(files)
         /\ DOMAIN files' = DOMAIN files
         /\ \A g \in DOMAIN files : g # f => files'[g] = files[g]
         /\ SameButKnown(files'[f], files[f])
         /\ files'[f].known = [files[f].known EXCEPT ![c] = 0]
<1>1. 0 \in 0 .. Size /\ files' = [files EXCEPT ![f].known[c] = 0]
  BY ChunksFinite DEF Mismatch
<1> QED
  BY ZenonT(60), <1>1, KnownOfOneFileChanged

LEMMA WrittenFiles ==
  ASSUME TypeOK, NEW f \in DOMAIN files, NEW c \in Chunks, NEW right,
         Written(c, f, right), files[f].known[c] \in Nat, files[f].known[c] < Size
  PROVE  /\ files' \in Seq(File) /\ Len(files') = Len(files)
         /\ DOMAIN files' = DOMAIN files
         /\ \A g \in DOMAIN files : g # f => files'[g] = files[g]
         /\ SameButKnown(files'[f], files[f])
         /\ files'[f].known = [files[f].known EXCEPT ![c] = files[f].known[c] + 1]
<1> DEFINE k == files[f].known[c]
<1>1. k + 1 \in 0 .. Size
  BY ChunksFinite
<1>2. files' = [files EXCEPT ![f].known[c] = k + 1]
  BY DEF Written
<1> HIDE DEF k
<1>3. /\ files' \in Seq(File) /\ Len(files') = Len(files)
      /\ DOMAIN files' = DOMAIN files
      /\ \A g \in DOMAIN files : g # f => files'[g] = files[g]
      /\ SameButKnown(files'[f], files[f])
      /\ files'[f].known = [files[f].known EXCEPT ![c] = k + 1]
  BY ZenonT(60), <1>1, <1>2, KnownOfOneFileChanged
<1> QED
  BY <1>3 DEF k

(* The hash of a chunk does not match: the chunk is downloaded again.      *)
LEMMA MismatchFaithful ==
  ASSUME SInv, Faithful, NEW c \in Chunks, NEW f \in DOMAIN files, threads[c].file = f,
         threads[c].pc = "write", Mismatch(c, f), UNCHANGED <<finished, saved, chunksOf>>
  PROVE  Faithful'
<1>1. /\ UNCHANGED <<unfinished, outdated>> /\ Become(c, "leave")
      /\ files' = [files EXCEPT ![f].known[c] = 0]
  BY DEF Mismatch, LeaveWith
<1>2. /\ ~ files[f].complete /\ Live(f) /\ files[f].known # Full
      /\ files[f].known[c] \in Nat /\ files[f].known[c] < Size
  BY WrittenIsLive
<1>3. PICK t \in Thread(Len(files)) :
        /\ threads' = [threads EXCEPT ![c] = t]
        /\ t.file = threads[c].file /\ t.pc = "leave"
        /\ threads'[c] = t /\ \A d \in Chunks : d # c => threads'[d] = threads[d]
  BY <1>1, BecomeThread
<1>4. /\ files' \in Seq(File) /\ Len(files') = Len(files)
      /\ DOMAIN files' = DOMAIN files
      /\ \A g \in DOMAIN files : g # f => files'[g] = files[g]
      /\ SameButKnown(files'[f], files[f])
      /\ files'[f].known = [files[f].known EXCEPT ![c] = 0]
  BY MismatchFiles DEF SInv
<1>5. files'[f].known[c] = 0 /\ \A d \in Chunks : d # c => files'[f].known[d] = files[f].known[d]
  BY <1>4, FilesFunction DEF SInv, File, Known
<1>6. \A g \in DOMAIN files :
        /\ files'[g].complete = files[g].complete /\ files'[g].indexed = files[g].indexed
        /\ files'[g].writers = files[g].writers /\ files'[g].open = files[g].open
        /\ \A d \in Chunks : d # c => files'[g].known[d] = files[g].known[d]
  BY <1>4, <1>5 DEF SameButKnown
<1>7. \A g \in DOMAIN files : WritersOf(g)' = WritersOf(g)
  BY <1>3, CountedAsBefore DEF Writing
<1>8. \A g \in DOMAIN files : Live(g)' => Live(g)
  BY <1>3, <1>6 DEF Live
<1>9. OneLive'
  BY <1>4, <1>6, <1>8 DEF Faithful, OneLive
<1>10. ASSUME NEW g \in DOMAIN files
       PROVE  KnownHeld(g)'
  <2>1. KnownHeld(g)
    BY DEF Faithful
  <2>2. CASE g = f
    <3>1. ASSUME ~ files[f].complete, NEW d \in Chunks, files'[f].known[d] = Size
          PROVE  /\ \/ d \in files'[f].indexed
                    \/ threads'[d].file = f /\ threads'[d].pc = "count"
                 /\ unfinished.exists => Data(d) \subseteq unfinished.right
      <4>1. d # c
        BY <1>5, <3>1, ChunksFinite
      <4>2. files[f].known[d] = Size
        BY <1>5, <3>1, <4>1
      <4>3. threads'[d] = threads[d] /\ files'[f].indexed = files[f].indexed
        BY <1>3, <1>6, <4>1
      <4> QED
        BY <2>1, <2>2, <3>1, <4>2, <4>3 DEF KnownHeld
    <3> QED
      BY ZenonT(60), <1>1, <1>6, <2>2, <3>1 DEF KnownHeld
  <2>3. CASE g # f
    BY <1>1, <1>3, <1>4, <2>1, <2>3 DEF KnownHeld
  <2> QED
    BY <2>2, <2>3
<1>11. ASSUME NEW g \in DOMAIN files
       PROVE  HandleHeld(g)'
  <2>1. HandleHeld(g)
    BY DEF Faithful
  <2>2. CASE g = f
    BY <1>2, <1>6, <1>7, <2>1, <2>2 DEF HandleHeld
  <2>3. CASE g # f
    BY <1>4, <1>7, <2>1, <2>3 DEF HandleHeld
  <2> QED
    BY <2>2, <2>3
<1>12. ASSUME NEW d \in Chunks
       PROVE  CleanHeld(d)'
  <2>1. CASE d = c
    BY <1>3, <2>1, NotWriting
  <2>2. CASE d # c
    BY <1>1, <1>3, <1>6, <2>2, CleanKept DEF Faithful
  <2> QED
    BY <2>1, <2>2
<1>13. SavedHeld'
  <2>1. SUFFICES ASSUME ~ outdated, unfinished.exists, saved.unfinished,
                        NEW d \in Chunks, saved.known[d] = Size
                 PROVE  /\ Data(d) \subseteq unfinished.right
                        /\ \A g \in DOMAIN files : Live(g)' /\ ~ files[g].complete =>
                             files'[g].known[d] = Size
    BY <1>1, <1>4, <1>6 DEF SavedHeld
  <2>2. /\ Data(d) \subseteq unfinished.right
        /\ \A g \in DOMAIN files : Live(g) /\ ~ files[g].complete =>
             files[g].known[d] = Size
    BY <2>1 DEF Faithful, SavedHeld
  <2>3. d # c
    BY <1>2, <2>2, ChunksFinite
  <2> QED
    BY <1>6, <1>8, <2>2, <2>3
<1> QED
  BY <1>4, <1>9, <1>10, <1>11, <1>12, <1>13 DEF Faithful

(* A buffer is written to the disk.                                        *)
LEMMA WrittenFaithful ==
  ASSUME SInv, Faithful, NEW c \in Chunks, NEW f \in DOMAIN files, threads[c].file = f,
         threads[c].pc = "write", NEW right \in BOOLEAN, Written(c, f, right),
         UNCHANGED <<finished, saved, chunksOf>>
  PROVE  Faithful'
<1> DEFINE k == files[f].known[c]
           kept == IF right THEN unfinished.right \cup {<<c, k>>}
                   ELSE unfinished.right \ {<<c, k>>}
           t == [threads[c] EXCEPT !.next = @ + 1,
                   !.clean = threads[c].clean /\ right,
                   !.pc = IF k + 1 = Size THEN "count" ELSE "write"]
<1>1. /\ files[f].open /\ (k + 1 = Size => threads[c].clean /\ right)
      /\ files' = [files EXCEPT ![f].known[c] = k + 1]
      /\ unfinished' = [unfinished EXCEPT !.right = kept]
      /\ threads' = [threads EXCEPT ![c] = t]
      /\ UNCHANGED outdated
  BY DEF Written
<1>2. /\ ~ files[f].complete /\ Live(f) /\ files[f].known # Full
      /\ k \in Nat /\ k < Size
  BY WrittenIsLive
<1>3. unfinished.exists /\ unfinished'.exists /\ unfinished'.right = kept
  <2>1. unfinished.exists
    BY <1>1 DEF SInv, Sound, FileSound
  <2>2. unfinished \in [exists : {TRUE}, right : SUBSET Buffers]
    BY <2>1, ExistingFile DEF SInv, TypeOK
  <2> HIDE DEF kept
  <2> QED
    BY <1>1, <2>1, <2>2
<1>4. /\ t.file = f
      /\ t.pc = IF k + 1 = Size THEN "count" ELSE "write"
      /\ t.clean = (threads[c].clean /\ right)
  BY ThreadAndFile DEF Thread
<1> HIDE DEF t
<1>5. threads'[c] = t /\ \A d \in Chunks : d # c => threads'[d] = threads[d]
  BY <1>1 DEF SInv, TypeOK
<1>6. /\ files' \in Seq(File) /\ Len(files') = Len(files)
      /\ DOMAIN files' = DOMAIN files
      /\ \A g \in DOMAIN files : g # f => files'[g] = files[g]
      /\ SameButKnown(files'[f], files[f])
      /\ files'[f].known = [files[f].known EXCEPT ![c] = k + 1]
  BY <1>2, WrittenFiles DEF SInv
<1>7. /\ files'[f].known[c] = k + 1
      /\ \A d \in Chunks : d # c => files'[f].known[d] = files[f].known[d]
  BY <1>6, FilesFunction DEF SInv, File, Known
<1>8. \A g \in DOMAIN files :
        /\ files'[g].complete = files[g].complete /\ files'[g].indexed = files[g].indexed
        /\ files'[g].writers = files[g].writers /\ files'[g].open = files[g].open
        /\ \A d \in Chunks : d # c => files'[g].known[d] = files[g].known[d]
  BY <1>6, <1>7 DEF SameButKnown
<1>9. \A g \in DOMAIN files : WritersOf(g)' = WritersOf(g)
  <2>1. threads[c].pc \in Writing /\ t.pc \in Writing
    BY <1>4 DEF Writing
  <2> QED
    BY <1>1, <1>4, <2>1, CountedAsBefore
<1>10. \A g \in DOMAIN files : Live(g)' => Live(g)
  BY <1>4, <1>5, <1>8 DEF Live
<1>11. OneLive'
  BY <1>6, <1>8, <1>10 DEF Faithful, OneLive
<1>12. /\ right => \A i \in 0 .. k : i = k \/ <<c, i>> \in unfinished.right
                                     => <<c, i>> \in kept
       /\ \A d \in Chunks : d # c =>
            \A s : {d} \X s \subseteq unfinished.right => {d} \X s \subseteq kept
  <2>1. right => \A i \in 0 .. k : i = k \/ <<c, i>> \in unfinished.right
                                   => <<c, i>> \in kept
    OBVIOUS
  <2>2. ASSUME NEW d \in Chunks, d # c, NEW s, {d} \X s \subseteq unfinished.right
        PROVE  {d} \X s \subseteq kept
    BY <2>2
  <2> QED
    BY <2>1, <2>2
<1>13. threads[c].clean /\ right => {c} \X (0 .. k) \subseteq kept
  <2>1. CleanHeld(c)
    BY DEF Faithful
  <2>2. threads[c].clean => {c} \X (0 .. k - 1) \subseteq unfinished.right
    BY <1>1, <2>1 DEF CleanHeld
  <2>3. ASSUME threads[c].clean, right, NEW i \in 0 .. k
        PROVE  <<c, i>> \in kept
    <3>1. i = k \/ i \in 0 .. k - 1
      BY <1>2
    <3> QED
      BY <1>12, <2>2, <2>3, <3>1
  <2> QED
    BY <2>3
<1> HIDE DEF kept
<1>14. ASSUME NEW g \in DOMAIN files
       PROVE  KnownHeld(g)'
  <2>1. KnownHeld(g)
    BY DEF Faithful
  <2>2. ASSUME ~ files[g].complete, NEW d \in Chunks, files'[g].known[d] = Size
        PROVE  /\ \/ d \in files'[g].indexed
                  \/ threads'[d].file = g /\ threads'[d].pc = "count"
               /\ Data(d) \subseteq kept
    <3>1. CASE g = f /\ d = c
      <4>1. k + 1 = Size /\ Size - 1 = k
        BY <1>2, <1>7, <2>2, <3>1, ChunksFinite
      <4>2. threads'[c].file = f /\ threads'[c].pc = "count"
        BY <1>4, <1>5, <4>1
      <4>3. Data(c) \subseteq kept
        BY <1>1, <1>13, <4>1 DEF Data
      <4> QED
        BY <3>1, <4>2, <4>3
    <3>2. CASE d # c
      <4>1. files[g].known[d] = Size
        BY <1>8, <2>2, <3>2
      <4>2. /\ Data(d) \subseteq unfinished.right
            /\ d \in files[g].indexed \/ (threads[d].file = g /\ threads[d].pc = "count")
        BY <1>3, <2>1, <2>2, <4>1 DEF KnownHeld
      <4>3. Data(d) \subseteq kept
        BY <1>12, <3>2, <4>2 DEF Data
      <4> QED
        BY <1>5, <1>8, <3>2, <4>2, <4>3
    <3>3. CASE g # f
      <4>1. files[g].known[d] = Size
        BY <1>6, <2>2, <3>3
      <4>2. Live(g)
        BY <2>2, <4>1, WholeChunkIsLive
      <4> QED
        BY <1>2, <2>2, <3>3, <4>2 DEF Faithful, OneLive
    <3> QED
      BY <3>1, <3>2, <3>3
  <2> QED
    BY <1>3, <1>8, <2>2 DEF KnownHeld
<1>15. ASSUME NEW g \in DOMAIN files
       PROVE  HandleHeld(g)'
  <2>1. CASE g = f
    BY ZenonT(60), <1>1, <1>8, <2>1 DEF HandleHeld
  <2>2. CASE g # f
    BY <1>6, <1>9, <2>2, HandleKept DEF Faithful
  <2> QED
    BY <2>1, <2>2
<1>16. ASSUME NEW d \in Chunks
       PROVE  CleanHeld(d)'
  <2>1. CASE d = c
    <3>1. t.clean => {c} \X (0 .. files'[f].known[c] - 1) \subseteq kept
      <4>1. files'[f].known[c] - 1 = k
        BY <1>2, <1>7
      <4> QED
        BY <1>4, <1>13, <4>1
    <3> QED
      BY <1>3, <1>4, <1>5, <2>1, <3>1 DEF CleanHeld
  <2>2. CASE d # c /\ threads[d].pc # "write"
    BY <1>5, <2>2, NotWriting
  <2>3. CASE d # c /\ threads[d].pc = "write"
    <3>1. PICK g \in DOMAIN files : threads[d].file = g
      BY <2>3, ThreadAndFile
    <3>2. CleanHeld(d)
      BY DEF Faithful
    <3>3. files'[g].known[d] = files[g].known[d] /\ files'[g].open = files[g].open
      BY <1>8, <2>3
    <3>4. {d} \X (0 .. files[g].known[d] - 1) \subseteq unfinished.right
            => {d} \X (0 .. files[g].known[d] - 1) \subseteq kept
      BY <1>12, <2>3
    <3> QED
      BY <1>3, <1>5, <2>3, <3>1, <3>2, <3>3, <3>4 DEF CleanHeld
  <2> QED
    BY <2>1, <2>2, <2>3
<1>17. SavedHeld'
  <2>1. SUFFICES ASSUME ~ outdated, saved.unfinished,
                        NEW d \in Chunks, saved.known[d] = Size
                 PROVE  /\ Data(d) \subseteq kept
                        /\ \A g \in DOMAIN files : Live(g)' /\ ~ files[g].complete =>
                             files'[g].known[d] = Size
    BY <1>1, <1>3, <1>6, <1>8 DEF SavedHeld
  <2>2. /\ Data(d) \subseteq unfinished.right
        /\ \A g \in DOMAIN files : Live(g) /\ ~ files[g].complete =>
             files[g].known[d] = Size
    BY <1>3, <2>1 DEF Faithful, SavedHeld
  <2>3. d # c
    BY <1>2, <2>2, ChunksFinite
  <2>4. Data(d) \subseteq kept
    BY <1>12, <2>2, <2>3 DEF Data
  <2> QED
    BY <1>8, <1>10, <2>2, <2>3, <2>4
<1> QED
  BY <1>6, <1>11, <1>14, <1>15, <1>16, <1>17 DEF Faithful

LEMMA WriteBufferFaithful ==
  ASSUME SInv, Faithful, NEW c \in Chunks, WriteBuffer(c)
  PROVE  Faithful'
<1>1. PICK f \in DOMAIN files : threads[c].file = f
  BY ThreadAndFile DEF WriteBuffer
<1>2. /\ threads[c].pc = "write" /\ UNCHANGED <<finished, saved, chunksOf, outdated>>
      /\ \/ Mismatch(c, f)
         \/ LeaveWith(c, "error") /\ UNCHANGED <<files, unfinished>>
         \/ \E right \in BOOLEAN : Written(c, f, right)
  BY <1>1, WriteBufferCases
<1>3. CASE Mismatch(c, f)
  BY <1>1, <1>2, <1>3, MismatchFaithful
<1>4. CASE LeaveWith(c, "error") /\ UNCHANGED <<files, unfinished>>
  BY <1>2, <1>4, GoingOnFaithful DEF LeaveWith
<1>5. CASE \E right \in BOOLEAN : Written(c, f, right)
  BY <1>1, <1>2, <1>5, WrittenFaithful
<1> QED
  BY <1>2, <1>3, <1>4, <1>5

(* The only File that is written to is closed.                             *)
LEMMA RenameFileFaithful ==
  ASSUME SInv, Faithful, NEW c \in Chunks, RenameFile(c)
  PROVE  Faithful'
<1>1. PICK f \in DOMAIN files : threads[c].file = f
  BY ThreadAndFile DEF RenameFile
<1>2. /\ threads[c].pc = "release" /\ Become(c, "leave")
      /\ UNCHANGED <<saved, chunksOf, outdated>>
      /\ IF unfinished.exists THEN finished' = unfinished /\ unfinished' = NoFile
         ELSE UNCHANGED <<unfinished, finished>>
  BY <1>1 DEF RenameFile, disk, download, history
<1>3. PICK t \in Thread(Len(files)) :
        /\ threads' = [threads EXCEPT ![c] = t]
        /\ t.file = threads[c].file /\ t.pc = "leave"
        /\ threads'[c] = t /\ \A d \in Chunks : d # c => threads'[d] = threads[d]
  BY <1>2, BecomeThread
<1>4. /\ DOMAIN files' = DOMAIN files
      /\ \A g \in DOMAIN files : g # f => files'[g] = Shut(files[g])
      /\ files'[f] = IF unfinished.exists THEN Renamed(files[f]) ELSE Shut(files[f])
  BY <1>1, RenameFileFiles
<1>5. ASSUME NEW g \in DOMAIN files
      PROVE  /\ files'[g].known = files[g].known /\ files'[g].indexed = files[g].indexed
             /\ files'[g].open = FALSE
             /\ files[g].complete => files'[g].complete
             /\ g # f \/ ~ unfinished.exists => files'[g].complete = files[g].complete
  <2>1. files[g] \in File
    BY FilesFunction DEF SInv
  <2>2. CASE g = f /\ unfinished.exists
    <3>1. files'[g] = Renamed(files[g])
      BY <1>4, <2>2
    <3>2. /\ Renamed(files[g]).known = files[g].known
          /\ Renamed(files[g]).indexed = files[g].indexed
          /\ Renamed(files[g]).open = FALSE /\ Renamed(files[g]).complete = TRUE
      BY <2>1, ShutIsFile
    <3> QED
      BY <2>2, <3>1, <3>2
  <2>3. CASE ~ (g = f /\ unfinished.exists)
    <3>1. files'[g] = Shut(files[g])
      BY <1>4, <2>3
    <3>2. /\ Shut(files[g]).known = files[g].known
          /\ Shut(files[g]).indexed = files[g].indexed
          /\ Shut(files[g]).open = FALSE
          /\ Shut(files[g]).complete = files[g].complete
      BY <2>1, ShutIsFile
    <3> QED
      BY <2>3, <3>1, <3>2
  <2> QED
    BY <2>2, <2>3
<1>6. files[f].known = Full /\ ~ files[f].complete /\ Live(f)
  BY <1>1, <1>2 DEF SInv, Sound, ThreadSound, Live
<1>7. \A g \in DOMAIN files : WritersOf(g)' = WritersOf(g)
  <2>1. threads[c].pc \in Writing /\ t.pc \in Writing
    BY <1>2, <1>3 DEF Writing
  <2> QED
    BY <1>3, <2>1, CountedAsBefore
<1>8. ASSUME NEW g \in DOMAIN files
      PROVE  HandleHeld(g)'
  <2>1. SUFFICES ASSUME WritersOf(g) # {}
                 PROVE  files[g].known = Full
    BY <1>5, <1>7 DEF HandleHeld
  <2>2. Live(g)
    BY <2>1 DEF WritersOf, Live
  <2>3. g = f \/ files[g].complete
    BY <1>6, <2>2 DEF Faithful, OneLive
  <2> QED
    BY <1>6, <2>3 DEF SInv, Sound, FileSound
<1>9. ASSUME NEW g \in DOMAIN files, Live(g)'
      PROVE  Live(g)
  <2>1. files'[g].indexed = files[g].indexed
    BY <1>5
  <2>2. \A d \in Chunks : threads'[d].file = threads[d].file
    BY <1>3
  <2> QED
    BY <1>2, <1>9, <2>1, <2>2 DEF Live
<1>10. \A d \in Chunks : CleanHeld(d)'
  <2>1. ASSUME NEW d \in Chunks, threads'[d].pc = "write"
        PROVE  ~ files'[threads'[d].file].open
    <3>1. threads'[d] = threads[d]
      BY <1>3, <2>1
    <3>2. threads[d].file \in DOMAIN files
      BY <2>1, <3>1, ThreadAndFile
    <3> QED
      BY <1>5, <3>1, <3>2
  <2> QED
    BY <2>1 DEF CleanHeld
<1>11. \A d \in Chunks : \A g \in DOMAIN files :
         threads[d].file = g /\ threads[d].pc = "count" =>
           threads'[d].file = g /\ threads'[d].pc = "count"
  BY <1>2, <1>3
<1>12. CASE ~ unfinished.exists
  <2>1. \A g \in DOMAIN files : files'[g].complete = files[g].complete
    BY <1>5, <1>12
  <2> QED
    BY <2>1, <1>2, <1>4, <1>5, <1>8, <1>9, <1>10, <1>11, <1>12, FaithfulKept
<1>13. CASE unfinished.exists
  <2>1. /\ finished' = unfinished /\ unfinished' = NoFile /\ ~ NoFile.exists
        /\ ~ unfinished'.exists
    BY <1>2, <1>13 DEF NoFile
  <2>2. unfinished.right = Buffers
    <3>1. unfinished.right \subseteq Buffers
      BY <1>13, ExistingFile DEF SInv, TypeOK
    <3>2. ASSUME NEW d \in Chunks
          PROVE  Data(d) \subseteq unfinished.right
      <4>1. files[f].known[d] = Size
        BY <1>6 DEF Full
      <4> QED
        BY <1>6, <1>13, <4>1 DEF Faithful, KnownHeld
    <3>3. Buffers \subseteq unfinished.right
      BY <3>2 DEF Data, Buffers
    <3> QED
      BY <3>1, <3>3
  <2>3. OneLive'
    BY <1>4, <1>5, <1>9 DEF Faithful, OneLive
  <2>4. ASSUME NEW g \in DOMAIN files
        PROVE  KnownHeld(g)'
    <3>1. KnownHeld(g)
      BY DEF Faithful
    <3> QED
      BY <1>5, <1>11, <2>1, <3>1 DEF KnownHeld
  <2>5. SavedHeld'
    BY <2>1 DEF SavedHeld
  <2> QED
    BY <1>4, <1>8, <1>10, <2>1, <2>2, <2>3, <2>4, <2>5 DEF Faithful
<1> QED
  BY <1>12, <1>13

LEMMA ComputeHashesFaithful ==
  ASSUME SInv, Faithful, NEW f \in DOMAIN files, ComputeHashes(f)
  PROVE  Faithful'
<1> DEFINE e == [files[f] EXCEPT !.hashed = TRUE, !.indexed = Chunks]
<1>1. files[f] \in File /\ files[f].complete
  BY FilesFunction DEF SInv, ComputeHashes
<1>2. /\ e \in File /\ e.complete = files[f].complete
      /\ e.known = files[f].known /\ e.writers = files[f].writers
      /\ e.open = files[f].open /\ e.indexed = Chunks
  <2>1. Chunks \in SUBSET Chunks
    OBVIOUS
  <2>2. e \in File
    BY <1>1, <2>1 DEF File
  <2> QED
    BY <1>1, <2>2 DEF File
<1>3. files' = [files EXCEPT ![f] = e]
  BY DEF ComputeHashes
<1> HIDE DEF e
<1>4. /\ DOMAIN files' = DOMAIN files /\ files'[f] = e
      /\ \A g \in DOMAIN files : g # f => files'[g] = files[g]
  BY <1>2, <1>3, OneFileChanged DEF SInv
<1>5. UNCHANGED <<unfinished, finished, saved, chunksOf, threads, outdated>>
  BY DEF ComputeHashes, disk, download, history
<1>6. \A g \in DOMAIN files :
        /\ files'[g].complete = files[g].complete /\ files'[g].known = files[g].known
        /\ files'[g].writers = files[g].writers /\ files'[g].open = files[g].open
        /\ \A d \in Chunks : d \in files[g].indexed => d \in files'[g].indexed
  BY <1>2, <1>4
<1>7. \A g \in DOMAIN files : WritersOf(g)' = WritersOf(g)
  BY <1>5 DEF WritersOf
<1>8. \A g \in DOMAIN files : HandleHeld(g)'
  BY <1>6, <1>7, HandleKept DEF Faithful
<1>9. \A d \in Chunks : CleanHeld(d)'
  BY <1>5, <1>6, CleanKept DEF Faithful
<1>10. \A g \in DOMAIN files : Live(g)' => Live(g) \/ files[g].complete
  BY <1>1, <1>4, <1>5 DEF Live
<1> QED
  BY <1>4, <1>5, <1>6, <1>8, <1>9, <1>10, FaithfulKept

(* No unfinished File but a new one is alive.                              *)
LEMMA NewFileFaithful ==
  ASSUME SInv, SInv', Faithful, NEW n \in DOMAIN files',
         \A g \in DOMAIN files' : g # n => g \in DOMAIN files /\ files'[g] = files[g],
         files'[n] = NewFile,
         \A d \in Chunks : threads[d].pc = "idle" /\ Indexed(d) = {},
         outdated' = TRUE, chunksOf' = n, UNCHANGED <<finished, threads>>
  PROVE  Faithful'
<1>1. \A d \in Chunks : threads[d].file = 0
  BY DEF SInv, Sound, ThreadSound
<1>2. \A g \in DOMAIN files' : g # n => files'[g].indexed = {} /\ g # 0
  <2>1. \A g \in DOMAIN files : files[g].indexed \subseteq Chunks /\ g # 0
    BY FilesFunction DEF SInv, File
  <2>2. \A g \in DOMAIN files : files[g].indexed = {}
    BY <2>1 DEF Indexed
  <2> QED
    BY <2>1, <2>2
<1>3. \A g \in DOMAIN files' : Live(g)' => g = n
  BY <1>1, <1>2 DEF Live
<1>4. OneLive'
  BY <1>3 DEF OneLive
<1>5. ASSUME NEW g \in DOMAIN files'
      PROVE  KnownHeld(g)'
  <2>1. CASE g = n
    <3>1. \A d \in Chunks : NewFile.known[d] # Size
      BY ChunksFinite DEF NewFile, Zero
    <3> QED
      BY <2>1, <3>1 DEF KnownHeld
  <2>2. CASE g # n
    <3>1. ASSUME ~ files[g].complete, NEW d \in Chunks, files[g].known[d] = Size
          PROVE  FALSE
      <4>1. g \in DOMAIN files /\ files'[g] = files[g]
        BY <2>2
      <4>2. d \in files[g].indexed \/ threads[d].pc = "count"
        BY <3>1, <4>1 DEF Faithful, KnownHeld
      <4> QED
        BY <1>2, <2>2, <4>1, <4>2
    <3> QED
      BY <2>2, <3>1 DEF KnownHeld
  <2> QED
    BY <2>1, <2>2
<1>6. \A g : WritersOf(g)' = {}
  BY DEF WritersOf
<1>7. \A g \in DOMAIN files' : HandleHeld(g)'
  BY <1>6 DEF HandleHeld
<1>8. \A d \in Chunks : CleanHeld(d)'
  BY NotWriting
<1>9. SavedHeld'
  BY DEF SavedHeld
<1> QED
  BY <1>4, <1>5, <1>7, <1>8, <1>9 DEF Faithful

LEMMA CreateFileFaithful ==
  ASSUME SInv, SInv', Faithful, CreateFile, ~ misled'
  PROVE  Faithful'
<1>1. /\ UNCHANGED <<finished, saved, threads>>
      /\ (\E f \in DOMAIN files : LinkedTo(f) \/ EmptiedAs(f)) \/ Appended
  BY CreateFileCases
<1>2. /\ DOMAIN files = 1 .. Len(files) /\ Len(files) \in Nat /\ files \in Seq(File)
      /\ NewFile \in File
  BY FilesFunction, NewFileIsFile DEF SInv, TypeOK
<1>3. files' # files =>
        \A d \in Chunks : threads[d].pc = "idle" /\ Indexed(d) = {}
  BY DEF CreateFile, Downloading
<1>4. ASSUME NEW f \in DOMAIN files, LinkedTo(f)
      PROVE  Faithful'
  <2>1. /\ UNCHANGED <<files, unfinished, outdated>> /\ chunksOf' = f
        /\ files[f].complete
    BY <1>4 DEF LinkedTo
  <2>2. \A g \in DOMAIN files : WritersOf(g)' = WritersOf(g)
    BY <1>1 DEF WritersOf
  <2>3. \A g \in DOMAIN files : HandleHeld(g)'
    BY <2>1, <2>2, HandleKept DEF Faithful
  <2>4. \A d \in Chunks : CleanHeld(d)'
    BY <1>1, <2>1, CleanKept DEF Faithful
  <2>5. \A g \in DOMAIN files : Live(g)' => Live(g) \/ files[g].complete
    BY <1>1, <2>1 DEF Live
  <2> QED
    BY <1>1, <2>1, <2>3, <2>4, <2>5, FaithfulKept
<1>5. ASSUME NEW f \in DOMAIN files, EmptiedAs(f)
      PROVE  Faithful'
  <2>1. /\ DOMAIN files' = DOMAIN files /\ files'[f] = NewFile
        /\ \A g \in DOMAIN files : g # f => files'[g] = files[g]
    BY <1>2, <1>5, OneFileChanged DEF EmptiedAs, SInv
  <2>2. files' # files
    <3>1. files[f].complete /\ ~ NewFile.complete
      BY <1>5 DEF EmptiedAs, NewFile
    <3> QED
      BY <2>1, <3>1
  <2>3. outdated' = TRUE /\ chunksOf' = f
    BY <1>5 DEF EmptiedAs
  <2> QED
    BY <1>1, <1>3, <2>1, <2>2, <2>3, NewFileFaithful
<1>6. CASE Appended
  <2> DEFINE n == Len(files) + 1
  <2>1. /\ files' \in Seq(File) /\ Len(files') = n /\ DOMAIN files' = 1 .. n
        /\ files'[n] = NewFile
        /\ \A g \in 1 .. Len(files) : files'[g] = files[g]
    BY <1>2, <1>6, AppendProperties, LenProperties DEF Appended
  <2>2. files' # files
    BY <1>2, <2>1
  <2>3. outdated' = TRUE /\ chunksOf' = n
    BY <1>6 DEF Appended
  <2>4. /\ n \in DOMAIN files'
        /\ \A g \in DOMAIN files' : g # n => g \in DOMAIN files /\ files'[g] = files[g]
    BY <1>2, <2>1
  <2> HIDE DEF n
  <2> QED
    BY <1>1, <1>3, <2>1, <2>2, <2>3, <2>4, NewFileFaithful
<1> QED
  BY <1>1, <1>4, <1>5, <1>6

(* What is saved of an unfinished file was on the disk.                    *)
LEMMA SavedIsHeld ==
  ASSUME Faithful, SaveEntries, saved'.unfinished, unfinished.exists,
         NEW d \in Chunks, saved'.known[d] = Size
  PROVE  /\ Data(d) \subseteq unfinished.right
         /\ \A g \in DOMAIN files : Live(g) /\ ~ files[g].complete =>
              files[g].known[d] = Size
<1>1. \A b, k : Entries(b, k).unfinished = b /\ Entries(b, k).known = k
  BY DEF Entries
<1>2. PICK f \in Unfinished : saved' = Entries(TRUE, files[f].known)
  BY <1>1 DEF SaveEntries
<1>3. f \in DOMAIN files /\ ~ files[f].complete /\ files[f].known[d] = Size
  BY ZenonT(60), <1>1, <1>2 DEF Unfinished
<1>4. Live(f) /\ Data(d) \subseteq unfinished.right
  BY <1>3, WholeChunkIsLive DEF Faithful, KnownHeld
<1> QED
  BY <1>3, <1>4 DEF Faithful, OneLive

LEMMA PersistCacheFaithful ==
  ASSUME SInv, Faithful, PersistCache
  PROVE  Faithful'
<1>1. /\ UNCHANGED <<unfinished, finished, files, chunksOf, threads>> /\ SaveEntries
  BY DEF PersistCache, disk, download
<1>2. \A g \in DOMAIN files : Live(g)' <=> Live(g)
  BY <1>1 DEF Live
<1>3. OneLive'
  BY <1>1, <1>2 DEF Faithful, OneLive
<1>4. ASSUME NEW g \in DOMAIN files
      PROVE  KnownHeld(g)' /\ HandleHeld(g)'
  <2>1. KnownHeld(g) /\ HandleHeld(g)
    BY DEF Faithful
  <2>2. WritersOf(g)' = WritersOf(g)
    BY <1>1 DEF WritersOf
  <2> QED
    BY <1>1, <2>1, <2>2 DEF KnownHeld, HandleHeld
<1>5. \A d \in Chunks : CleanHeld(d)'
  BY <1>1, CleanKept DEF Faithful
<1>6. SavedHeld'
  BY <1>1, <1>2, SavedIsHeld DEF SavedHeld
<1> QED
  BY <1>1, <1>3, <1>4, <1>5, <1>6 DEF Faithful

LEMMA EndFaithful ==
  ASSUME SInv, Faithful, Crash \/ Quit
  PROVE  Faithful'
<1>1. Stopped /\ UNCHANGED <<unfinished, finished>>
  BY DEF Crash, Quit, disk, history
<1>2. DOMAIN files' = {} /\ \A d \in Chunks : threads'[d].pc = "idle"
  BY <1>1 DEF Stopped, Resting
<1>3. \A d \in Chunks : CleanHeld(d)'
  BY <1>2, NotWriting
<1>4. SavedHeld'
  <2>1. CASE Crash
    BY <1>1, <1>2, <2>1 DEF Faithful, SavedHeld, Crash, history
  <2>2. CASE Quit
    <3>1. SaveEntries
      BY <2>2 DEF Quit
    <3> QED
      BY <1>1, <1>2, <3>1, SavedIsHeld DEF SavedHeld
  <2> QED
    BY <2>1, <2>2
<1> QED
  BY <1>1, <1>2, <1>3, <1>4 DEF Faithful, OneLive

LEMMA UserDeletesFaithful ==
  ASSUME SInv, Faithful, UserDeletes
  PROVE  Faithful'
<1>1. /\ UNCHANGED <<finished, files, chunksOf, threads>>
      /\ unfinished' = NoFile /\ ~ NoFile.exists
      /\ \A f \in DOMAIN files : ~ files[f].open
  BY DEF UserDeletes, download, NoFile
<1>2. OneLive'
  <2>1. \A g \in DOMAIN files : Live(g)' <=> Live(g)
    BY <1>1 DEF Live
  <2> QED
    BY <1>1, <2>1 DEF Faithful, OneLive
<1>3. ASSUME NEW g \in DOMAIN files
      PROVE  KnownHeld(g)' /\ HandleHeld(g)'
  <2>1. KnownHeld(g) /\ HandleHeld(g)
    BY DEF Faithful
  <2>2. WritersOf(g)' = WritersOf(g)
    BY <1>1 DEF WritersOf
  <2> QED
    BY <1>1, <2>1, <2>2 DEF KnownHeld, HandleHeld
<1>4. ASSUME NEW d \in Chunks
      PROVE  CleanHeld(d)'
  <2>1. threads[d].pc = "write" => threads[d].file \in DOMAIN files
    BY ThreadAndFile
  <2> QED
    BY <1>1, <2>1 DEF CleanHeld
<1>5. SavedHeld'
  BY <1>1 DEF SavedHeld
<1> QED
  BY <1>1, <1>2, <1>3, <1>4, <1>5 DEF Faithful

(* One unfinished File is restored at most: it knows what was saved.       *)
LEMMA RestoredUnfinishedFile ==
  ASSUME TypeOK, NEW s, s = RestoredFinished \o RestoredUnfinished,
         NEW g \in DOMAIN s, ~ s[g].complete
  PROVE  /\ g = Len(RestoredFinished) + 1
         /\ unfinished.exists /\ saved.unfinished
         /\ s[g].known = saved.known
         /\ s[g].indexed = {c \in Chunks : saved.known[c] > 0}
<1> DEFINE a == RestoredFinished
           b == RestoredUnfinished
           ii == {c \in Chunks : saved.known[c] > 0}
           e == [NewFile EXCEPT !.known = saved.known, !.indexed = ii]
<1>1. /\ a \in Seq(RestoredFile) /\ b \in Seq(RestoredFile)
      /\ Len(a) \in Nat /\ Len(b) \in Nat
  BY RestoredTypes, LenProperties
<1>2. \A i \in 1 .. Len(a) : a[i].complete
  <2>1. CASE finished.exists
    <3> DEFINE d == [NewFile EXCEPT !.complete = TRUE, !.known = Full,
                       !.hashed = saved.complete,
                       !.indexed = IF saved.complete THEN Chunks ELSE {}]
    <3>1. a = <<d>>
      BY <2>1 DEF RestoredFinished
    <3>2. d.complete = TRUE
      BY DEF NewFile
    <3> HIDE DEF d, a
    <3> QED
      BY <3>1, <3>2
  <2>2. CASE ~ finished.exists
    <3>1. a = <<>>
      BY <2>2 DEF RestoredFinished
    <3> HIDE DEF a
    <3> QED
      BY <3>1
  <2> QED
    BY <2>1, <2>2
<1>3. b = IF ~ unfinished.exists \/ ~ saved.unfinished THEN <<>> ELSE <<e>>
  BY DEF RestoredUnfinished
<1>4. e.known = saved.known /\ e.indexed = ii
  <2> HIDE DEF ii
  <2> QED
    BY DEF NewFile
<1> HIDE DEF a, b, e, ii
<1>5. /\ s = a \o b /\ s \in Seq(RestoredFile) /\ Len(s) = Len(a) + Len(b)
      /\ \A i \in 1 .. Len(a) + Len(b) :
           s[i] = IF i <= Len(a) THEN a[i] ELSE b[i - Len(a)]
  <2>1. s = a \o b
    BY DEF a, b
  <2> QED
    BY <1>1, <2>1, ConcatProperties
<1>6. g \in 1 .. Len(a) + Len(b)
  BY <1>5, LenProperties
<1>7. g > Len(a) /\ g \in Nat
  BY <1>1, <1>2, <1>5, <1>6
<1>8. s[g] = b[g - Len(a)] /\ g - Len(a) \in 1 .. Len(b)
  BY <1>1, <1>5, <1>6, <1>7
<1>9. unfinished.exists /\ saved.unfinished /\ b = <<e>> /\ Len(b) = 1
  <2>1. CASE ~ unfinished.exists \/ ~ saved.unfinished
    BY <1>3, <1>8, <2>1
  <2>2. CASE unfinished.exists /\ saved.unfinished
    BY <1>3, <2>2
  <2> QED
    BY <2>1, <2>2
<1>10. g = Len(a) + 1 /\ s[g] = e
  BY <1>1, <1>7, <1>8, <1>9
<1> QED
  BY <1>4, <1>9, <1>10 DEF a, ii

LEMMA RestoreFaithful ==
  ASSUME SInv, SInv', Faithful, Restore, ~ outdated
  PROVE  Faithful'
<1>1. /\ UNCHANGED <<finished, saved, chunksOf, threads, outdated>>
      /\ phase = "scan" /\ files' = RestoredFinished \o RestoredUnfinished
      /\ unfinished' = IF saved.unfinished THEN unfinished ELSE NoFile
  BY DEF Restore, download
<1>2. \A d \in Chunks : threads[d].pc = "idle"
  BY <1>1 DEF SInv, Sound, PhaseSound
<1>3. \A g \in DOMAIN files' : ~ files'[g].complete =>
        /\ g = Len(RestoredFinished) + 1
        /\ unfinished.exists /\ saved.unfinished
        /\ files'[g].known = saved.known
        /\ files'[g].indexed = {c \in Chunks : saved.known[c] > 0}
  BY <1>1, RestoredUnfinishedFile DEF SInv
<1>4. OneLive'
  BY <1>3 DEF OneLive
<1>5. ASSUME NEW g \in DOMAIN files'
      PROVE  KnownHeld(g)'
  <2>1. ASSUME ~ files'[g].complete, NEW d \in Chunks, files'[g].known[d] = Size
        PROVE  d \in files'[g].indexed /\ Data(d) \subseteq unfinished'.right
    <3>1. /\ unfinished.exists /\ saved.unfinished /\ saved.known[d] = Size
          /\ files'[g].indexed = {c \in Chunks : saved.known[c] > 0}
      BY <1>3, <2>1
    <3>2. d \in files'[g].indexed
      BY <3>1, ChunksFinite
    <3>3. Data(d) \subseteq unfinished.right
      BY <3>1 DEF Faithful, SavedHeld
    <3> QED
      BY <1>1, <3>1, <3>2, <3>3
  <2> QED
    BY <2>1 DEF KnownHeld
<1>6. \A g : WritersOf(g)' = {}
  BY <1>1, <1>2 DEF WritersOf
<1>7. \A g \in DOMAIN files' : HandleHeld(g)'
  BY <1>6 DEF HandleHeld
<1>8. \A d \in Chunks : CleanHeld(d)'
  BY <1>1, <1>2, NotWriting
<1>9. SavedHeld'
  <2>1. SUFFICES ASSUME unfinished'.exists, saved.unfinished,
                        NEW d \in Chunks, saved.known[d] = Size
                 PROVE  /\ Data(d) \subseteq unfinished'.right
                        /\ \A g \in DOMAIN files' : ~ files'[g].complete =>
                             files'[g].known[d] = Size
    BY <1>1 DEF SavedHeld
  <2>2. unfinished' = unfinished /\ unfinished.exists
    BY <1>1, <2>1
  <2>3. Data(d) \subseteq unfinished.right
    BY <2>1, <2>2 DEF Faithful, SavedHeld
  <2> QED
    BY <1>3, <2>1, <2>2, <2>3
<1> QED
  BY <1>1, <1>4, <1>5, <1>7, <1>8, <1>9 DEF Faithful

(* The File of the download is removed, with its unfinished file.          *)
LEMMA RemoveDownloadFaithful ==
  ASSUME SInv, SInv', Faithful, RemoveDownload
  PROVE  Faithful'
<1>1. /\ UNCHANGED <<finished, saved>> /\ chunksOf' = 0
      /\ threads' = [c \in Chunks |-> Resting]
      /\ \A c \in Chunks : threads[c].pc \in {"idle", "open", "write", "ended"}
      /\ IF chunksOf = 0 THEN UNCHANGED <<unfinished, cacheChanged, outdated>>
         ELSE unfinished' = NoFile /\ cacheChanged' = TRUE /\ outdated' = TRUE
  BY DEF RemoveDownload
<1>2. \A g \in DOMAIN files' :
        Shifted(g) \in DOMAIN files /\ files'[g] = Abandoned(Shifted(g))
  BY RemoveDownloadFiles
<1>3. ASSUME NEW g \in DOMAIN files'
      PROVE  /\ Shifted(g) \in DOMAIN files
             /\ files'[g].complete = files[Shifted(g)].complete
             /\ files'[g].known = files[Shifted(g)].known
             /\ files'[g].indexed = files[Shifted(g)].indexed
  BY <1>2, AbandonedIsFile
<1>4. \A g \in DOMAIN files' : g \in Nat /\ g # 0
  BY FilesFunction, LenProperties DEF SInv, TypeOK
<1>5. \A g, h \in DOMAIN files' : Shifted(g) = Shifted(h) => g = h
  <2>1. chunksOf \in Nat
    BY FilesFunction DEF SInv, TypeOK
  <2> QED
    BY <1>4, <2>1 DEF Shifted
<1>6. \A c \in Chunks : threads'[c].pc = "idle" /\ threads'[c].file = 0
  BY <1>1 DEF Resting
<1>7. \A g \in DOMAIN files' : Live(g)' => Live(Shifted(g))
  BY <1>1, <1>3, <1>4, <1>6 DEF Live
<1>8. OneLive'
  BY <1>3, <1>5, <1>7 DEF Faithful, OneLive
<1>9. ~ NoFile.exists
  BY DEF NoFile
<1>10. ASSUME NEW g \in DOMAIN files'
       PROVE  KnownHeld(g)'
  <2>1. KnownHeld(Shifted(g))
    BY <1>3 DEF Faithful
  <2> QED
    BY <1>1, <1>3, <1>9, <2>1 DEF KnownHeld
<1>11. \A g : g # 0 => WritersOf(g)' = {}
  BY <1>6 DEF WritersOf
<1>12. \A g \in DOMAIN files' : HandleHeld(g)'
  BY <1>4, <1>11 DEF HandleHeld
<1>13. \A d \in Chunks : CleanHeld(d)'
  BY <1>6, NotWriting
<1>14. SavedHeld'
  <2>1. CASE chunksOf # 0
    BY <1>1, <1>9, <2>1 DEF SavedHeld
  <2>2. CASE chunksOf = 0
    <3>1. SUFFICES ASSUME ~ outdated, unfinished.exists, saved.unfinished,
                          NEW d \in Chunks, saved.known[d] = Size
                   PROVE  /\ Data(d) \subseteq unfinished.right
                          /\ \A g \in DOMAIN files' : Live(g)' /\ ~ files'[g].complete =>
                               files'[g].known[d] = Size
      BY <1>1, <2>2 DEF SavedHeld
    <3> QED
      BY <1>3, <1>7, <3>1 DEF Faithful, SavedHeld
  <2> QED
    BY <2>1, <2>2
<1> QED
  BY <1>1, <1>8, <1>10, <1>12, <1>13, <1>14 DEF Faithful

-----------------------------------------------------------------------------
LEMMA InitFaithful ==
  ASSUME Init
  PROVE  Faithful
<1>1. DOMAIN files = {} /\ ~ finished.exists /\ ~ unfinished.exists
  BY DEF Init, NoFile
<1>2. \A d \in Chunks : CleanHeld(d)
  BY DEF Init, Resting, CleanHeld
<1>3. SavedHeld
  BY <1>1 DEF SavedHeld
<1> QED
  BY <1>1, <1>2, <1>3 DEF Faithful, OneLive

LEMMA StepFaithful ==
  ASSUME SInv, SInv', misled \/ Faithful, [Next]_vars
  PROVE  (misled \/ Faithful)'
<1>1. SUFFICES ASSUME ~ misled'
               PROVE  Faithful'
  OBVIOUS
<1>2. misled => misled'
  <2>1. CASE CreateFile
    BY <2>1 DEF CreateFile
  <2>2. CASE Restore
    BY <2>2 DEF Restore
  <2>3. CASE ~ CreateFile /\ ~ Restore
    BY <2>3
    DEF Next, Step, CreateWriter, WriteBuffer, ChunkComplete, ReleaseHandles,
        RenameFile, DeleteWriter, Disconnect, StartDownloading, Finished,
        RestartErroneous, RemoveDownload, AddDownload, ComputeHashes,
        PersistCache, Crash, Quit, Boot, LoadQueue, UserDeletes, vars, history
  <2> QED
    BY <2>1, <2>2, <2>3
<1>3. Faithful
  BY <1>1, <1>2
<1>4. CASE \E c \in Chunks : Step(c) \/ Disconnect(c) \/ StartDownloading(c)
                              \/ Finished(c)
  BY <1>3, <1>4, CreateWriterFaithful, WriteBufferFaithful, ChunkCompleteFaithful,
     ReleaseHandlesFaithful, RenameFileFaithful, DeleteWriterFaithful,
     DisconnectFaithful, StartDownloadingFaithful, FinishedFaithful
  DEF Step
<1>5. CASE CreateFile
  BY <1>1, <1>3, <1>5, CreateFileFaithful
<1>6. CASE RestartErroneous \/ AddDownload \/ LoadQueue \/ Boot
  BY <1>3, <1>6, StartFaithful
<1>7. CASE RemoveDownload
  BY <1>3, <1>7, RemoveDownloadFaithful
<1>8. CASE \E f \in DOMAIN files : ComputeHashes(f)
  BY <1>3, <1>8, ComputeHashesFaithful
<1>9. CASE PersistCache \/ Crash \/ Quit \/ UserDeletes
  BY <1>3, <1>9, PersistCacheFaithful, EndFaithful, UserDeletesFaithful
<1>10. CASE Restore
  <2>1. ~ outdated
    BY <1>1, <1>10 DEF Restore
  <2> QED
    BY <1>3, <1>10, <2>1, RestoreFaithful
<1>11. CASE UNCHANGED vars
  <2>1. UNCHANGED <<unfinished, finished, saved, files, threads, chunksOf, outdated>>
    BY <1>11 DEF vars, disk, download, history
  <2> QED
    BY <1>3, <2>1, LinkingFaithful
<1> QED
  BY <1>4, <1>5, <1>6, <1>7, <1>8, <1>9, <1>10, <1>11 DEF Next

(* Whatever the threads, the peers, the disk, the user and the end of the  *)
(* program do, IInv holds: the Files say of the disk what is true, unless  *)
(* an old cache was restored or the file created again under a thread.     *)
THEOREM Invariance == Spec => []IInv
<1>1. Init => IInv
  BY InitSound, InitFaithful DEF IInv, SInv
<1>2. IInv /\ [Next]_vars => IInv'
  <2>1. ASSUME IInv, [Next]_vars
        PROVE  IInv'
    <3>1. SInv /\ (misled \/ Faithful)
      BY <2>1 DEF IInv, SInv
    <3>2. SInv'
      BY <2>1, <3>1, StepSound
    <3>3. (misled \/ Faithful)'
      BY <2>1, <3>1, <3>2, StepFaithful
    <3> QED
      BY <3>2, <3>3 DEF IInv, SInv
  <2> QED
    BY <2>1
<1> QED
  BY <1>1, <1>2, PTL DEF Spec

(* What the download counts as a complete chunk is on the disk: a bad      *)
(* buffer, a connection that drops, a file that was deleted and a crash do *)
(* not leave a chunk that claims data it has not (DataWriter::write,       *)
(* File::newDataWriterCreated), as long as no saved cache older than the   *)
(* file was restored.                                                      *)
THEOREM DownloadedHeld == Spec => []DownloadedIsHeld
<1>1. IInv => DownloadedIsHeld
  <2>1. SUFFICES ASSUME IInv, ~ misled, exists, OnDisk(chunksOf).exists,
                        NEW c \in Chunks, IsComplete(chunksOf, c)
                 PROVE  Data(c) \subseteq OnDisk(chunksOf).right
    BY DEF DownloadedIsHeld, Data
  <2>2. TypeOK /\ PhaseSound /\ Faithful
    BY <2>1 DEF IInv, Sound
  <2>3. chunksOf \in DOMAIN files /\ files[chunksOf].known[c] = Size
    BY <2>1, <2>2, FilesFunction DEF TypeOK, PhaseSound, IsComplete
  <2>4. CASE files[chunksOf].complete
    BY <2>1, <2>2, <2>4 DEF OnDisk, Faithful, Data, Buffers
  <2>5. CASE ~ files[chunksOf].complete
    BY <2>1, <2>2, <2>3, <2>5 DEF OnDisk, Faithful, KnownHeld
  <2> QED
    BY <2>4, <2>5
<1> QED
  BY <1>1, Invariance, PTL

(* A file gets its final name with all its data (File::setAsComplete).     *)
THEOREM FinishedWhole == Spec => []FinishedIsWhole
<1>1. IInv => FinishedIsWhole
  BY DEF IInv, Faithful, FinishedIsWhole
<1> QED
  BY <1>1, Invariance, PTL

(* A thread that writes has a handle, unless the first open failed: no     *)
(* other thread that leaves the file, completes it or joins it closes the  *)
(* handle (File::newDataWriterCreated, dataWriterDeleted, setAsComplete).  *)
THEOREM WritersHaveHandles == Spec => []WriterHasHandle
<1>1. IInv => WriterHasHandle
  <2>1. SUFFICES ASSUME IInv, ~ misled, NEW c \in Chunks, threads[c].pc = "write"
                 PROVE  LET f == threads[c].file
                        IN  files[f].open \/ files[f].writers > Cardinality(WritersOf(f))
    BY DEF WriterHasHandle
  <2>2. SInv /\ Faithful
    BY <2>1 DEF IInv, SInv
  <2>3. PICK f \in DOMAIN files : threads[c].file = f
    BY <2>1, <2>2, ThreadAndFile
  <2>4. WritersOf(f) # {}
    BY <2>1, <2>3 DEF WritersOf
  <2>5. files[f].known # Full
    BY <2>1, <2>2, <2>3, WrittenIsLive
  <2> QED
    BY <2>2, <2>3, <2>4, <2>5 DEF Faithful, HandleHeld
<1> QED
  BY <1>1, Invariance, PTL
=============================================================================
