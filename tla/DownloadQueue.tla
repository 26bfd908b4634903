--------------------------- MODULE DownloadQueue ---------------------------
(***************************************************************************)
(* The list of downloads: its order, the positions saved to speed up its   *)
(* scans, and the operations that insert, move and remove downloads.       *)
(*                                                                         *)
(* A scan of the downloads that match a predicate begins at a marker, the  *)
(* position before which nothing matches.  Every operation shifts the      *)
(* markers instead of searching again; a marker left too far hides a       *)
(* download from every later scan, and it is never downloaded.             *)
(*                                                                         *)
(* Positions count from 0, as in the code: q[i + 1] is downloads[i].       *)
(***************************************************************************)
EXTENDS Integers, FiniteSets, SequencesExt

CONSTANTS
  Downloads,      \* the Download objects that may ever be created
  Dirs,           \* the DirDownload ones; the others are FileDownload
  Parent,         \* Parent[d]: the directory whose entries bring d, or NoDir
  NoDir,
  Entry,          \* Entry[d]: shared directory, path and name of the local file
  MaxNamed        \* bound: downloads named by one request to move or remove

ASSUME QueueAssumption ==
  /\ IsFiniteSet(Downloads)
  /\ Dirs \subseteq Downloads
  /\ NoDir \notin Downloads
  /\ Parent \in [Downloads -> Dirs \cup {NoDir}]
  /\ MaxNamed \in Nat

VARIABLES
  downloads,      \* the list
  status,         \* QUEUED stands for every status but the other three
  marker,         \* marker[P]: Marker::position of the predicate P
  adding,         \* the loop of addDownload calls in progress, see Adding
  loaded,         \* queueLoaded
  stored          \* the downloads whose complete file is on the disk

vars == <<downloads, status, marker, adding, loaded, stored>>

Predicates == {"IsDownloadable", "IsADirectory"}

(***************************************************************************)
(* What each predicate accepts.                                            *)
(***************************************************************************)
Matching ==
  [IsDownloadable |-> {d \in Downloads \ Dirs : status[d] \notin {"COMPLETE", "DELETED"}},
   IsADirectory   |-> Dirs]

(***************************************************************************)
(* A predicate never scanned has no marker.  No position is below -1: the  *)
(* three updates leave it alone.                                           *)
(***************************************************************************)
NoMarker == -1

Position(P) == IF marker[P] = NoMarker THEN 0 ELSE marker[P]

(***************************************************************************)
(* Loading the queue file and replacing a directory call addDownload in a  *)
(* loop; each call may scan the queue but no other operation comes         *)
(* between.  dir is NoDir for the queue file, whose entries go to the end; *)
(* the children of a directory go to first, first + 1, ...                 *)
(***************************************************************************)
Idle == [active |-> FALSE, list |-> <<>>, done |-> 0, dir |-> NoDir, first |-> 0]

Adding == [active : BOOLEAN, list : Seq(Downloads), done : Nat,
           dir : Dirs \cup {NoDir}, first : Nat]

Queued == ToSet(downloads)

Unused == {d \in Downloads : status[d] = "NONE"}

-----------------------------------------------------------------------------
(***************************************************************************)
(* What a mistake would look like, for the mutation runs: a removal that   *)
(* forgets the markers, a match moved before the marker without it, every  *)
(* child inserted at the place of the directory.                           *)
(***************************************************************************)
MarkersForgotten(m, i) == m

MarkerNotPulled(p, to, from) ==
  IF from < p /\ to > p THEN p - 1 ELSE p

SamePosition == IF adding.dir = NoDir THEN Len(downloads) ELSE adding.first

(***************************************************************************)
(* The markers after an insertion, a removal, and a move, which inserts d  *)
(* a second time at position to, then removes position from.               *)
(***************************************************************************)
MarkersInsert(m, match, i, d) ==
  [P \in Predicates |->
     IF d \notin match[P]
       THEN IF i <= m[P] THEN m[P] + 1 ELSE m[P]
       ELSE IF i < m[P] THEN i ELSE m[P]]

MarkersRemove(m, i) ==
  [P \in Predicates |-> IF i < m[P] THEN m[P] - 1 ELSE m[P]]

ShiftedByMove(p, to, from) ==
  LET inserted == IF to <= p THEN p + 1 ELSE p
  IN IF from < inserted THEN inserted - 1 ELSE inserted

PulledByMove(p, to, from) ==
  LET pulled == IF from > p /\ to < p THEN to ELSE p
  IN IF from < pulled /\ to > pulled THEN pulled - 1 ELSE pulled

MarkersMove(m, match, to, from, d) ==
  [P \in Predicates |-> IF d \notin match[P]
                          THEN ShiftedByMove(m[P], to, from)
                          ELSE PulledByMove(m[P], to, from)]

(***************************************************************************)
(* The list and the markers, as the loops below change them together.      *)
(***************************************************************************)
MoveOne(s, match, d, to, from) ==
  [s EXCEPT !.q = RemoveAt(InsertAt(@, to + 1, d), from + 1),
            !.m = MarkersMove(@, match, to, from, d)]

-----------------------------------------------------------------------------
(***************************************************************************)
(* One turn of the loop of moveDownloads, at position i.  ids and refs are *)
(* downloadIDsCopy and downloadIDRefsCopy, ref is downloadIDRef (NoDir for *)
(* 0), at is iRef, waiting is iToMove.                                     *)
(***************************************************************************)
(* Once the reference is known, a download to move goes next to it. *)
MoveToReference(s, match, d, i, where) ==
  LET to == IF where = "BEFORE" THEN s.at ELSE s.at + 1
  IN [MoveOne(s, match, d, to, i + 1) EXCEPT !.at = @ + 1]

(* The reference is d if d is the first, or the last of those asked for. *)
ChooseReference(s, d, where) ==
  IF s.ref # NoDir \/ d \notin s.refs THEN s
  ELSE IF where = "BEFORE" \/ s.refs = {d} THEN [s EXCEPT !.ref = d]
  ELSE [s EXCEPT !.refs = @ \ {d}]

(* As JoinReference below, without counting the downloads already moved. *)
JoinUnshifted(s, match, k, where) ==
  LET to == IF where = "AFTER" THEN s.at + 1 ELSE s.at
  IN IF s.waiting[k] = s.at /\ where = "BEFORE"
     THEN [s EXCEPT !.at = @ + 1]
     ELSE MoveOne(s, match, s.q[s.waiting[k] + 1], to, s.waiting[k])

(* The k-th download that was waiting for the reference joins it. *)
JoinReference(s, match, k, where) ==
  LET from == s.waiting[k] + s.shift
      to   == IF where = "AFTER" THEN s.at + 1 ELSE s.at
  IN IF s.waiting[k] = s.at /\ where = "BEFORE"
     THEN [s EXCEPT !.at = @ + 1]
     ELSE [MoveOne(s, match, s.q[from + 1], to, from) EXCEPT !.shift = @ - 1]

ReferenceReached(s, match, i, where) ==
  LET join[k \in 0 .. Len(s.waiting)] ==
        IF k = 0 THEN [s EXCEPT !.at = i, !.shift = 0]
                 ELSE JoinReference(join[k - 1], match, k, where)
  IN [join[Len(s.waiting)] EXCEPT !.waiting = <<>>]

MoveTurn(s, match, i, where) ==
  LET d == s.q[i + 1]
      waits == [s EXCEPT !.waiting = Append(@, i), !.ids = @ \ {d}]
      chosen == ChooseReference(IF d \in s.ids THEN waits ELSE s, d, where)
  IN IF d \in s.ids /\ s.at # -1 THEN MoveToReference(s, match, d, i, where)
     ELSE IF d = chosen.ref THEN ReferenceReached(chosen, match, i, where)
     ELSE chosen

(***************************************************************************)
(* The list and the markers once the downloads ids are moved BEFORE or     *)
(* AFTER the downloads refs.                                               *)
(***************************************************************************)
Moved(q, m, match, refs, ids, where) ==
  LET start == [q |-> q, m |-> m, ids |-> ids, refs |-> refs,
                ref |-> IF Cardinality(refs) = 1 THEN CHOOSE r \in refs : TRUE
                                                 ELSE NoDir,
                at |-> -1, waiting |-> <<>>, shift |-> 0]
      turn[n \in 0 .. Len(q)] ==
        IF n = 0 THEN start ELSE MoveTurn(turn[n - 1], match, n - 1, where)
  IN [q |-> turn[Len(q)].q, m |-> turn[Len(q)].m]

-----------------------------------------------------------------------------
(***************************************************************************)
(* One turn of the loop of removeDownloads: the downloads from i to j - 1  *)
(* are to erase, and are erased when the first one to keep is met.         *)
(***************************************************************************)
Erased(q, i, j) == SubSeq(q, 1, i) \o SubSeq(q, j + 1, Len(q))

(* As RemoveTurn, when the erased range takes the first download to keep. *)
RemoveOneTooMany(s, gone) ==
  IF s.j = Len(s.q) THEN s
  ELSE IF s.q[s.j + 1] \in gone
    THEN [s EXCEPT !.j = @ + 1, !.m = MarkersRemove(@, s.position)]
  ELSE IF s.i # s.j
    THEN [s EXCEPT !.q = Erased(@, s.i, s.j + 1), !.j = s.i]
  ELSE [s EXCEPT !.i = @ + 1, !.j = @ + 1, !.position = @ + 1]

RemoveTurn(s, gone) ==
  IF s.j = Len(s.q) THEN s
  ELSE IF s.q[s.j + 1] \in gone
    THEN [s EXCEPT !.j = @ + 1, !.m = MarkersRemove(@, s.position)]
  ELSE IF s.i # s.j
    THEN [s EXCEPT !.q = Erased(@, s.i, s.j), !.j = s.i]
  ELSE [s EXCEPT !.i = @ + 1, !.j = @ + 1, !.position = @ + 1]

Removed(q, m, gone) ==
  LET turn[n \in 0 .. 2 * Len(q)] ==
        IF n = 0 THEN [q |-> q, m |-> m, i |-> 0, j |-> 0, position |-> 0]
                 ELSE RemoveTurn(turn[n - 1], gone)
      end == turn[2 * Len(q)]
  IN [q |-> Erased(end.q, end.i, end.j), m |-> end.m]

-----------------------------------------------------------------------------
Init ==
  /\ downloads = <<>>
  /\ status = [d \in Downloads |-> "NONE"]
  /\ marker = [P \in Predicates |-> NoMarker]
  /\ adding = Idle
  /\ loaded = FALSE
  /\ stored = {}

IsEntryAlreadyQueued(d) ==
  \E e \in Queued \ Dirs : Entry[e] = Entry[d]

(***************************************************************************)
(* addDownload with a position: nothing happens if a file with the same    *)
(* local entry is queued.  QList::insert appends beyond the end.           *)
(***************************************************************************)
Insert(d, st, i) ==
  LET place == IF i < Len(downloads) THEN i ELSE Len(downloads)
  IN IF IsEntryAlreadyQueued(d) THEN UNCHANGED <<downloads, status, marker>>
     ELSE /\ status' = [status EXCEPT ![d] = st]
          /\ marker' = MarkersInsert(marker, Matching', i, d)
          /\ downloads' = InsertAt(downloads, place + 1, d)

(* A download asked for by the user goes to the end. *)
AddDownload(d) ==
  /\ ~adding.active
  /\ d \in Unused /\ Parent[d] = NoDir
  /\ ~IsEntryAlreadyQueued(d)
  /\ Insert(d, "QUEUED", Len(downloads))
  /\ UNCHANGED <<adding, loaded, stored>>

(* The file cache is loaded: the saved queue is read. *)
LoadQueueFromFile(list) ==
  /\ ~adding.active /\ ~loaded
  /\ ToSet(list) \subseteq {d \in Unused : Parent[d] = NoDir}
  /\ adding' = [Idle EXCEPT !.active = TRUE, !.list = list]
  /\ UNCHANGED <<downloads, status, marker, loaded, stored>>

(***************************************************************************)
(* The source answers with the entries of a directory: the directory is    *)
(* taken out of the list and its children will take its place, the files   *)
(* before the directories.                                                 *)
(***************************************************************************)
NewEntries(dir, list) ==
  LET position == SelectInSeq(downloads, LAMBDA e : e = dir) - 1
  IN /\ ~adding.active
     /\ dir \in Queued \cap Dirs
     /\ ToSet(list) \subseteq {d \in Unused : Parent[d] = dir}
     /\ \A j \in 1 .. Len(list) : \A i \in 1 .. j - 1 :
          list[i] \in Dirs => list[j] \in Dirs
     /\ marker' = MarkersRemove(marker, position)
     /\ downloads' = RemoveAt(downloads, position + 1)
     /\ adding' = [active |-> TRUE, list |-> list, done |-> 0, dir |-> dir,
                   first |-> position]
     /\ UNCHANGED <<status, loaded, stored>>

(* The position of the next entry to add, whether or not it is a duplicate. *)
NextPosition ==
  IF adding.dir = NoDir THEN Len(downloads) ELSE adding.first + adding.done

(***************************************************************************)
(* One addDownload of the loop.  An entry of the queue file may be         *)
(* complete, and its file may have disappeared meanwhile.                  *)
(***************************************************************************)
AddNext ==
  LET d == adding.list[adding.done + 1]
  IN /\ adding.active /\ adding.done < Len(adding.list)
     /\ \E st \in IF adding.dir = NoDir THEN {"QUEUED", "COMPLETE"} ELSE {"QUEUED"} :
          /\ d \in Dirs => st = "QUEUED"
          /\ Insert(d, st, NextPosition)
          /\ \E found \in BOOLEAN :
               stored' = IF found /\ status'[d] = "COMPLETE" THEN stored \cup {d}
                                                             ELSE stored
     /\ adding' = [adding EXCEPT !.done = @ + 1]
     /\ UNCHANGED loaded

(* The end of the loop: the queue is loaded, or the directory is deleted. *)
EndAdding ==
  /\ adding.active /\ adding.done = Len(adding.list)
  /\ adding' = Idle
  /\ loaded' = (loaded \/ adding.dir = NoDir)
  /\ status' = [d \in Downloads |-> IF d = adding.dir THEN "DELETED" ELSE status[d]]
  /\ UNCHANGED <<downloads, marker, stored>>

(* FileDownload::updateStatus finds all the chunks of a file complete. *)
Complete(d) ==
  /\ d \in Queued \ Dirs
  /\ status[d] = "QUEUED"
  /\ status' = [status EXCEPT ![d] = "COMPLETE"]
  /\ stored' = stored \cup {d}
  /\ UNCHANGED <<downloads, marker, adding, loaded>>

(***************************************************************************)
(* A scan: the iterator creates its marker if it has none.  Its first call *)
(* to next moves the marker to the first match; a loop whose condition is  *)
(* false from the start makes no call.                                     *)
(***************************************************************************)
FirstMatch(P) ==
  LET hits == {i \in Position(P) .. Len(downloads) - 1 :
                 downloads[i + 1] \in Matching[P]}
  IN IF hits = {} THEN Len(downloads) ELSE Min(hits)

Scan(P) ==
  /\ \E p \in {Position(P), FirstMatch(P)} : marker' = [marker EXCEPT ![P] = p]
  /\ UNCHANGED <<downloads, status, adding, loaded, stored>>

MoveDownloads(refs, ids, where) ==
  /\ ~adding.active
  /\ LET result == Moved(downloads, marker, Matching, refs, ids, where)
     IN downloads' = result.q /\ marker' = result.m
  /\ UNCHANGED <<status, adding, loaded, stored>>

(***************************************************************************)
(* The downloads gone are marked as deleted in the loop that erases them,  *)
(* then each is removed with the files it finds on the disk.               *)
(***************************************************************************)
TakeOut(gone) ==
  /\ ~adding.active
  /\ gone # {}
  /\ LET result == Removed(downloads, marker, gone)
     IN downloads' = result.q /\ marker' = result.m
  /\ status' = [d \in Downloads |-> IF d \in gone THEN "DELETED" ELSE status[d]]
  /\ stored' = stored \ gone
  /\ UNCHANGED <<adding, loaded>>

RemoveDownloads(ids) == TakeOut(ids \cap Queued)

RemoveAllCompleteDownloads == TakeOut({d \in Queued : status[d] = "COMPLETE"})

(* The sequences without repetition over a set of downloads. *)
Lists(S) == UNION {SetToSeqs(T) : T \in SUBSET S}

Named == {S \in SUBSET Downloads : Cardinality(S) \in 1 .. MaxNamed}

Next ==
  \/ \E d \in Downloads : AddDownload(d) \/ Complete(d)
  \/ \E list \in Lists({d \in Unused : Parent[d] = NoDir}) : LoadQueueFromFile(list)
  \/ \E dir \in Dirs : \E list \in Lists({d \in Unused : Parent[d] = dir}) :
       NewEntries(dir, list)
  \/ AddNext
  \/ EndAdding
  \/ \E P \in Predicates : Scan(P)
  \/ \E refs, ids \in Named, where \in {"BEFORE", "AFTER"} : MoveDownloads(refs, ids, where)
  \/ \E ids \in Named : RemoveDownloads(ids)
  \/ RemoveAllCompleteDownloads

Spec == Init /\ [][Next]_vars

-----------------------------------------------------------------------------
(***************************************************************************)
(* Types.  The list never holds a download twice.                          *)
(***************************************************************************)
TypeOK ==
  /\ downloads \in Seq(Downloads)
  /\ Len(downloads) = Cardinality(Queued)
  /\ status \in [Downloads -> {"NONE", "QUEUED", "COMPLETE", "DELETED"}]
  /\ marker \in [Predicates -> Nat \cup {NoMarker}]
  /\ \A P \in Predicates : marker[P] <= Len(downloads)
  /\ adding \in Adding
  /\ loaded \in BOOLEAN
  /\ stored \subseteq Downloads

(***************************************************************************)
(* A scan that begins at its marker returns every download that matches:   *)
(* whatever was inserted, moved, removed or finished, nothing to download  *)
(* and no directory to explore is hidden behind a marker                   *)
(* (DownloadQueue.h, ScanningIterator; DownloadQueue.cpp, updateMarkers).  *)
(***************************************************************************)
ScanFindsAll ==
  \A P \in Predicates, i \in DOMAIN downloads :
    downloads[i] \in Matching[P] => i > Position(P)

(***************************************************************************)
(* The downloads of a list that are in S, in their order.                  *)
(***************************************************************************)
Those(list, S) ==
  LET those[n \in 0 .. Len(list)] ==
        IF n = 0 THEN <<>>
        ELSE IF list[n] \in S THEN Append(those[n - 1], list[n]) ELSE those[n - 1]
  IN  those[Len(list)]

(***************************************************************************)
(* What moveDownloads promises: the downloads to move, in their order,     *)
(* stand before the first of the references or after the last of them; the *)
(* others keep their order.  With several references, AFTER waits for all  *)
(* of them to be met (gui_protocol.proto, MoveDownloads).                  *)
(***************************************************************************)
MovedAsDocumented(q, refs, ids, where) ==
  LET here  == {i \in DOMAIN q : q[i] \in refs}
      met   == here # {} /\ (where = "BEFORE" \/ Cardinality(refs) = 1 \/ refs \subseteq ToSet(q))
      split == IF where = "BEFORE" THEN Min(here) - 1 ELSE Max(here)
      stay  == Downloads \ ids
  IN IF ~met THEN q
     ELSE Those(SubSeq(q, 1, split), stay) \o Those(q, ids)
            \o Those(SubSeq(q, split + 1, Len(q)), stay)

MoveIsDocumented ==
  \A refs, ids \in Named, where \in {"BEFORE", "AFTER"} :
    Moved(downloads, marker, Matching, refs, ids, where).q
      = MovedAsDocumented(downloads, refs, ids, where)

(***************************************************************************)
(* The loop of removeDownloads, which erases by ranges while it reads the  *)
(* list, removes the downloads asked for and no other, in any arrangement  *)
(* (DownloadQueue.cpp, removeDownloads).                                   *)
(***************************************************************************)
RemoveIsExact ==
  \A gone \in SUBSET Downloads :
    Removed(downloads, marker, gone).q = Those(downloads, Downloads \ gone)

(***************************************************************************)
(* The children replace the directory: as they are added they stand, in    *)
(* order and with nothing between them, from the place of the directory,   *)
(* as long as none of them is skipped because its file is already queued   *)
(* (DownloadManager.cpp, newEntries; each child takes the next position,   *)
(* a skipped one too).                                                     *)
(***************************************************************************)
NoneSkipped == \A k \in 1 .. adding.done : adding.list[k] \in Queued

ChildrenReplaceDirectory ==
  adding.dir # NoDir /\ NoneSkipped =>
    /\ adding.first + adding.done <= Len(downloads)
    /\ SubSeq(downloads, adding.first + 1, adding.first + adding.done)
         = SubSeq(adding.list, 1, adding.done)

(***************************************************************************)
(* Moving to references of which one at least is in the list puts every    *)
(* download to move right before, or right after, one of them, even if     *)
(* another reference left the list meanwhile (gui_protocol.proto:314).     *)
(***************************************************************************)
MoveReachesReference ==
  \A refs, ids \in SUBSET Downloads \ {{}} :
    (refs \cap ids = {} /\ refs \cap Queued # {} /\ ids \subseteq Queued) =>
      LET q == Moved(downloads, marker, Matching, refs, ids, "AFTER").q
      IN \E i \in 1 .. Len(q) - Cardinality(ids) :
           q[i] \in refs /\ ToSet(SubSeq(q, i + 1, i + Cardinality(ids))) = ids

(***************************************************************************)
(* Removing the complete downloads from the list does not delete any       *)
(* physical file (IDownloadManager.h, removeAllCompleteDownloads).         *)
(***************************************************************************)
CompleteFilesKept == [][RemoveAllCompleteDownloads => stored' = stored]_vars
=============================================================================
