--------------------------- MODULE MCDownloadQueue ---------------------------
(***************************************************************************)
(* A directory that is replaced by two files and a sub-directory, beside a *)
(* file of the user.  The second file of the directory has the same local  *)
(* entry as the file of the user: the later of the two is a duplicate.     *)
(***************************************************************************)
EXTENDS DownloadQueue

CONSTANTS f1, f2, f3, dir, sub, none

MCTree   == {f1, f2, f3, dir, sub}
MCDirs   == {dir, sub}
MCParent == [d \in MCTree |-> IF d \in {f2, f3, sub} THEN dir ELSE none]
MCEntry  == [d \in MCTree |-> IF d = f3 THEN f1 ELSE d]
=============================================================================
