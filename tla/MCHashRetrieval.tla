-------------------------- MODULE MCHashRetrieval --------------------------
(***************************************************************************)
(* Two downloads.  With the same source and one chunk each they compete    *)
(* for the peer; the sizes 2 and 0 bring partly known hashes and the empty *)
(* file; with two sources, freeing a peer scans a download of the other.   *)
(***************************************************************************)
EXTENDS HashRetrieval, TLC

CONSTANTS f1, f2, p1, p2

MCFiles  == {f1, f2}
MCOnePeer  == {p1}
MCTwoPeers == {p1, p2}
MCSameSource == [f \in MCFiles |-> p1]
MCOwnSource  == [f \in MCFiles |-> IF f = f1 THEN p1 ELSE p2]
MCAlike  == [f \in MCFiles |-> 1]
MCTwoOne == [f \in MCFiles |-> IF f = f1 THEN 2 ELSE 1]
MCSizes  == [f \in MCFiles |-> IF f = f1 THEN 2 ELSE 0]

MCSymmetry == Permutations(MCFiles)
=============================================================================
