--------------------------- MODULE MCChunkTransfer ---------------------------
(***************************************************************************)
(* Two chunks of one file that compete for two peers, or one chunk that is *)
(* started again and again.                                                *)
(***************************************************************************)
EXTENDS ChunkTransfer

CONSTANTS p1, p2, t1, t2

MCPeers == {p1, p2}
MCThreads == {t1, t2}
MCOneFile == <<1, 1>>
MCOne == <<1>>
MCSources == [f \in 1 .. NbFiles |-> p1]
=============================================================================
