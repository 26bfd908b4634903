-------------------------- MODULE MCDirRetrieval --------------------------
(***************************************************************************)
(* Three directories: two share a source peer, so that they compete for it *)
(* and one may be the child of the other; the third has another source, so *)
(* that freeing a peer scans directories it does not serve.                *)
(***************************************************************************)
EXTENDS DirRetrieval

CONSTANTS d1, d2, d3, p1, p2

MCDirs   == {d1, d2, d3}
MCPeers  == {p1, p2}
MCSource == [d \in MCDirs |-> IF d = d3 THEN p2 ELSE p1]
MCEmpty  == {d2}
=============================================================================
