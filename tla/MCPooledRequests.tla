--------------------------- MODULE MCPooledRequests ---------------------------
(***************************************************************************)
(* Two requests, of any kinds, and two connections.                        *)
(***************************************************************************)
EXTENDS PooledRequests, TLC

CONSTANTS r1, r2

MCRequests == {r1, r2}
MCSymmetry == Permutations(MCRequests)
=============================================================================
