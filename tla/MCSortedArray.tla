---------------------------- MODULE MCSortedArray ----------------------------
(***************************************************************************)
(* Order 3 reaches three levels, order 5 shifts and splits of more than    *)
(* one item. The code is used with the order 7 (and tested with 5).        *)
(***************************************************************************)
EXTENDS SortedArrayIteration

CONSTANT NbValues

MCValues == 1 .. NbValues
=============================================================================
