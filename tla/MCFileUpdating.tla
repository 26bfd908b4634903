--------------------------- MODULE MCFileUpdating ---------------------------
(***************************************************************************)
(* Two shared directories, a and b, of one file each, and a directory s of *)
(* a.                                                                      *)
(***************************************************************************)
EXTENDS FileUpdating

CONSTANTS a, b, s, f, g, h

MCPlace == [d \in {a, b} |-> <<>>]
MCAbove == [d \in {a, b, s} |-> IF d = s THEN <<a>> ELSE <<>>]
MCIn == [x \in {f, g} |-> IF x = f THEN a ELSE b]

(* One shared directory, a, with s in it and a file h in s.                *)
DeepPlace == [d \in {a} |-> <<>>]
DeepAbove == [d \in {a, s} |-> IF d = s THEN <<a>> ELSE <<>>]
DeepIn == [x \in {f, h} |-> IF x = f THEN a ELSE s]
=============================================================================
