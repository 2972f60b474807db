------------------------------- MODULE MCLog -------------------------------
(* Small instances of Log.  The sizes keep mkfs.c's nlog = LOGSIZE.        *)
EXTENDS Log
CONSTANTS p1, p2, b1, b2, b3
FirstBlock == b1
TwoOps == {p1, p2}
ThreeBlocks == {b1, b2, b3}
TwoValues == {0, 1}
=============================================================================
