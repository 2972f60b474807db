----------------------------- MODULE MCBufCache -----------------------------
(* Instances of BufCache for TLC.                                          *)
EXTENDS BufCache

CONSTANTS p1, p2

TwoProcs == {p1, p2}
FourBlocks == 1 .. 4
OneBlock == {1}
Reliable == {"done"}
Faulty == {"done", "error"}
Bit == {0, 1}

=============================================================================
