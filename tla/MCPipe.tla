------------------------------- MODULE MCPipe -------------------------------
(* Small instances of Pipe; Wrap stands for 2^32, a multiple of PIPESIZE.  *)
EXTENDS Pipe
CONSTANTS p1, p2
TwoProcs == {p1, p2}
TwoBytes == {0, 1}
=============================================================================
