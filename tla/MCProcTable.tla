---------------------------- MODULE MCProcTable ----------------------------
(* TLC instances of ProcTable: the pids that kill is called with.          *)
EXTENDS ProcTable

LivePids == {2, 3}
AnyPid == {0, 2, 3}
=============================================================================
