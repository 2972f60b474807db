----------------------------- MODULE MCConsole -----------------------------
(* Instances of Console for TLC.                                           *)
EXTENDS Console, TLC

CONSTANTS p1, p2, c0, c1

TwoProcs == {p1, p2}
TwoCpus == {c0, c1}
AllKeys == {"x", "nl", "^D", "^H", "^U", "^P"}
Duties == p1 :> {"read", "fault"} @@ p2 :> {"read", "write", "print", "panic"}
Resident == {FALSE}
Paged == {TRUE, FALSE}
=============================================================================
