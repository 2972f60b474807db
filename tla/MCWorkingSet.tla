--------------------------- MODULE MCWorkingSet ---------------------------
(* TLC instances of WorkingSet: the inputs each configuration offers.      *)
EXTENDS WorkingSet

ZeroByte == {0}
SomeBytes == {0, 7}
SmallSbrk == {-1, 1, 2}
NoDump == {}
AnyDump == {TRUE, FALSE}
=============================================================================
