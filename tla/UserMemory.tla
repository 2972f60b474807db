----------------------------- MODULE UserMemory -----------------------------
(***************************************************************************)
(* What the kernel promises a program about its memory: a load returns the *)
(* byte stored last, whatever the kernel encrypts, decrypts or evicts      *)
(* behind its back.  There is no encryption, no queue and no translation   *)
(* here, and every operation can be told apart from the outside: a store   *)
(* writes the register, a new program starts with an empty one.  The       *)
(* process may be terminated at any time.                                  *)
(***************************************************************************)
EXTENDS Integers

CONSTANT Pages
VARIABLES alive, val, reg

None == -1
Byte == 0..255

Init == alive = TRUE /\ val \in [Pages -> Byte \union {None}] /\ reg = None

Load(p) ==
    /\ alive /\ val[p] # None
    /\ reg' = val[p]
    /\ UNCHANGED <<alive, val>>

Store(p) ==
    /\ alive /\ val[p] # None /\ reg # None
    /\ val' = [val EXCEPT ![p] = reg]
    /\ UNCHANGED <<alive, reg>>

Compute ==
    /\ alive /\ reg' \in Byte
    /\ UNCHANGED <<alive, val>>

(* sbrk: pages appear and read as zero, or the pages from one on vanish.   *)
Grow(first, last) ==
    /\ alive /\ first <= last /\ \A p \in first .. last : val[p] = None
    /\ val' = [p \in Pages |-> IF p \in first .. last THEN 0 ELSE val[p]]
    /\ UNCHANGED <<alive, reg>>

Shrink(first) ==
    /\ alive
    /\ val' = [p \in Pages |-> IF p >= first THEN None ELSE val[p]]
    /\ UNCHANGED <<alive, reg>>

(* A new program, whose register holds nothing yet.                        *)
Exec ==
    /\ alive /\ reg # None /\ reg' = None
    /\ val' \in [Pages -> Byte \union {None}]
    /\ UNCHANGED alive

Exit ==
    /\ alive /\ alive' = FALSE
    /\ val' = [p \in Pages |-> None]
    /\ UNCHANGED reg

Next ==
    \/ \E p \in Pages : Load(p) \/ Store(p) \/ Shrink(p)
    \/ \E first, last \in Pages : Grow(first, last)
    \/ Compute \/ Exec \/ Exit

Spec == Init /\ [][Next]_<<alive, val, reg>>
=============================================================================
