----------------------------- MODULE AtomicDisk -----------------------------
(***************************************************************************)
(* What the log promises the file system: what survives a crash is the     *)
(* state at some moment when no system call was between begin_op and       *)
(* end_op, so a crash never exposes part of a call.                        *)
(***************************************************************************)
CONSTANTS Ops, Blocks, Values
VARIABLES
    durable,    \* the blocks as a crash would leave them
    current,    \* the blocks as running system calls see them
    active      \* system calls between begin_op and end_op

vars == <<durable, current, active>>

Init == durable \in [Blocks -> Values] /\ current = durable /\ active = {}

Begin(p) == p \notin active /\ active' = active \union {p} /\ UNCHANGED <<durable, current>>

Write(b, v) ==
    /\ active # {}
    /\ current' = [current EXCEPT ![b] = v]
    /\ UNCHANGED <<durable, active>>

End(p) == p \in active /\ active' = active \ {p} /\ UNCHANGED <<durable, current>>

Commit == active = {} /\ durable' = current /\ UNCHANGED <<current, active>>

Crash == current' = durable /\ active' = {} /\ UNCHANGED durable

Next ==
    \/ \E p \in Ops : Begin(p) \/ End(p)
    \/ \E b \in Blocks, v \in Values : Write(b, v)
    \/ Commit \/ Crash

Spec == Init /\ [][Next]_vars
=============================================================================
