----------------------------- MODULE BlockStore -----------------------------
(***************************************************************************)
(* What the buffer cache promises its callers: every block has one current *)
(* contents, and one process at a time uses it, between bread and brelse.  *)
(***************************************************************************)
CONSTANTS Procs, Blocks, Data, Nobody

VARIABLES
    store,      \* the contents of each block
    user        \* the process that uses a block

Init ==
    /\ store \in [Blocks -> Data]
    /\ user = [n \in Blocks |-> Nobody]

Take(p, n) ==
    /\ user[n] = Nobody
    /\ user' = [user EXCEPT ![n] = p]
    /\ UNCHANGED store

Change(p, n) ==
    /\ user[n] = p
    /\ \E d \in Data : store' = [store EXCEPT ![n] = d]
    /\ UNCHANGED user

Give(p, n) ==
    /\ user[n] = p
    /\ user' = [user EXCEPT ![n] = Nobody]
    /\ UNCHANGED store

Next == \E p \in Procs, n \in Blocks : Take(p, n) \/ Change(p, n) \/ Give(p, n)

Spec == Init /\ [][Next]_<<store, user>>

=============================================================================
