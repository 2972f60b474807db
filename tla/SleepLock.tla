----------------------------- MODULE SleepLock -----------------------------
(***************************************************************************)
(* The sleep-locks of sleeplock.c.  The spin-lock lk->lk makes one round   *)
(* of acquiresleep's loop, and releasesleep, single steps; sleep and       *)
(* wakeup are those of ProcTable.                                          *)
(***************************************************************************)
CONSTANTS
    Locks,      \* the sleep-locks
    Nobody      \* lk->locked = 0

VARIABLES
    locked,     \* lk->locked and lk->pid: the process that holds the lock
    waiting     \* the processes asleep on the lock

initsleeplock ==
    /\ locked = [l \in Locks |-> Nobody]
    /\ waiting = [l \in Locks |-> {}]

(* One round: the caller takes the lock, or sleeps until it is released.   *)
acquiresleep(p, l) ==
    /\ p \notin waiting[l]
    /\ IF locked[l] = Nobody
       THEN locked' = [locked EXCEPT ![l] = p] /\ UNCHANGED waiting
       ELSE waiting' = [waiting EXCEPT ![l] = @ \cup {p}] /\ UNCHANGED locked

releasesleep_NoWakeup(l) ==     \* mutant: no wakeup(lk)
    /\ locked' = [locked EXCEPT ![l] = Nobody]
    /\ UNCHANGED waiting

releasesleep(l) ==
    /\ locked' = [locked EXCEPT ![l] = Nobody]
    /\ waiting' = [waiting EXCEPT ![l] = {}]

holdingsleep(p, l) == locked[l] = p

=============================================================================
