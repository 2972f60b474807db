------------------------------ MODULE SpinLock ------------------------------
(***************************************************************************)
(* One spin-lock and the interrupt flag of the CPUs (spinlock.c).  A CPU   *)
(* is a record: flag (FL_IF), ncli and intena.  acquire is two steps: cli  *)
(* and the test for the holder, then the xchg that succeeds.               *)
(***************************************************************************)
EXTENDS Integers

CONSTANTS Cpus, NoCpu

VARIABLES
    lk,     \* the CPU that holds the lock, or NoCpu
    cpu

initlock == lk = NoCpu

(* Whether this CPU holds the lock (its own pushcli and popcli cancel).    *)
holding(c) == lk = c

(* pushcli notes whether interrupts were on when the first one came, and   *)
(* popcli turns them on only if they were.  intena is written before it is *)
(* read when ncli = 0, and FALSE stands for any value of it there.         *)
pushcli(s) ==
    [s EXCEPT !.ncli = @ + 1, !.intena = IF s.ncli = 0 THEN s.flag ELSE @, !.flag = FALSE]

sti_Always(s) == s.ncli = 1     \* mutant: sti whatever they were
sti(s) == s.ncli = 1 /\ s.intena

popcli(s) == [ncli |-> s.ncli - 1, flag |-> sti(s), intena |-> s.ncli > 1 /\ s.intena]

(* What acquire, release and popcli assert.                                *)
acquirable(c) == ~ holding(c)
releasable(c) == holding(c) /\ ~ cpu[c].flag /\ cpu[c].ncli > 0

acquire(c) == cpu' = [cpu EXCEPT ![c] = pushcli(@)] /\ UNCHANGED lk

xchg(c) == lk = NoCpu /\ lk' = c /\ UNCHANGED cpu

release(c) == lk' = NoCpu /\ cpu' = [cpu EXCEPT ![c] = popcli(@)]

=============================================================================
