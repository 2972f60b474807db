----------------------------- MODULE ProcTable -----------------------------
(***************************************************************************)
(* The process table and the scheduler of proc.c on several CPUs: fork,    *)
(* exit, wait, kill, yield, sleep and wakeup, with the timer interrupt of  *)
(* trap.c and sys_sleep (sysproc.c) as the client that sleeps with a lock  *)
(* other than ptable.lock.                                                 *)
(*                                                                         *)
(* A step is what runs between two points where another CPU may interfere: *)
(* a critical section under ptable.lock is one step, a write outside it is *)
(* a step of its own.  sched() leaves the lock to the scheduler of its     *)
(* CPU, which hands it to the next process, as in the code.  sys_sleep(1)  *)
(* is modelled: elapsed[p] says that ticks moved since p read ticks0.      *)
(***************************************************************************)
EXTENDS Integers, FiniteSets

CONSTANTS
    NPROC,      \* slots of ptable.proc (param.h)
    NCPU,       \* CPUs (param.h)
    MAXPID,     \* bound: allocproc stops handing out pids here
    KillPids    \* arguments of kill

ASSUME SizeAssumption ==
    /\ NPROC \in Nat \ {0}
    /\ NCPU \in Nat \ {0}
    /\ MAXPID \in Nat \ {0, 1}
    /\ KillPids \subseteq Nat

Procs == 0 .. (NPROC - 1)
CPUs == 0 .. (NCPU - 1)
initproc == 0
None == -1

States == {"UNUSED", "EMBRYO", "SLEEPING", "RUNNABLE", "RUNNING", "ZOMBIE"}
ticks == NPROC          \* the channel of sys_sleep; wait sleeps on a process
Chans == Procs \union {ticks, None}

(* Where the kernel thread of a process is.  "user": in the program or     *)
(* about to return to it; "forking", "forked": in fork, before and after   *)
(* np->parent is set; "wait": asleep in wait; "check", "commit", "slept",  *)
(* "relock": in sys_sleep, with tickslock in the first two; "exit": in     *)
(* exit, before ptable.lock.                                               *)
Places == {"user", "forking", "forked", "wait", "check", "commit",
           "slept", "relock", "exit"}

VARIABLES
    state, pid, parent, chan, killed,   \* fields of struct proc
    pc, np, elapsed,    \* kernel threads: place, child of fork, sys_sleep
    nextpid,
    proc,       \* proc[c]: cpus[c].proc
    scan,       \* scan[c]: where c's scheduler loop continues
    lock,       \* the CPU that holds ptable.lock
    tickslock,  \* the CPU that holds tickslock
    trap        \* trap[c]: c's progress in the timer interrupt

table == <<state, pid, parent, chan, killed>>
vars == <<table, pc, np, elapsed, nextpid, proc, scan, lock, tickslock, trap>>

Init ==
    /\ state = [p \in Procs |-> IF p = initproc THEN "RUNNABLE" ELSE "UNUSED"]
    /\ pid = [p \in Procs |-> IF p = initproc THEN 1 ELSE 0]
    /\ parent = [p \in Procs |-> None]
    /\ chan = [p \in Procs |-> None]
    /\ killed = [p \in Procs |-> FALSE]
    /\ pc = [p \in Procs |-> "user"]
    /\ np = [p \in Procs |-> None]
    /\ elapsed = [p \in Procs |-> FALSE]
    /\ nextpid = 2
    /\ proc = [c \in CPUs |-> None]
    /\ scan = [c \in CPUs |-> 0]
    /\ lock = None /\ tickslock = None
    /\ trap = [c \in CPUs |-> "none"]

-----------------------------------------------------------------------------
(* The process on c runs in place l, without ptable.lock.                  *)
At(c, l) == proc[c] # None /\ pc[proc[c]] = l /\ lock # c /\ trap[c] = "none"

First(S) == CHOOSE p \in S : \A q \in S : p <= q

wakeup1_Silent(st, ch) == st                \* mutant: nobody is woken
wakeup1(st, ch) ==
    [p \in Procs |-> IF st[p] = "SLEEPING" /\ chan[p] = ch THEN "RUNNABLE" ELSE st[p]]

(* Back from a system call: trap exits a killed process.                   *)
Return(p, k) == IF k THEN "exit" ELSE "user"

(* sched: c goes on in scheduler(), which holds ptable.lock.               *)
sched(c) == lock' = c /\ proc' = [proc EXCEPT ![c] = None]

dispatch(p) == [state EXCEPT ![p] = "RUNNING"]
nextslot(p) == p + 1

(* scheduler(): the lock is taken, the table is scanned once from slot 0,  *)
(* and the lock is released.                                               *)
scheduler_acquire(c) ==
    /\ proc[c] = None /\ lock = None /\ trap[c] = "none"
    /\ lock' = c
    /\ scan' = [scan EXCEPT ![c] = 0]
    /\ UNCHANGED <<table, pc, np, elapsed, nextpid, proc, tickslock, trap>>

scheduler_next(c) ==
    LET ready == {p \in Procs : p >= scan[c] /\ state[p] = "RUNNABLE"}
        p == First(ready)
    IN  /\ proc[c] = None /\ lock = c
        /\ IF ready = {}
           THEN lock' = None /\ UNCHANGED <<state, proc, scan>>
           ELSE /\ proc' = [proc EXCEPT ![c] = p]
                /\ state' = dispatch(p)
                /\ scan' = [scan EXCEPT ![c] = nextslot(p)]
                /\ UNCHANGED lock
        /\ UNCHANGED <<pid, parent, chan, killed, pc, np, elapsed, nextpid,
                       tickslock, trap>>

(* A process that was switched to returns from sched in yield, in sleep    *)
(* called by sys_sleep, or starts in forkret: it releases ptable.lock.     *)
resume(c) ==
    LET p == proc[c]
    IN  /\ p # None /\ lock = c /\ pc[p] \notin {"wait", "commit"}
        /\ lock' = None
        /\ IF pc[p] = "slept"
           THEN /\ chan' = [chan EXCEPT ![p] = None]
                /\ pc' = [pc EXCEPT ![p] = "relock"]
           ELSE UNCHANGED <<chan, pc>>
        /\ UNCHANGED <<state, pid, parent, killed, np, elapsed, nextpid, proc,
                       scan, tickslock, trap>>

-----------------------------------------------------------------------------
(* fork.  allocproc takes the first unused slot under the lock; the rest   *)
(* runs without it: kalloc or copyuvm may fail, and parent is assigned.    *)
increment(n) == n + 1
allocproc(c) ==
    LET free == {q \in Procs : state[q] = "UNUSED"}
        p == proc[c]
        q == First(free)
    IN  /\ At(c, "user") /\ ~ killed[p] /\ lock = None /\ free # {}
        /\ nextpid < MAXPID
        /\ state' = [state EXCEPT ![q] = "EMBRYO"]
        /\ pid' = [pid EXCEPT ![q] = nextpid]
        /\ nextpid' = increment(nextpid)
        /\ np' = [np EXCEPT ![p] = q]
        /\ pc' = [pc EXCEPT ![p] = "forking"]
        /\ UNCHANGED <<parent, chan, killed, elapsed, proc, scan, lock,
                       tickslock, trap>>

giveback(q) == [state EXCEPT ![q] = "UNUSED"]
fork_fail(c) ==
    LET p == proc[c]
    IN  /\ At(c, "forking")
        /\ state' = giveback(np[p])
        /\ np' = [np EXCEPT ![p] = None]
        /\ pc' = [pc EXCEPT ![p] = Return(p, killed[p])]
        /\ UNCHANGED <<pid, parent, chan, killed, elapsed, nextpid, proc, scan,
                       lock, tickslock, trap>>

fork_parent(c) ==
    LET p == proc[c]
    IN  /\ At(c, "forking")
        /\ parent' = [parent EXCEPT ![np[p]] = p]
        /\ pc' = [pc EXCEPT ![p] = "forked"]
        /\ UNCHANGED <<state, pid, chan, killed, np, elapsed, nextpid, proc,
                       scan, lock, tickslock, trap>>

fork_done(c) ==
    LET p == proc[c]
    IN  /\ At(c, "forked") /\ lock = None
        /\ state' = [state EXCEPT ![np[p]] = "RUNNABLE"]
        /\ np' = [np EXCEPT ![p] = None]
        /\ pc' = [pc EXCEPT ![p] = Return(p, killed[p]), ![np[p]] = "user"]
        /\ UNCHANGED <<pid, parent, chan, killed, elapsed, nextpid, proc, scan,
                       lock, tickslock, trap>>

(* exit: called by the program, or by trap when it finds killed set.       *)
sys_exit(c) ==
    /\ At(c, "user") /\ proc[c] # initproc
    /\ pc' = [pc EXCEPT ![proc[c]] = "exit"]
    /\ UNCHANGED <<table, np, elapsed, nextpid, proc, scan, lock, tickslock,
                   trap>>

(* "Pass abandoned children to init", and wake it when one is a zombie.    *)
reparent_Not(p) == parent                   \* mutant: children keep their parent
reparent(p) == [q \in Procs |-> IF parent[q] = p THEN initproc ELSE parent[q]]
adopt(p, st) ==
    IF \E q \in Procs : parent[q] = p /\ state[q] = "ZOMBIE"
    THEN wakeup1(st, initproc) ELSE st

exit(c) ==
    LET p == proc[c]
    IN  /\ At(c, "exit") /\ lock = None /\ p # initproc
        /\ parent' = reparent(p)
        /\ state' = [adopt(p, wakeup1(state, parent[p])) EXCEPT ![p] = "ZOMBIE"]
        /\ sched(c)
        /\ UNCHANGED <<pid, chan, killed, pc, np, elapsed, nextpid, scan,
                       tickslock, trap>>

(* One pass of the loop in wait, with ptable.lock held throughout.         *)
wait_scan(c) ==
    LET p == proc[c]
        kids == {q \in Procs : parent[q] = p}
        dead == {q \in kids : state[q] = "ZOMBIE"}
        z == First(dead)
    IN  \/ /\ dead # {}
           /\ pid' = [pid EXCEPT ![z] = 0]
           /\ parent' = [parent EXCEPT ![z] = None]
           /\ killed' = [killed EXCEPT ![z] = FALSE]
           /\ state' = [state EXCEPT ![z] = "UNUSED"]
           /\ chan' = [chan EXCEPT ![p] = None]
           /\ pc' = [pc EXCEPT ![p] = Return(p, killed[p])]
           /\ lock' = None /\ UNCHANGED proc
        \/ /\ dead = {} /\ (kids = {} \/ killed[p])
           /\ chan' = [chan EXCEPT ![p] = None]
           /\ pc' = [pc EXCEPT ![p] = Return(p, killed[p])]
           /\ lock' = None /\ UNCHANGED <<state, pid, parent, killed, proc>>
        \/ /\ dead = {} /\ kids # {} /\ ~ killed[p]
           /\ chan' = [chan EXCEPT ![p] = p]
           /\ state' = [state EXCEPT ![p] = "SLEEPING"]
           /\ pc' = [pc EXCEPT ![p] = "wait"]
           /\ sched(c)
           /\ UNCHANGED <<pid, parent, killed>>

wait(c) ==
    /\ At(c, "user") /\ ~ killed[proc[c]] /\ lock = None
    /\ wait_scan(c)
    /\ UNCHANGED <<np, elapsed, nextpid, scan, tickslock, trap>>

(* sleep returns to wait with the lock held, and the loop goes on.         *)
wait_again(c) ==
    /\ proc[c] # None /\ pc[proc[c]] = "wait" /\ lock = c
    /\ wait_scan(c)
    /\ UNCHANGED <<np, elapsed, nextpid, scan, tickslock, trap>>

(* kill marks the first slot that holds the pid, whatever its state.       *)
rouse_Not(st) == st                         \* mutant: a sleeper stays asleep
rouse(st) == IF st = "SLEEPING" THEN "RUNNABLE" ELSE st
kill(c, n) ==
    LET found == {q \in Procs : pid[q] = n}
        q == First(found)
        p == proc[c]
    IN  /\ At(c, "user") /\ ~ killed[p] /\ lock = None
        /\ found # {}
        /\ killed' = [killed EXCEPT ![q] = TRUE]
        /\ state' = [state EXCEPT ![q] = rouse(@)]
        /\ pc' = [pc EXCEPT ![p] = Return(p, q = p)]
        /\ UNCHANGED <<pid, parent, chan, np, elapsed, nextpid, proc, scan, lock,
                       tickslock, trap>>

-----------------------------------------------------------------------------
(* sys_sleep(1) and sleep(&ticks, &tickslock).                             *)
sys_sleep(c) ==
    LET p == proc[c]
    IN  /\ At(c, "user") /\ ~ killed[p] /\ tickslock = None
        /\ tickslock' = c
        /\ elapsed' = [elapsed EXCEPT ![p] = FALSE]
        /\ pc' = [pc EXCEPT ![p] = "check"]
        /\ UNCHANGED <<table, np, nextpid, proc, scan, lock, trap>>

keep_Not(leave) == None    \* mutant: tickslock goes before ptable.lock is held
keep(leave) == IF leave THEN None ELSE tickslock
sleep_check(c) ==
    LET p == proc[c]
        leave == elapsed[p] \/ killed[p]
    IN  /\ At(c, "check")
        /\ tickslock' = keep(leave)
        /\ elapsed' = [elapsed EXCEPT ![p] = @ /\ ~ leave]
        /\ pc' = [pc EXCEPT ![p] = IF leave THEN Return(p, killed[p]) ELSE "commit"]
        /\ UNCHANGED <<table, np, nextpid, proc, scan, lock, trap>>

(* sleep takes ptable.lock, and only then gives up the caller's lock.      *)
sleep_acquire(c) ==
    /\ At(c, "commit") /\ lock = None
    /\ lock' = c
    /\ UNCHANGED <<table, pc, np, elapsed, nextpid, proc, scan, tickslock, trap>>

sleep(c) ==
    LET p == proc[c]
    IN  /\ p # None /\ pc[p] = "commit" /\ lock = c
        /\ tickslock' = None
        /\ chan' = [chan EXCEPT ![p] = ticks]
        /\ state' = [state EXCEPT ![p] = "SLEEPING"]
        /\ pc' = [pc EXCEPT ![p] = "slept"]
        /\ sched(c)
        /\ UNCHANGED <<pid, parent, killed, np, elapsed, nextpid, scan, trap>>

sleep_relock(c) ==
    /\ At(c, "relock") /\ tickslock = None
    /\ tickslock' = c
    /\ pc' = [pc EXCEPT ![proc[c]] = "check"]
    /\ UNCHANGED <<table, np, elapsed, nextpid, proc, scan, lock, trap>>

-----------------------------------------------------------------------------
(* The timer interrupt, taken where interrupts are on: no spin lock held.  *)
(* CPU 0 counts the tick under tickslock ...                               *)
timer(c) ==
    /\ trap[c] = "none" /\ lock # c /\ tickslock # c
    /\ \/ /\ c = 0 /\ tickslock = None
          /\ tickslock' = c
          /\ trap' = [trap EXCEPT ![c] = "wakeup"]
          /\ elapsed' = [p \in Procs |-> elapsed[p] \/ pc[p] \in {"check", "commit", "slept", "relock"}]
       \/ /\ c # 0 /\ proc[c] # None
          /\ trap' = [trap EXCEPT ![c] = "tail"]
          /\ UNCHANGED <<tickslock, elapsed>>
    /\ UNCHANGED <<table, pc, np, nextpid, proc, scan, lock>>

(* ... then calls wakeup(&ticks) and releases tickslock.                   *)
timer_wakeup(c) ==
    /\ trap[c] = "wakeup" /\ lock = None
    /\ state' = wakeup1(state, ticks)
    /\ tickslock' = None
    /\ trap' = [trap EXCEPT ![c] = IF proc[c] = None THEN "none" ELSE "tail"]
    /\ UNCHANGED <<pid, parent, chan, killed, pc, np, elapsed, nextpid, proc,
                   scan, lock>>

(* The end of trap: a killed process in user mode exits, another yields.   *)
trap_exit(c) ==
    LET p == proc[c]
    IN  /\ trap[c] = "tail" /\ killed[p] /\ pc[p] = "user" /\ p # initproc
        /\ pc' = [pc EXCEPT ![p] = "exit"]
        /\ trap' = [trap EXCEPT ![c] = "none"]
        /\ UNCHANGED <<table, np, elapsed, nextpid, proc, scan, lock, tickslock>>

yield(c) ==
    LET p == proc[c]
    IN  /\ trap[c] = "tail" /\ ~ (killed[p] /\ pc[p] = "user" /\ p # initproc)
        /\ lock = None
        /\ state' = [state EXCEPT ![p] = "RUNNABLE"]
        /\ trap' = [trap EXCEPT ![c] = "none"]
        /\ sched(c)
        /\ UNCHANGED <<pid, parent, chan, killed, pc, np, elapsed, nextpid, scan,
                       tickslock>>

-----------------------------------------------------------------------------
Scheduler(c) ==
    scheduler_acquire(c) \/ scheduler_next(c) \/ resume(c) \/ yield(c)
Kernel(c) ==
    \/ fork_fail(c) \/ fork_parent(c) \/ fork_done(c)
    \/ exit(c) \/ trap_exit(c) \/ wait_again(c)
    \/ sleep_check(c) \/ sleep_acquire(c) \/ sleep(c) \/ sleep_relock(c)
SystemCall(c) ==
    allocproc(c) \/ sys_exit(c) \/ wait(c) \/ sys_sleep(c)
Timer(c) == timer(c) \/ timer_wakeup(c)

Step(c) == Scheduler(c) \/ Kernel(c) \/ SystemCall(c) \/ Timer(c)
Next == \E c \in CPUs : Step(c) \/ \E n \in KillPids : kill(c, n)

Spec == Init /\ [][Next]_vars

(* The timer of every CPU keeps firing, a scheduler keeps scanning, a      *)
(* process that is switched to again and again gets through its kernel     *)
(* code, and init keeps calling wait (init.c).  No process is assumed to   *)
(* make any other system call.                                             *)
FairSpec ==
    /\ Spec
    /\ \A c \in CPUs : SF_vars(Scheduler(c)) /\ SF_vars(timer(c)) /\ SF_vars(timer_wakeup(c))
    /\ \A p \in Procs : SF_vars(\E c \in CPUs : proc[c] = p /\ Kernel(c))
    /\ SF_vars(\E c \in CPUs : proc[c] = initproc /\ wait(c))

-----------------------------------------------------------------------------
(* Properties.                                                             *)

(* Type invariant of the process table, the CPUs and the locks.            *)
TypeOK ==
    /\ state \in [Procs -> States]
    /\ pid \in [Procs -> 0 .. MAXPID]
    /\ parent \in [Procs -> Procs \union {None}]
    /\ chan \in [Procs -> Chans]
    /\ killed \in [Procs -> BOOLEAN]
    /\ pc \in [Procs -> Places]
    /\ np \in [Procs -> Procs \union {None}]
    /\ elapsed \in [Procs -> BOOLEAN]
    /\ nextpid \in 2 .. MAXPID
    /\ proc \in [CPUs -> Procs \union {None}]
    /\ scan \in [CPUs -> 0 .. NPROC]
    /\ lock \in CPUs \union {None}
    /\ tickslock \in CPUs \union {None}
    /\ trap \in [CPUs -> {"none", "wakeup", "tail"}]

(* A process is RUNNING exactly while one CPU runs it, so scheduler never  *)
(* switches two CPUs to one kernel stack.                                  *)
OneCpu ==
    /\ \A c, d \in CPUs : c # d /\ proc[c] # None => proc[c] # proc[d]
    /\ \A p \in Procs : state[p] = "RUNNING" <=> \E c \in CPUs : proc[c] = p

(* sleep's comment: "guaranteed that we won't miss any wakeup".  A process *)
(* asleep in sys_sleep whose tick has come is about to be woken by the     *)
(* timer handler that counted the tick.                                    *)
NoLostTick ==
    \A p \in Procs : state[p] = "SLEEPING" /\ pc[p] = "slept" /\ elapsed[p]
                       => \E c \in CPUs : trap[c] = "wakeup"

(* A parent asleep in wait has no zombie child and was not killed, however *)
(* exit, reparenting and kill interleave with it.                          *)
NoLostExit ==
    \A p \in Procs : state[p] = "SLEEPING" /\ pc[p] = "wait" =>
       /\ ~ killed[p]
       /\ \A q \in Procs : parent[q] = p => state[q] # "ZOMBIE"

(* exit passes children to init: the parent of a process that can run or   *)
(* that waits to be reaped is itself alive.                                *)
Parented ==
    \A q \in Procs \ {initproc} : state[q] \in {"SLEEPING", "RUNNABLE", "RUNNING", "ZOMBIE"} =>
       parent[q] # None /\ state[parent[q]] \notin {"UNUSED", "EMBRYO", "ZOMBIE"}

(* fork writes np->state and np->parent without ptable.lock; the slot is   *)
(* its own: an EMBRYO belongs to exactly one fork, and a fork to an EMBRYO.*)
EmbryoOwned ==
    /\ \A q \in Procs : state[q] = "EMBRYO" <=> \E p \in Procs : np[p] = q
    /\ \A p, q \in Procs : p # q /\ np[p] # None => np[p] # np[q]

(* wait and kill find a process by its pid, so no two processes share one. *)
UniquePids ==
    \A p, q \in Procs : p # q /\ state[p] # "UNUSED" /\ state[q] # "UNUSED"
                         => pid[p] # pid[q]

(* The process table is sound, whatever CPUs, forks, exits, waits and      *)
(* kills interleave under ptable.lock and outside it (proc.c).             *)
TableSound == TypeOK /\ OneCpu /\ Parented /\ EmbryoOwned /\ UniquePids

(* A killed process exits: kill's comment says "Process won't exit until   *)
(* it returns to user space (see trap in trap.c)", and it does return.     *)
KilledExits ==
    \A p \in Procs \ {initproc} :
       killed[p] /\ state[p] \in {"SLEEPING", "RUNNABLE", "RUNNING"}
         ~> state[p] \in {"ZOMBIE", "UNUSED"}

(* A zombie that init inherited is reaped by init's wait loop.             *)
ZombiesReaped ==
    \A p \in Procs : state[p] = "ZOMBIE" /\ parent[p] = initproc
                      ~> state[p] = "UNUSED"

(* sys_sleep returns.                                                      *)
SleepEnds ==
    \A p \in Procs : pc[p] = "slept" ~> pc[p] # "slept" /\ pc[p] # "relock"

=============================================================================
