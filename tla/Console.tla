------------------------------- MODULE Console -------------------------------
(***************************************************************************)
(* The console: input editing and reading, output, printing and panic      *)
(* under cons.lock (console.c), by processes on CPUs and by keyboard and   *)
(* serial interrupts (kbd.c, uart.c), with spin-locks that keep interrupts *)
(* off (spinlock.c) and the part of sleep and sched that moves a process   *)
(* between CPUs (proc.c).                                                  *)
(*                                                                         *)
(* A thread is a process or the interrupt handler of a CPU, named by the   *)
(* CPU.  A step is what one CPU does between taking cons.lock, letting it  *)
(* go, and putting out a character.                                        *)
(***************************************************************************)
EXTENDS Integers, Sequences, FiniteSets

CONSTANTS
    Procs, Cpus, NoCpu,
    Cpu0,           \* the CPU that gets the keyboard's and the serial port's interrupts
    INPUT_BUF,
    UWRAP,          \* the indices are counters modulo this (2^32 in the code)
    Keys,           \* what getc returns: "x" and "nl", "^D", "^H", "^U", "^P"
    MAXIO,          \* characters of a read or a write
    Calls,          \* what each process does: "read", "write", "print", "fault", "panic"
    Faults          \* may the user's page be absent: a set of Booleans

ASSUME ConsoleAssumption ==
    /\ INPUT_BUF \in Nat \ {0} /\ MAXIO \in Nat \ {0}
    /\ UWRAP > INPUT_BUF /\ UWRAP % INPUT_BUF = 0
    /\ Procs \cap Cpus = {} /\ Cpu0 \in Cpus /\ NoCpu \notin Cpus /\ Faults \subseteq BOOLEAN

VARIABLES
    lk, cpu,        \* cons.lock, and each CPU's interrupt flag
    cur,            \* the CPU each process runs on, NoCpu if none
    saved,          \* intena as sched keeps it for a process
    th,             \* what each thread does
    asleep, killed,
    input, locking,
    mixed,          \* has anybody put out a character in the middle of a write
    panicked        \* what panic was called with

INSTANCE SpinLock

(* A thread has a pc, the characters left of its call, where it goes after *)
(* acquire, after release and after a page fault, and cprintf's local      *)
(* variable locking.                                                       *)
Threads == Procs \cup {Cpu0}
User == [pc |-> "user", n |-> 0, locked |-> "", next |-> "user", ret |-> "user", locking |-> FALSE]
on(t) == IF t \in Cpus THEN t ELSE cur[t]
idle(c) == \A p \in Procs : cur[p] # c

vars == <<lk, cpu, cur, saved, th, asleep, killed, input, locking, mixed, panicked>>
world == <<cur, saved, asleep, killed>>
spin == <<lk, cpu>>

Init ==
    /\ initlock /\ cpu = [c \in Cpus |-> [flag |-> TRUE, ncli |-> 0, intena |-> FALSE]]
    /\ cur = [p \in Procs |-> NoCpu] /\ saved = [p \in Procs |-> TRUE]
    /\ th = [t \in Threads |-> User]
    /\ asleep = {} /\ killed = {}
    /\ input = [buf |-> [i \in 0 .. INPUT_BUF - 1 |-> "x"], r |-> 0, w |-> 0, e |-> 0]
    /\ locking = TRUE /\ mixed = FALSE /\ panicked = ""

(* A process moves if it has a CPU that no interrupt handler has taken.    *)
Run(t, l) == /\ th[t].pc = l /\ on(t) # NoCpu
             /\ t \in Procs /\ on(t) = Cpu0 => th[Cpu0] = User

Goto(t, l) == th' = [th EXCEPT ![t].pc = l]
Set(t, r) == th' = [th EXCEPT ![t] = r]

Makes(p, call) == Run(p, "user") /\ call \in Calls[p]

(* Where a thread goes after release; a killed process exits at the end of *)
(* its call and a new one takes its place.                                 *)
Continue(t) ==
    IF th[t].next = "user" THEN Set(t, User) /\ killed' = killed \ {t}
    ELSE Goto(t, th[t].next) /\ UNCHANGED killed

-----------------------------------------------------------------------------
(* panic turns the locking of the console off, prints, and then freezes    *)
(* every CPU that puts out a character.                                    *)
panic(t, s) ==
    /\ cpu' = [cpu EXCEPT ![on(t)].flag = FALSE] /\ locking' = FALSE
    /\ Set(t, [User EXCEPT !.pc = "panic", !.locked = s])
    /\ UNCHANGED <<lk, world, input, mixed, panicked>>

panic_freeze(t) ==
    /\ Run(t, "panic") /\ panicked = ""
    /\ panicked' = th[t].locked /\ Goto(t, "dead")
    /\ UNCHANGED <<spin, world, input, locking, mixed>>

kernel_panic(p) == Makes(p, "panic") /\ panic(p, "elsewhere")

(* acquire(&cons.lock), on behalf of what follows.                         *)
acquire_console(t) ==
    /\ Run(t, "acquire")
    /\ IF ~ acquirable(on(t)) THEN panic(t, "acquire")
       ELSE /\ acquire(on(t)) /\ Goto(t, "spin")
            /\ UNCHANGED <<world, input, locking, mixed, panicked>>

xchg_console(t) ==
    /\ Run(t, "spin") /\ xchg(on(t)) /\ Goto(t, th[t].locked)
    /\ UNCHANGED <<world, input, locking, mixed, panicked>>

release_console(t) ==
    /\ Run(t, "release")
    /\ IF ~ releasable(on(t)) THEN panic(t, "release")
       ELSE /\ release(on(t)) /\ Continue(t)
            /\ UNCHANGED <<cur, saved, asleep, input, locking, mixed, panicked>>

Locked(pc, n, next) == [User EXCEPT !.pc = "acquire", !.locked = pc, !.n = n, !.next = next]

(* consputc hangs once the machine has panicked.                           *)
writing(p) == th[p].pc = "write" /\ th[p].n \in 1 .. MAXIO - 1

consputc_Awake(t) ==    \* mutant: goes on after a panic
    mixed' = (mixed \/ (locking /\ \E p \in Procs \ {t} : writing(p)))
consputc(t) ==
    panicked = "" /\ mixed' = (mixed \/ (locking /\ \E p \in Procs \ {t} : writing(p)))

(* cprintf, of one character: takes the lock unless its CPU holds it, but  *)
(* lets it go in any case.                                                 *)
takes(t) == locking /\ ~ holding(on(t))

cprintf(t, next) ==
    Set(t, [th[t] EXCEPT !.pc = IF takes(t) THEN "acquire" ELSE "print", !.locked = "print",
                         !.next = next, !.locking = locking])

print(t) ==
    /\ Run(t, "print") /\ consputc(t)
    /\ IF th[t].locking THEN Goto(t, "release") /\ UNCHANGED killed ELSE Continue(t)
    /\ UNCHANGED <<spin, cur, saved, asleep, input, locking, panicked>>

(* The kernel prints on behalf of a process.                               *)
kernel_print(p) ==
    /\ Makes(p, "print") /\ cprintf(p, "user")
    /\ UNCHANGED <<spin, world, input, locking, mixed, panicked>>

(* A page that is not present: trap prints, mdecrypt prints and brings the *)
(* page in, and the process goes on at ret, with interrupts as they were.  *)
fault(p, n, ret) ==
    th' = [th EXCEPT ![p] = [User EXCEPT !.pc = "trap", !.n = n, !.ret = ret]]

page_fault(p) ==
    /\ Makes(p, "fault") /\ fault(p, 0, "user")
    /\ lk' = lk /\ cpu' = [cpu EXCEPT ![cur[p]].flag = FALSE]
    /\ UNCHANGED <<world, input, locking, mixed, panicked>>

trap(p) ==
    /\ Run(p, "trap") /\ cprintf(p, "mdecrypt")
    /\ UNCHANGED <<spin, world, input, locking, mixed, panicked>>

mdecrypt(p) ==
    /\ Run(p, "mdecrypt") /\ cprintf(p, "resume")
    /\ UNCHANGED <<spin, world, input, locking, mixed, panicked>>

resume(p) ==
    /\ Run(p, "resume")
    /\ Set(p, [User EXCEPT !.pc = th[p].ret, !.n = th[p].n])
    /\ lk' = lk /\ cpu' = [cpu EXCEPT ![cur[p]].flag = th[p].ret = "user"]
    /\ UNCHANGED <<world, input, locking, mixed, panicked>>

-----------------------------------------------------------------------------
(* Input.  buf[r..w) is committed, buf[w..e) is being edited.              *)
dist(i, j) == (j - i) % UWRAP
at(i) == input.buf[i % INPUT_BUF]

room(i) == dist(i.r, i.e) < INPUT_BUF

commits_Nl(i, k) == k \in {"nl", "^D"}      \* mutant: a full buffer is not committed
commits(i, k) == k \in {"nl", "^D"} \/ (i.e + 1) % UWRAP = (i.r + INPUT_BUF) % UWRAP

typed(i, k) ==
    LET e == (i.e + 1) % UWRAP IN
    [i EXCEPT !.buf[i.e % INPUT_BUF] = k, !.e = e, !.w = IF commits(i, k) THEN e ELSE @]

(* How many characters of the line ^U removes: back to a newline.          *)
kill_line(i) ==
    CHOOSE k \in 0 .. dist(i.w, i.e) :
      /\ \A j \in 1 .. k : at((i.e - j) % UWRAP) # "nl"
      /\ k = dist(i.w, i.e) \/ at((i.e - k - 1) % UWRAP) = "nl"

(* A cell outside buf[r..e) holds "x": what was there is never read.       *)
clear(b, i, k) == [j \in DOMAIN b |-> IF \E d \in 0 .. k - 1 : (i + d) % INPUT_BUF = j THEN "x" ELSE b[j]]

back(i, k) == [i EXCEPT !.e = (@ - k) % UWRAP, !.buf = clear(@, (i.e - k) % UWRAP, k)]

wakeup_Not == {}        \* mutant: nobody is woken
wakeup == asleep

consoleintr ==
    /\ th[Cpu0] = User /\ cpu[Cpu0].flag
    /\ \A p \in Procs : cur[p] = Cpu0 => th[p].pc # "dead"
    /\ lk' = lk /\ cpu' = [cpu EXCEPT ![Cpu0].flag = FALSE]
    /\ Set(Cpu0, Locked("keys", 0, "iret"))
    /\ UNCHANGED <<world, input, locking, mixed, panicked>>

(* One key; n = 1 notes that a process listing is wanted.                  *)
key(k) ==
    /\ Run(Cpu0, "keys")
    /\ \/ k = "^P" /\ th' = [th EXCEPT ![Cpu0].n = 1] /\ UNCHANGED <<input, asleep, mixed>>
       \/ /\ k = "^U" /\ kill_line(input) > 0 /\ consputc(Cpu0)
          /\ input' = back(input, kill_line(input)) /\ UNCHANGED <<th, asleep>>
       \/ /\ k = "^H" /\ input.e # input.w /\ consputc(Cpu0)
          /\ input' = back(input, 1) /\ UNCHANGED <<th, asleep>>
       \/ /\ k \in {"x", "nl", "^D"} /\ room(input) /\ consputc(Cpu0)
          /\ input' = typed(input, k)
          /\ asleep' = IF commits(input, k) THEN asleep \ wakeup ELSE asleep
          /\ UNCHANGED th
    /\ UNCHANGED <<spin, cur, saved, killed, locking, panicked>>

keys_end ==
    /\ Run(Cpu0, "keys")
    /\ th' = [th EXCEPT ![Cpu0].pc = "release",
                        ![Cpu0].next = IF th[Cpu0].n = 1 THEN "procdump" ELSE "iret"]
    /\ UNCHANGED <<spin, world, input, locking, mixed, panicked>>

procdump ==
    /\ Run(Cpu0, "procdump") /\ cprintf(Cpu0, "iret")
    /\ UNCHANGED <<spin, world, input, locking, mixed, panicked>>

iret ==
    /\ Run(Cpu0, "iret")
    /\ lk' = lk /\ cpu' = [cpu EXCEPT ![Cpu0].flag = TRUE]
    /\ Set(Cpu0, User)
    /\ UNCHANGED <<world, input, locking, mixed, panicked>>

-----------------------------------------------------------------------------
consolewrite(p) ==
    /\ Makes(p, "write") /\ Set(p, Locked("write", MAXIO, "user"))
    /\ UNCHANGED <<spin, world, input, locking, mixed, panicked>>

write_char(p) ==
    LET t == th[p] IN
    /\ Run(p, "write") \/ Run(p, "write_present")
    /\ IF t.n = 0 THEN Goto(p, "release") /\ UNCHANGED mixed
       ELSE \E absent \in Faults :
              IF absent /\ t.n = MAXIO /\ t.pc = "write" THEN fault(p, t.n, "write_present") /\ UNCHANGED mixed
              ELSE consputc(p) /\ th' = [th EXCEPT ![p].pc = "write", ![p].n = @ - 1]
    /\ UNCHANGED <<spin, world, input, locking, panicked>>

Reading(p) == th[p].locked = "read"

consoleread(p) ==
    /\ Makes(p, "read") /\ Set(p, Locked("read", MAXIO, "user"))
    /\ UNCHANGED <<spin, world, input, locking, mixed, panicked>>

(* sleep(&input.r, &cons.lock): sched keeps intena with the process.       *)
keep(p) == [saved EXCEPT ![p] = cpu[cur[p]].intena]

sleep(p) ==
    IF ~ releasable(cur[p]) \/ cpu[cur[p]].ncli # 1 THEN panic(p, "sched")
    ELSE /\ lk' = NoCpu
         /\ saved' = keep(p) /\ cur' = [cur EXCEPT ![p] = NoCpu] /\ asleep' = asleep \cup {p}
         /\ cpu' = [cpu EXCEPT ![cur[p]] = [flag |-> TRUE, ncli |-> 0, intena |-> FALSE]]
         /\ Goto(p, "acquire")
         /\ UNCHANGED <<killed, input, locking, mixed, panicked>>

(* ^D ends a read; one that has characters leaves it to the next read.     *)
taken(n) == IF at(input.r) = "^D" /\ n < MAXIO THEN input.r ELSE (input.r + 1) % UWRAP

read_char(p) ==
    LET t == th[p]  c == at(input.r) IN
    /\ Run(p, "read")
    /\ IF t.n > 0 /\ input.r = input.w /\ p \notin killed THEN sleep(p)
       ELSE /\ IF t.n = 0 \/ input.r = input.w THEN Goto(p, "release") /\ UNCHANGED input
               ELSE /\ input' = [input EXCEPT !.r = taken(t.n),
                                              !.buf = clear(@, input.r, dist(input.r, taken(t.n)))]
                    /\ IF c = "^D" THEN Goto(p, "release")
                       ELSE \E absent \in Faults :
                              IF absent /\ t.n = MAXIO
                              THEN fault(p, t.n - 1, IF c = "nl" THEN "release" ELSE "read")
                              ELSE Set(p, [t EXCEPT !.pc = IF c = "nl" THEN "release" ELSE "read",
                                                    !.n = @ - 1])
            /\ UNCHANGED <<spin, world, locking, mixed, panicked>>

-----------------------------------------------------------------------------
(* The scheduler resumes a process on any CPU that is free.                *)
schedule(p, c) ==
    /\ cur[p] = NoCpu /\ p \notin asleep /\ idle(c) /\ (c = Cpu0 => th[Cpu0] = User)
    /\ cur' = [cur EXCEPT ![p] = c]
    /\ cpu' = [cpu EXCEPT ![c] = [flag |-> saved[p], ncli |-> 0, intena |-> FALSE]]
    /\ saved' = [saved EXCEPT ![p] = TRUE]
    /\ UNCHANGED <<lk, th, asleep, killed, input, locking, mixed, panicked>>

(* A clock tick in user mode.                                              *)
yield(p) ==
    /\ Run(p, "user")
    /\ cur' = [cur EXCEPT ![p] = NoCpu]
    /\ UNCHANGED <<spin, saved, th, asleep, killed, input, locking, mixed, panicked>>

kill(p) ==
    /\ Reading(p) /\ p \notin killed
    /\ killed' = killed \cup {p} /\ asleep' = asleep \ {p}
    /\ UNCHANGED <<spin, cur, saved, th, input, locking, mixed, panicked>>

-----------------------------------------------------------------------------
Locks(t) == acquire_console(t) \/ release_console(t) \/ print(t) \/ panic_freeze(t)

Kernel(p) ==
    \/ Locks(p) \/ trap(p) \/ mdecrypt(p) \/ resume(p)
    \/ write_char(p) \/ read_char(p) \/ \E c \in Cpus : schedule(p, c)

Call(p) ==
    \/ consolewrite(p) \/ consoleread(p) \/ kernel_print(p) \/ page_fault(p) \/ yield(p)
    \/ kernel_panic(p) \/ kill(p)

Handler == Locks(Cpu0) \/ keys_end \/ procdump \/ iret

Interrupt == consoleintr \/ \E k \in Keys : key(k)

Next ==
    \/ \E t \in Threads : xchg_console(t)
    \/ \E p \in Procs : Kernel(p) \/ Call(p)
    \/ Handler \/ Interrupt

Spec == Init /\ [][Next]_vars

-----------------------------------------------------------------------------
TypeOK ==
    /\ lk \in Cpus \cup {NoCpu}
    /\ cpu \in [Cpus -> [flag : BOOLEAN, ncli : 0 .. 1, intena : BOOLEAN]]
    /\ cur \in [Procs -> Cpus \cup {NoCpu}] /\ saved \in [Procs -> BOOLEAN]
    /\ DOMAIN th = Threads /\ asleep \subseteq Procs /\ killed \subseteq Procs
    /\ input \in [buf : [0 .. INPUT_BUF - 1 -> {"x", "nl", "^D"}],
                  r : 0 .. UWRAP - 1, w : 0 .. UWRAP - 1, e : 0 .. UWRAP - 1]
    /\ locking \in BOOLEAN /\ mixed \in BOOLEAN

(* The assertions of acquire, release, popcli and sched hold: the only     *)
(* panic is one that comes from elsewhere.                                 *)
NoAssert ==
    /\ panicked \in {"", "elsewhere"}
    /\ \A t \in Threads : th[t].pc = "panic" => th[t].locked = "elsewhere"

(* spinlock.c:100: pushcli and popcli are matched, and "if interrupts are  *)
(* off, then pushcli, popcli leaves them off": no interrupt comes on top   *)
(* of a handler, of a trap or of a thread that has cons.lock or spins for  *)
(* it, on any CPU the process has moved to; user code and the scheduler    *)
(* have interrupts on.                                                     *)
InKernelOff(t) == \/ t = Cpu0 \/ th[t].pc \in {"trap", "mdecrypt", "resume", "spin", "read", "write"}
                  \/ th[t].pc \in {"print", "release"} /\ lk = on(t)

Matched ==
    /\ \A t \in Threads : th[t] # User /\ on(t) # NoCpu /\ InKernelOff(t) => ~ cpu[on(t)].flag
    /\ \A p \in Procs : th[p].pc = "user" /\ on(p) # NoCpu /\ (on(p) = Cpu0 => th[Cpu0] = User)
                        => cpu[on(p)].flag /\ cpu[on(p)].ncli = 0
    /\ \A c \in Cpus : idle(c) /\ (c = Cpu0 => th[Cpu0] = User) => cpu[c].flag /\ cpu[c].ncli = 0

(* Until a panic, the characters of one write come out together: nobody    *)
(* else, neither a print nor the echo of a key, comes in between.          *)
Whole == ~ mixed

(* The console lock is sound: no assertion fails, interrupts are off where *)
(* they must be, and output is not mixed (spinlock.c and console.c).       *)
LockSound == TypeOK /\ NoAssert /\ Matched /\ Whole

(* Once panic has frozen the machine nothing more is put out, so the       *)
(* message stays (console.c:126: "freeze other CPU").                      *)
Printing(t) == th[t].pc = "print" \/ (th[t].pc \in {"write", "write_present"} /\ th[t].n > 0)

Frozen == [][panicked # "" => /\ \A t \in Threads : Printing(t) => th'[t] = th[t]
                              /\ UNCHANGED input.e]_vars

(* A reader sleeps only while there is nothing to read and it has not been *)
(* killed: the wakeup of a commit or of kill is not lost.                  *)
NoLostWakeup == \A p \in asleep : input.r = input.w /\ p \notin killed

(* The ring implements the line buffer, for any value of the counters.     *)
segment(i, j) == [k \in 1 .. dist(i, j) |-> at((i + k - 1) % UWRAP)]

Lines == INSTANCE LineBuffer WITH
    Chars <- {"x", "nl", "^D"}, Ends <- {"nl", "^D"}, Capacity <- INPUT_BUF,
    ready <- segment(input.r, input.w), line <- segment(input.w, input.e)

Edited == Lines!Spec

=============================================================================
