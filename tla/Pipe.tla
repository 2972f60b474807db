-------------------------------- MODULE Pipe --------------------------------
(***************************************************************************)
(* One pipe of pipe.c, shared by the processes that hold its two ends.     *)
(* p->lock is held from the start of a call to its sleep or its return;    *)
(* sleep(chan, &p->lock) gives it up and blocks in one step (ProcTable     *)
(* shows why that is sound).  kill does not take p->lock, so it may come   *)
(* between a test of killed and the sleep after it.                        *)
(***************************************************************************)
EXTENDS Integers, Sequences

CONSTANTS
    Procs, Bytes,
    PIPESIZE,
    Wrap,           \* 2^32: nread and nwrite are uint
    MaxCount        \* bound on the n of one read or write

ASSUME PipeAssumption ==
    /\ PIPESIZE \in Nat \ {0} /\ Wrap \in Nat /\ MaxCount \in Nat
    /\ Wrap % PIPESIZE = 0 /\ PIPESIZE < Wrap

VARIABLES
    data, nread, nwrite, readopen, writeopen,   \* struct pipe
    freed,          \* the page of the pipe went back to kalloc
    lock,           \* {} or {the process that holds p->lock}
    readers, writers,   \* processes with a descriptor for that end
    pc,             \* where a process is in piperead or pipewrite
    left,           \* bytes of the call still to transfer
    moved,          \* the call has transferred a byte
    killed,
    event           \* what a process last saw: a byte in, a byte out, end of file

pipe == <<data, nread, nwrite, readopen, writeopen, freed>>
ends == <<readers, writers>>
vars == <<pipe, lock, ends, pc, left, moved, killed, event>>

Init ==
    /\ data \in [0 .. PIPESIZE - 1 -> Bytes]
    /\ nread = 0 /\ nwrite = 0 /\ readopen = TRUE /\ writeopen = TRUE
    /\ freed = FALSE /\ lock = {}
    /\ readers \in SUBSET Procs \ {{}} /\ writers \in SUBSET Procs \ {{}}
    /\ pc = [p \in Procs |-> "user"] /\ left = [p \in Procs |-> 0]
    /\ moved = [p \in Procs |-> FALSE] /\ killed = [p \in Procs |-> FALSE]
    /\ event = <<"none">>

At(p, place) == pc[p] = place
To(p, place) == pc' = [pc EXCEPT ![p] = place]

full_Plain == nwrite = nread + PIPESIZE     \* mutant: no wrap-around
full == nwrite = (nread + PIPESIZE) % Wrap
empty == nread = nwrite

inc(n) == (n + 1) % Wrap

wakeup(f, chan) ==
    [p \in Procs |-> CASE f[p] = "asleep on nread" /\ chan = "nread"   -> "reading"
                       [] f[p] = "asleep on nwrite" /\ chan = "nwrite" -> "writing"
                       [] OTHER -> f[p]]

-----------------------------------------------------------------------------
(* sys_read or sys_write enters the pipe.                                  *)
Enter(p, place, n) ==
    /\ At(p, "user") /\ ~ killed[p]
    /\ To(p, place)
    /\ left' = [left EXCEPT ![p] = n] /\ moved' = [moved EXCEPT ![p] = FALSE]
    /\ UNCHANGED <<pipe, lock, ends, killed, event>>

(* acquire(&p->lock), at the start of a call or at the end of sleep.       *)
acquire(p) ==
    /\ lock = {} /\ pc[p] \in {"reading", "writing"}
    /\ lock' = {p}
    /\ To(p, IF At(p, "reading") THEN "piperead" ELSE "pipewrite")
    /\ UNCHANGED <<pipe, ends, left, moved, killed, event>>

Return(p, f) ==
    /\ lock' = {} /\ pc' = [f EXCEPT ![p] = "user"]
    /\ left' = [left EXCEPT ![p] = 0] /\ moved' = [moved EXCEPT ![p] = FALSE]

sleep(p, place) ==
    /\ lock' = {} /\ To(p, place)
    /\ UNCHANGED <<pipe, ends, left, moved, killed, event>>

-----------------------------------------------------------------------------
(* pipewrite: one byte, the test in the full loop, the end.                *)
pipewrite_byte(p, b) ==
    /\ At(p, "pipewrite") /\ left[p] > 0 /\ ~ full
    /\ data' = [data EXCEPT ![nwrite % PIPESIZE] = b]
    /\ nwrite' = inc(nwrite)
    /\ left' = [left EXCEPT ![p] = @ - 1]
    /\ event' = <<"put", b>>
    /\ UNCHANGED <<nread, readopen, writeopen, freed, lock, ends, pc, moved, killed>>

pipewrite_full(p) ==
    /\ At(p, "pipewrite") /\ left[p] > 0 /\ full
    /\ IF ~ readopen \/ killed[p]
       THEN Return(p, pc)
       ELSE /\ pc' = [wakeup(pc, "nread") EXCEPT ![p] = "pipewrite-sleep"]
            /\ UNCHANGED <<lock, left, moved>>
    /\ UNCHANGED <<pipe, ends, killed, event>>

pipewrite_sleep(p) == At(p, "pipewrite-sleep") /\ sleep(p, "asleep on nwrite")

pipewrite_return(p) ==
    /\ At(p, "pipewrite") /\ left[p] = 0
    /\ Return(p, wakeup(pc, "nread"))
    /\ UNCHANGED <<pipe, ends, killed, event>>

-----------------------------------------------------------------------------
(* piperead: the empty loop, the copy, the end.                            *)
mustwait_Always == empty            \* mutant: waits although nobody can write
mustwait == empty /\ writeopen

piperead_empty(p) ==
    /\ At(p, "piperead") /\ mustwait
    /\ IF killed[p] THEN Return(p, pc)
                    ELSE To(p, "piperead-sleep") /\ UNCHANGED <<lock, left, moved>>
    /\ UNCHANGED <<pipe, ends, killed, event>>

piperead_sleep(p) == At(p, "piperead-sleep") /\ sleep(p, "asleep on nread")

piperead_copy(p) ==
    /\ At(p, "piperead") /\ ~ mustwait
    /\ To(p, "piperead-copy")
    /\ UNCHANGED <<pipe, lock, ends, left, moved, killed, event>>

piperead_byte(p) ==
    /\ At(p, "piperead-copy") /\ left[p] > 0 /\ ~ empty
    /\ event' = <<"get", data[nread % PIPESIZE]>>
    /\ nread' = inc(nread)
    /\ left' = [left EXCEPT ![p] = @ - 1] /\ moved' = [moved EXCEPT ![p] = TRUE]
    /\ UNCHANGED <<data, nwrite, readopen, writeopen, freed, lock, ends, pc, killed>>

(* A read of n > 0 bytes that returns 0 means end of file to its caller.   *)
piperead_return(p) ==
    /\ At(p, "piperead-copy") /\ (left[p] = 0 \/ empty)
    /\ Return(p, wakeup(pc, "nwrite"))
    /\ event' = IF ~ moved[p] /\ left[p] > 0 THEN <<"eof">> ELSE event
    /\ UNCHANGED <<pipe, ends, killed>>

-----------------------------------------------------------------------------
(* fileclose of the last descriptor of an end calls pipeclose; a process   *)
(* that closes another one only drops its reference.  kill and exit close  *)
(* everything a process holds.                                             *)
lastopen_Early == TRUE              \* mutant: frees when either end closes
lastopen == ~ readopen' /\ ~ writeopen'

pipeclose(p, writable) ==
    /\ At(p, "user") /\ lock = {}
    /\ p \in (IF writable THEN writers ELSE readers)
    /\ writers' = IF writable THEN writers \ {p} ELSE writers
    /\ readers' = IF writable THEN readers ELSE readers \ {p}
    /\ writeopen' = (writeopen /\ writers' # {})
    /\ readopen' = (readopen /\ readers' # {})
    /\ freed' = (freed \/ ((writeopen' # writeopen \/ readopen' # readopen) /\ lastopen))
    /\ pc' = CASE writeopen' # writeopen -> wakeup(pc, "nread")
               [] readopen' # readopen   -> wakeup(pc, "nwrite")
               [] OTHER                  -> pc
    /\ UNCHANGED <<data, nread, nwrite, lock, left, moved, killed, event>>

kill(p) ==
    /\ killed' = [killed EXCEPT ![p] = TRUE]
    /\ pc' = [pc EXCEPT ![p] = CASE At(p, "asleep on nread")  -> "reading"
                                 [] At(p, "asleep on nwrite") -> "writing"
                                 [] OTHER                     -> pc[p]]
    /\ UNCHANGED <<pipe, lock, ends, left, moved, event>>

Call(p) ==
    \/ \E b \in Bytes : pipewrite_byte(p, b)
    \/ pipewrite_full(p) \/ pipewrite_sleep(p) \/ pipewrite_return(p)
    \/ piperead_empty(p) \/ piperead_sleep(p) \/ piperead_copy(p)
    \/ piperead_byte(p) \/ piperead_return(p)

Next == \E p \in Procs :
    \/ \E n \in 0 .. MaxCount : \/ p \in readers /\ Enter(p, "reading", n)
                                \/ p \in writers /\ Enter(p, "writing", n)
    \/ acquire(p) \/ Call(p)
    \/ \E writable \in BOOLEAN : pipeclose(p, writable)
    \/ kill(p)

Spec == Init /\ [][Next]_vars

(* The holder of a spin-lock runs on, and acquire is not starved for ever. *)
FairSpec == Spec /\ \A p \in Procs : WF_vars(Call(p)) /\ SF_vars(acquire(p))

-----------------------------------------------------------------------------
(* Properties.                                                             *)

(* Type invariant of the pipe and of the calls on it.                      *)
TypeOK ==
    /\ data \in [0 .. PIPESIZE - 1 -> Bytes]
    /\ nread \in 0 .. Wrap - 1 /\ nwrite \in 0 .. Wrap - 1
    /\ {readopen, writeopen, freed} \subseteq BOOLEAN
    /\ readers \subseteq Procs /\ writers \subseteq Procs /\ lock \subseteq Procs
    /\ pc \in [Procs -> {"user", "reading", "writing", "piperead", "pipewrite",
                         "piperead-sleep", "piperead-copy", "pipewrite-sleep",
                         "asleep on nread", "asleep on nwrite"}]
    /\ left \in [Procs -> 0 .. MaxCount] /\ moved \in [Procs -> BOOLEAN]
    /\ killed \in [Procs -> BOOLEAN]

(* Between calls a reader sleeps only while the pipe is empty and can      *)
(* still be written, a writer only while it is full and can still be read: *)
(* no wakeup of pipewrite, piperead or pipeclose comes too early.          *)
NoLostWakeup ==
    lock = {} => \A p \in Procs : /\ At(p, "asleep on nread") => empty /\ writeopen
                                  /\ At(p, "asleep on nwrite") => full /\ readopen

(* pipeclose frees the pipe only after the last call on it has returned.   *)
NoUseAfterFree ==
    freed => lock = {} /\ \A p \in Procs : At(p, "user")

(* A pipe is sound while calls and closes interleave: nobody sleeps        *)
(* through the event it waits for, nobody uses a freed pipe (pipe.c).      *)
PipeSound == TypeOK /\ NoLostWakeup /\ NoUseAfterFree

(* The ring buffer and its two wrapping counters implement a bounded       *)
(* queue, and a read reports end of file only at the end of the data.      *)
Queue == [i \in 1 .. (nwrite - nread) % Wrap |-> data[(nread + i - 1) % PIPESIZE]]
Ch == INSTANCE Channel WITH queue <- Queue, open <- writeopen, Size <- PIPESIZE
Fifo == Ch!Spec

(* A writer blocked on a full pipe returns once the last reader is gone,   *)
(* and a reader of a pipe nobody can write returns.                        *)
CallsEnd ==
    \A p \in Procs : /\ ~ readopen ~> (At(p, "user") \/ p \notin writers)
                     /\ ~ writeopen ~> (At(p, "user") \/ p \notin readers)
=============================================================================
