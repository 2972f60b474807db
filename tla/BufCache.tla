------------------------------ MODULE BufCache ------------------------------
(***************************************************************************)
(* The buffer cache of bio.c over the IDE driver of ide.c: processes bread *)
(* a block, change it, have it written or left to the log, and brelse it;  *)
(* the disk answers each request with an interrupt.                        *)
(*                                                                         *)
(* A step ends where another process or the interrupt can see a            *)
(* difference: bcache.lock and idelock are held within a step only.        *)
(***************************************************************************)
EXTENDS Integers, Sequences, FiniteSets, SequencesExt

CONSTANTS
    Procs,
    Blocks,         \* block numbers of the one disk
    Written,        \* the blocks among them that callers change
    Data, Zero,     \* contents of a block
    NBUF,           \* param.h: size of the cache
    MAXDIRTY,       \* blocks the log pins at a time
    Outcomes,       \* of a request: "done", and "error" where the disk may fail
    Nobody, NoBlock

ASSUME CacheAssumption ==
    /\ NBUF \in Nat \ {0} /\ MAXDIRTY \in Nat /\ Outcomes \subseteq {"done", "error"}
    /\ NoBlock \notin Blocks /\ Nobody \notin Procs
    /\ Written \subseteq Blocks /\ Zero \in Data

Bufs == 1 .. NBUF

VARIABLES
    locked, waiting,    \* b->lock
    buf,                \* b->blockno, refcnt, flags and data
    lru,                \* the list from bcache.head.next, most recently used first
    idequeue,
    dev,                \* the controller: idle, busy, done or error
    disk,               \* blocks on disk
    pc, mine,           \* where each process is, and its buffer
    asleep,             \* processes asleep in iderw, each on its buffer
    panicked

INSTANCE SleepLock WITH Locks <- Bufs

cache == <<locked, waiting, buf, lru>>
io == <<idequeue, dev, disk>>
procs == <<pc, mine, asleep>>
vars == <<cache, io, procs, panicked>>

Init ==
    /\ initsleeplock
    /\ buf = [b \in Bufs |-> [blockno |-> NoBlock, refcnt |-> 0, flags |-> {}, data |-> Zero]]
    /\ disk = [n \in Blocks |-> Zero]
    /\ lru = [i \in Bufs |-> NBUF + 1 - i]      \* binit
    /\ idequeue = <<>> /\ dev = "idle"
    /\ pc = [p \in Procs |-> "idle"] /\ mine = [p \in Procs |-> 1]
    /\ asleep = {}
    /\ panicked = FALSE

Goto(p, l) == pc' = [pc EXCEPT ![p] = l]

-----------------------------------------------------------------------------
(* bget under bcache.lock: the buffer that caches n, else the least        *)
(* recently used one nobody uses and the log does not pin.                 *)
cached_Valid(n) == {b \in Bufs : buf[b].blockno = n /\ "VALID" \in buf[b].flags}   \* mutant: misses a buffer being read
cached(n) == {b \in Bufs : buf[b].blockno = n}

recyclable_Dirty(b) == buf[b].refcnt = 0    \* mutant: B_DIRTY does not protect it
recyclable_New(b) == buf[b].refcnt = 0 /\ buf[b].flags = {}     \* mutant: nor does B_VALID expire
recyclable(b) == buf[b].refcnt = 0 /\ "DIRTY" \notin buf[b].flags

recycled(b, n) == [buf[b] EXCEPT !.blockno = n, !.flags = {}, !.refcnt = 1]

counted(b) == [buf[b] EXCEPT !.refcnt = @ + 1]

bget(p, n) ==
    LET hit == cached(n)
        free == SelectSeq(lru, recyclable)
        b == IF hit # {} THEN CHOOSE c \in hit : TRUE ELSE Last(free)
    IN  /\ ~ panicked /\ pc[p] = "idle"
        /\ IF hit = {} /\ free = <<>>
           THEN panicked' = TRUE /\ UNCHANGED <<buf, pc, mine>>    \* "bget: no buffers"
           ELSE /\ buf' = [buf EXCEPT ![b] = IF hit # {} THEN counted(b) ELSE recycled(b, n)]
                /\ Goto(p, "lock") /\ mine' = [mine EXCEPT ![p] = b]
                /\ UNCHANGED panicked
        /\ UNCHANGED <<locked, waiting, lru, io, asleep>>

(* iderw up to its sleep, under idelock: the loop's test fails, because    *)
(* the buffer is not valid or is dirty (f: its flags).  An empty queue     *)
(* means that the controller has nothing to do: idestart.                  *)
idestart(q) == IF q = <<>> THEN "idle" ELSE "busy"

iderw(p, b, f) ==
    /\ panicked' = (locked'[b] # p \/ f = {"VALID"})
    /\ idequeue' = Append(idequeue, b)
    /\ dev' = IF Head(idequeue') = b THEN idestart(idequeue') ELSE dev
    /\ asleep' = asleep \cup {p}
    /\ UNCHANGED disk

(* The end of bget takes the lock, and bread asks the disk only for a      *)
(* buffer that is not valid.                                               *)
bread(p) ==
    LET b == mine[p] IN
    /\ ~ panicked /\ pc[p] = "lock"
    /\ acquiresleep(p, b)
    /\ IF locked[b] = Nobody /\ "VALID" \notin buf[b].flags
       THEN Goto(p, "reading") /\ iderw(p, b, buf[b].flags)
       ELSE /\ Goto(p, IF locked[b] = Nobody THEN "held" ELSE "lock")
            /\ UNCHANGED <<io, asleep, panicked>>
    /\ UNCHANGED <<buf, lru, mine>>

(* The caller changes the data and calls log_write, which pins the buffer; *)
(* log.c keeps the number of pinned blocks within the log.                 *)
Pinned == {b \in Bufs : "DIRTY" \in buf[b].flags}

log_write(p, d) ==
    LET b == mine[p] IN
    /\ ~ panicked /\ pc[p] = "held" /\ buf[b].blockno \in Written
    /\ b \in Pinned \/ Cardinality(Pinned) < MAXDIRTY
    /\ buf' = [buf EXCEPT ![b].data = d, ![b].flags = @ \cup {"DIRTY"}]
    /\ UNCHANGED <<locked, waiting, lru, io, procs, panicked>>

bwrite(p) ==
    LET b == mine[p] IN
    /\ ~ panicked /\ pc[p] = "held" /\ buf[b].blockno \in Written
    /\ buf' = [buf EXCEPT ![b].flags = @ \cup {"DIRTY"}]
    /\ UNCHANGED <<locked, waiting, lru, mine>>
    /\ Goto(p, "writing") /\ iderw(p, b, buf'[b].flags)

(* brelse: the lock first, the reference count in a second critical        *)
(* section.                                                                *)
brelse(p) ==
    LET b == mine[p] IN
    /\ ~ panicked /\ pc[p] \in {"held", "written"}
    /\ panicked' = ~ holdingsleep(p, b)
    /\ releasesleep(b)
    /\ Goto(p, "release")
    /\ UNCHANGED <<buf, lru, io, mine, asleep>>

front(b) == <<b>> \o SelectSeq(lru, LAMBDA x : x # b)

brelse_count(p) ==
    LET b == mine[p] IN
    /\ ~ panicked /\ pc[p] = "release"
    /\ buf' = [buf EXCEPT ![b].refcnt = @ - 1]
    /\ lru' = IF buf[b].refcnt = 1 THEN front(b) ELSE lru
    /\ Goto(p, "idle")
    /\ mine' = [mine EXCEPT ![p] = 1]
    /\ UNCHANGED <<locked, waiting, io, asleep, panicked>>

-----------------------------------------------------------------------------
(* The controller finishes the request it was given, or reports an error,  *)
(* and raises its interrupt.                                               *)
Controller ==
    LET b == Head(idequeue) IN
    /\ dev = "busy"
    /\ dev' \in Outcomes
    /\ disk' = IF dev' = "done" /\ "DIRTY" \in buf[b].flags
               THEN [disk EXCEPT ![buf[b].blockno] = buf[b].data] ELSE disk
    /\ UNCHANGED <<cache, idequeue, procs, panicked>>

(* ideintr wakes the process that waits for this buffer (wakeup(b)) and    *)
(* starts the next request.  A read is copied in unless the status shows   *)
(* an error; the flags change all the same.                                *)
wakeup(b) == {p \in asleep : mine[p] # b}

nextrequest(q) == idestart(q)

ideintr ==
    LET b == Head(idequeue)
        copied == "DIRTY" \notin buf[b].flags /\ dev = "done"
    IN  /\ ~ panicked /\ dev \in {"done", "error"}
        /\ idequeue' = Tail(idequeue)
        /\ buf' = [buf EXCEPT ![b].data = IF copied THEN disk[buf[b].blockno] ELSE @,
                              ![b].flags = {"VALID"}]
        /\ asleep' = wakeup(b)
        /\ dev' = nextrequest(Tail(idequeue))
        /\ UNCHANGED <<locked, waiting, lru, disk, pc, mine, panicked>>

(* The loop of iderw after a wakeup.                                       *)
iderw_test(p) ==
    LET b == mine[p] IN
    /\ ~ panicked /\ pc[p] \in {"reading", "writing"} /\ p \notin asleep
    /\ IF buf[b].flags = {"VALID"}
       THEN Goto(p, IF pc[p] = "reading" THEN "held" ELSE "written") /\ UNCHANGED asleep
       ELSE asleep' = asleep \cup {p} /\ UNCHANGED pc
    /\ UNCHANGED <<cache, io, mine, panicked>>

-----------------------------------------------------------------------------
Kernel(p) == bread(p) \/ brelse(p) \/ brelse_count(p) \/ iderw_test(p)

Call(p) ==
    \/ \E n \in Blocks : bget(p, n)
    \/ \E d \in Data : log_write(p, d)
    \/ bwrite(p)

Next == (\E p \in Procs : Kernel(p) \/ Call(p)) \/ Controller \/ ideintr

Spec == Init /\ [][Next]_vars

(* The disk answers, the kernel runs, users release their buffers; a       *)
(* sleep-lock keeps no queue, so that no waiter is overtaken for ever is   *)
(* an assumption.                                                          *)
Fairness ==
    /\ WF_vars(Controller) /\ WF_vars(ideintr)
    /\ \A p \in Procs : /\ SF_vars(bread(p) /\ locked[mine[p]] = Nobody)
                        /\ WF_vars(brelse(p) \/ brelse_count(p) \/ iderw_test(p))

FairSpec == Spec /\ Fairness

-----------------------------------------------------------------------------
TypeOK ==
    /\ locked \in [Bufs -> Procs \cup {Nobody}] /\ waiting \in [Bufs -> SUBSET Procs]
    /\ buf \in [Bufs -> [blockno : Blocks \cup {NoBlock}, refcnt : 0 .. Cardinality(Procs),
                          flags : SUBSET {"VALID", "DIRTY"}, data : Data]]
    /\ lru \in [Bufs -> Bufs] /\ idequeue \in Seq(Bufs)
    /\ dev \in {"idle", "busy", "done", "error"} /\ disk \in [Blocks -> Data]
    /\ pc \in [Procs -> {"idle", "lock", "reading", "held", "writing",
                          "written", "release"}]
    /\ mine \in [Procs -> Bufs] /\ asleep \in SUBSET Procs /\ panicked \in BOOLEAN

(* bio.c:5: the cache is "a synchronization point for disk blocks used by  *)
(* multiple processes": two buffers never cache the same block, whatever   *)
(* lookups and recyclings interleave.                                      *)
OneBuffer ==
    \A b, c \in Bufs : buf[b].blockno = buf[c].blockno /\ b # c => buf[b].blockno = NoBlock

(* refcnt is the number of processes between the look-up in bget and the   *)
(* end of brelse: a buffer some process still points to, asleep or not, is *)
(* never recycled for another block.                                       *)
Counted ==
    \A b \in Bufs : buf[b].refcnt = Cardinality({p \in Procs : pc[p] # "idle" /\ mine[p] = b})

(* No wakeup is lost: whoever sleeps for a buffer's lock has a holder to   *)
(* wake it, and whoever sleeps in iderw has its request in the queue of a  *)
(* controller that is at work or about to interrupt.                       *)
Woken ==
    /\ \A b \in Bufs : waiting[b] # {} => locked[b] # Nobody
    /\ \A p \in asleep : mine[p] \in ToSet(idequeue)
    /\ ~ panicked => (idequeue # <<>> <=> dev # "idle")

(* The cache is sound: one buffer for a block, counted by its users, who   *)
(* are all going to be woken (bio.c, ide.c and sleeplock.c).               *)
CacheSound == TypeOK /\ OneBuffer /\ Counted /\ Woken

(* None of the panics of bio.c and ide.c is reached: with a buffer for     *)
(* every block the log pins and one for each process, bget always finds    *)
(* one, and iderw is only called for a locked buffer with work to do.      *)
NoPanic == ~ panicked

(* The cache over the disk implements plain blocks with one user each.     *)
(* Through eviction, read-back and write-back, a block's contents change   *)
(* only when its user changes them.                                        *)
current(n) ==
    LET c == {b \in Bufs : buf[b].blockno = n /\ buf[b].flags # {}}
    IN  IF c = {} THEN disk[n] ELSE buf[CHOOSE b \in c : TRUE].data

using(n) ==
    LET u == {p \in Procs : /\ pc[p] \in {"held", "writing", "written"}
                            /\ buf[mine[p]].blockno = n}
    IN  IF u = {} THEN Nobody ELSE CHOOSE p \in u : TRUE

Blk == INSTANCE BlockStore WITH store <- [n \in Blocks |-> current(n)],
                                user <- [n \in Blocks |-> using(n)]

Stored == Blk!Spec

(* bread returns: a process that asks for a block gets it, past other      *)
(* users of the buffer and the requests before its own.                    *)
Served == \A p \in Procs : (pc[p] = "lock") ~> (pc[p] = "held")

=============================================================================
