-------------------------------- MODULE Log --------------------------------
(***************************************************************************)
(* The redo log of log.c: file-system calls between begin_op and end_op    *)
(* share one transaction, the last end_op commits it, and recovery at boot *)
(* replays a committed transaction.  The machine may lose power between    *)
(* any two disk writes, during recovery too.                               *)
(*                                                                         *)
(* A bwrite of one block (BSIZE is one sector) is one atomic step.  cache  *)
(* is what bread returns: the buffer cache pins the blocks in the log.     *)
(***************************************************************************)
EXTENDS Integers, Sequences, FiniteSets, FiniteSetsExt

CONSTANTS
    Ops,            \* processes that make file-system calls
    Blocks,         \* home blocks
    Values,         \* contents of a block
    MAXOPBLOCKS,    \* param.h: "max # of blocks any FS op writes"
    LOGSIZE,        \* param.h: "max data blocks in on-disk log"
    NLOG,           \* sb.nlog: blocks of the on-disk log, header included
    InodeStart,     \* the home block that follows the log on disk
    NoBlock

ASSUME LogAssumption ==
    /\ MAXOPBLOCKS \in Nat \ {0} /\ LOGSIZE \in Nat \ {0} /\ NLOG \in Nat \ {0}
    /\ InodeStart \in Blocks /\ NoBlock \notin Blocks
    /\ NLOG = LOGSIZE      \* mkfs.c
    /\ IsFiniteSet(Ops) /\ Values # {}

VARIABLES
    home, slots, header,        \* on disk: home blocks, log blocks, header
    cache,                      \* contents as bread returns them
    lh, outstanding, committing,    \* struct log
    pc, used,                   \* system calls, and log_writes made by each
    buf,                        \* the buffer a call holds inside log_write
    stage, tail,                \* progress of commit or of recovery
    booting,                    \* recover_from_log is running
    panicked

disk == <<home, slots, header>>
calls == <<outstanding, committing, pc, used, buf>>
vars == <<disk, cache, lh, calls, stage, tail, booting, panicked>>

Slot == 1 .. NLOG - 1

Init ==
    /\ \E v \in Values : /\ home = [b \in Blocks |-> v]
                         /\ slots = [i \in Slot |-> v]
    /\ header = <<>> /\ lh = <<>> /\ cache = home
    /\ outstanding = 0 /\ committing = FALSE
    /\ pc = [p \in Ops |-> "idle"] /\ used = [p \in Ops |-> 0]
    /\ buf = [p \in Ops |-> NoBlock]
    /\ stage = "none" /\ tail = 1 /\ booting = FALSE /\ panicked = FALSE

Up == ~ booting /\ ~ panicked

-----------------------------------------------------------------------------
(* begin_op: one round of its loop under log.lock.                         *)
reserve_Less(n) == Len(lh) + (n - 1) * MAXOPBLOCKS <= LOGSIZE   \* mutant: forgets the new call
reserve(n) == Len(lh) + n * MAXOPBLOCKS <= LOGSIZE

mustwait == committing \/ ~ reserve(outstanding + 1)

begin_op(p) ==
    /\ Up /\ pc[p] \in {"idle", "begin"}
    /\ IF mustwait
       THEN pc' = [pc EXCEPT ![p] = "asleep"] /\ UNCHANGED outstanding
       ELSE pc' = [pc EXCEPT ![p] = "op"] /\ outstanding' = outstanding + 1
    /\ UNCHANGED <<disk, cache, lh, committing, used, buf, stage, tail, booting, panicked>>

wakeup_Not(f) == f      \* mutant: no wakeup(&log)
wakeup(f) == [p \in Ops |-> IF f[p] = "asleep" THEN "begin" ELSE f[p]]

(* The caller changes a buffer it holds and calls log_write, which reads   *)
(* log.lh.n before it takes log.lock: two calls may both pass the check.   *)
toobig == Len(lh) >= LOGSIZE \/ Len(lh) >= NLOG - 1

log_write_check(p, b, v) ==
    /\ Up /\ pc[p] = "op" /\ buf[p] = NoBlock /\ used[p] < MAXOPBLOCKS
    /\ \A q \in Ops : buf[q] # b
    /\ cache' = [cache EXCEPT ![b] = v]
    /\ buf' = [buf EXCEPT ![p] = b]
    /\ used' = [used EXCEPT ![p] = @ + 1]
    /\ panicked' = toobig
    /\ UNCHANGED <<disk, lh, outstanding, committing, pc, stage, tail, booting>>

absorb(s, b) == IF \E i \in DOMAIN s : s[i] = b THEN s ELSE Append(s, b)

log_write(p) ==
    /\ Up /\ buf[p] # NoBlock
    /\ lh' = absorb(lh, buf[p])
    /\ buf' = [buf EXCEPT ![p] = NoBlock]
    /\ UNCHANGED <<disk, cache, outstanding, committing, pc, used, stage, tail,
                   booting, panicked>>

(* end_op up to the commit; the last call out commits, the others wake     *)
(* those that wait for space.                                              *)
leave == outstanding - 1

end_op(p) ==
    /\ Up /\ pc[p] = "op" /\ buf[p] = NoBlock
    /\ outstanding' = leave
    /\ used' = [used EXCEPT ![p] = 0]
    /\ panicked' = committing
    /\ IF leave = 0
       THEN /\ committing' = TRUE
            /\ pc' = [pc EXCEPT ![p] = "commit"]
            /\ stage' = IF lh = <<>> THEN "done" ELSE "log"
            /\ tail' = 1
       ELSE /\ pc' = [wakeup(pc) EXCEPT ![p] = "idle"]
            /\ UNCHANGED <<committing, stage, tail>>
    /\ UNCHANGED <<disk, cache, lh, buf, booting>>

-----------------------------------------------------------------------------
(* commit and recovery, one disk write at a time.                          *)

(* After a write the loop goes on to the next block or to the next stage.  *)
Advance(next) ==
    IF tail < Len(lh) THEN stage' = stage /\ tail' = tail + 1
                      ELSE stage' = next /\ tail' = 1

(* Block log.start + i.  The block after the last one of the log is the    *)
(* first inode block.                                                      *)
logblock(i) == IF i \in Slot THEN slots[i] ELSE cache[InodeStart]

(* bread of one block twice waits for its own sleep-lock for ever.         *)
write_log ==
    /\ ~ panicked /\ stage = "log"
    /\ IF tail \in Slot
       THEN slots' = [slots EXCEPT ![tail] = cache[lh[tail]]] /\ UNCHANGED <<home, cache>>
       ELSE /\ lh[tail] # InodeStart
            /\ home' = [home EXCEPT ![InodeStart] = cache[lh[tail]]]
            /\ cache' = [cache EXCEPT ![InodeStart] = cache[lh[tail]]]
            /\ UNCHANGED slots
    /\ Advance("head")
    /\ UNCHANGED <<header, lh, calls, booting, panicked>>

(* "This is the true point at which the current transaction commits."      *)
write_head ==
    /\ ~ panicked /\ stage = "head"
    /\ header' = lh
    /\ stage' = "install"
    /\ UNCHANGED <<home, slots, cache, lh, calls, tail, booting, panicked>>

install_trans ==
    /\ ~ panicked /\ stage = "install" /\ lh # <<>>
    /\ home' = [home EXCEPT ![lh[tail]] = logblock(tail)]
    /\ cache' = [cache EXCEPT ![lh[tail]] = logblock(tail)]
    /\ Advance("clear")
    /\ UNCHANGED <<slots, header, lh, calls, booting, panicked>>

(* log.lh.n = 0; write_head().  Recovery is over; commit() returns.        *)
erase_Not == header     \* mutant: log.lh.n = 0 is not written to disk
erase == <<>>

clear_log ==
    /\ ~ panicked
    /\ stage = "clear" \/ (stage = "install" /\ lh = <<>>)
    /\ lh' = <<>> /\ header' = erase
    /\ stage' = IF booting THEN "none" ELSE "done"
    /\ booting' = FALSE
    /\ UNCHANGED <<home, slots, cache, calls, tail, panicked>>

(* The end of end_op after commit() returned.                              *)
end_commit(p) ==
    /\ Up /\ pc[p] = "commit" /\ stage = "done"
    /\ committing' = FALSE
    /\ pc' = [wakeup(pc) EXCEPT ![p] = "idle"]
    /\ stage' = "none"
    /\ UNCHANGED <<disk, cache, lh, outstanding, used, buf, tail, booting, panicked>>

(* Power is lost and comes back: memory is gone, initlog calls             *)
(* recover_from_log, whose read_head loads the header.                     *)
Crash ==
    /\ lh' = header /\ cache' = home
    /\ outstanding' = 0 /\ committing' = FALSE
    /\ pc' = [p \in Ops |-> "idle"] /\ used' = [p \in Ops |-> 0]
    /\ buf' = [p \in Ops |-> NoBlock]
    /\ stage' = "install" /\ tail' = 1 /\ booting' = TRUE /\ panicked' = FALSE
    /\ UNCHANGED disk

Commit == write_log \/ write_head \/ install_trans \/ clear_log

Next ==
    \/ \E p \in Ops : \/ begin_op(p) \/ end_op(p) \/ end_commit(p) \/ log_write(p)
                      \/ \E b \in Blocks, v \in Values : log_write_check(p, b, v)
    \/ Commit
    \/ Crash

Spec == Init /\ [][Next]_vars

(* Calls end, the disk answers, and a caller that finds room again and     *)
(* again when it runs is admitted.                                         *)
FairSpec ==
    /\ Spec
    /\ WF_vars(Commit)
    /\ \A p \in Ops : /\ SF_vars(begin_op(p) /\ pc'[p] = "op")
                      /\ WF_vars(log_write(p) \/ end_op(p) \/ end_commit(p))

-----------------------------------------------------------------------------
(* Properties.                                                             *)

(* Type invariant of the log.                                              *)
TypeOK ==
    /\ home \in [Blocks -> Values] /\ slots \in [Slot -> Values]
    /\ cache \in [Blocks -> Values]
    /\ \A s \in {header, lh} : /\ DOMAIN s \in {1 .. n : n \in 0 .. LOGSIZE}
                               /\ \A i \in DOMAIN s : s[i] \in Blocks
    /\ outstanding \in 0 .. Cardinality(Ops) /\ committing \in BOOLEAN
    /\ pc \in [Ops -> {"idle", "begin", "asleep", "op", "commit"}]
    /\ used \in [Ops -> 0 .. MAXOPBLOCKS]
    /\ buf \in [Ops -> Blocks \union {NoBlock}]
    /\ stage \in {"none", "log", "head", "install", "clear", "done"}
    /\ tail \in 1 .. LOGSIZE /\ booting \in BOOLEAN /\ panicked \in BOOLEAN

(* log.c: "The logging system only commits when there are no FS system     *)
(* calls active."  It makes the panic of end_op unreachable.               *)
CommitAlone ==
    committing => outstanding = 0 /\ \A p \in Ops : pc[p] # "op"

(* begin_op's reservation covers what the admitted calls may still write.  *)
Reserved ==
    LET due(p) == MAXOPBLOCKS - used[p] + (IF buf[p] = NoBlock THEN 0 ELSE 1)
    IN  Len(lh) + MapThenSumSet(due, {p \in Ops : pc[p] = "op"}) <= LOGSIZE

(* A call asleep in begin_op has somebody left to wake it: a call in       *)
(* progress or the committer.                                              *)
NoStrandedCall ==
    Up /\ (\E p \in Ops : pc[p] = "asleep") => outstanding > 0 \/ committing

(* The log's accounting is sound: commits run alone, the log has room for  *)
(* every admitted call, and no call sleeps for good (log.c).               *)
LogSound == TypeOK /\ CommitAlone /\ Reserved /\ NoStrandedCall

(* The log implements an atomic disk: whatever the crashes, what recovery  *)
(* restores is the state after a set of complete calls.                    *)
Durable ==
    [b \in Blocks |-> IF \E i \in DOMAIN header : header[i] = b
                      THEN logblock(CHOOSE i \in DOMAIN header : header[i] = b)
                      ELSE home[b]]
AD == INSTANCE AtomicDisk WITH
          durable <- Durable,
          current <- IF booting THEN Durable ELSE cache,
          active  <- {p \in Ops : pc[p] = "op"}
Atomic == AD!Spec

(* begin_op returns, unless the machine stops.                             *)
BeginReturns ==
    \A p \in Ops : pc[p] = "asleep" ~> (pc[p] \in {"op", "idle"} \/ panicked)

=============================================================================
