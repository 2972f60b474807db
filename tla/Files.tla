-------------------------------- MODULE Files --------------------------------
(***************************************************************************)
(* The file-system calls of sysfile.c over inodes, directories and the     *)
(* open-file table (fs.c, file.c), by processes that run concurrently.     *)
(*                                                                         *)
(* A step ends where a process waits for an inode's sleep-lock, and where  *)
(* icache.ref or ftable is read in one critical section and used in a      *)
(* later one.  Calls run inside begin_op and end_op (Log), which do not    *)
(* exclude each other.                                                     *)
(***************************************************************************)
EXTENDS Inodes

CONSTANTS
    Procs, Nobody,
    NFILE,      \* entries of ftable
    NOFILE,     \* descriptors of a process
    Workloads   \* a sequence of [Procs -> sets of [op, abs, path, abs2, path2]]: what they may call

ASSUME FilesAssumption == NFILE \in Nat \ {0} /\ NOFILE \in Nat \ {0} /\ Nobody \notin Procs

FileIds == 1 .. NFILE
Fds == 0 .. NOFILE - 1
NoFile == 0
ClosedFile == [ref |-> 0, type |-> "none", ip |-> None]

VARIABLES
    dinode, dirent,     \* on disk
    icache, locked,     \* the inode cache and its sleep-locks
    ftable, ofile, cwd, \* open files, descriptors, current directories
    th,                 \* what each process is doing in the kernel
    work,               \* the workload, fixed from the start
    panicked

disk == <<dinode, dirent>>
files == <<ftable, ofile, cwd>>
vars == <<disk, icache, locked, files, th, work, panicked>>

(* pc, the call, the path still to walk, the references the call holds     *)
(* (ip, dp), inodes it is about to iput and how far iput is, and files it  *)
(* has allocated but not given a descriptor.                               *)
NoCall == [op |-> "none", abs |-> TRUE, path |-> <<>>, abs2 |-> TRUE, path2 |-> <<>>]
PipeCall == [NoCall EXCEPT !.op = "pipe"]
DupCall == [NoCall EXCEPT !.op = "dup"]
Idle == [pc |-> "idle", call |-> NoCall, path |-> <<>>, ip |-> None, dp |-> None,
         puts |-> <<>>, stage |-> "lock", new |-> <<>>]

NoInodes == [s \in Slots |-> NoEntry]

calls(p) == Workloads[work][p]

Init ==
    /\ dinode = [i \in Inums |-> IF i = ROOTINO THEN [type |-> "dir", nlink |-> 1] ELSE FreeInode]
    /\ dirent = [i \in Inums |-> IF i = ROOTINO THEN Dots(ROOTINO, ROOTINO) ELSE NoEntries]
    /\ \E p \in Procs : cwd = [q \in Procs |-> IF q = p THEN 1 ELSE None]
    /\ icache = [NoInodes EXCEPT ![1] = [NoEntry EXCEPT !.inum = ROOTINO, !.ref = 1]]
    /\ locked = [s \in Slots |-> Nobody]
    /\ ftable = [f \in FileIds |-> ClosedFile]
    /\ ofile = [p \in Procs |-> [d \in Fds |-> NoFile]]
    /\ th = [p \in Procs |-> Idle] /\ panicked = ""
    /\ work \in DOMAIN Workloads

-----------------------------------------------------------------------------
Run(p, l) == panicked = "" /\ th[p].pc = l /\ th[p].puts = <<>>
Set(p, t) == th' = [th EXCEPT ![p] = t] /\ UNCHANGED work
Return(p, puts) == Set(p, [Idle EXCEPT !.puts = puts])
Free(s) == locked[s] = Nobody
Lock(s, p) == locked' = [locked EXCEPT ![s] = p]
Unlock(s) == locked' = [locked EXCEPT ![s] = Nobody]
Check(c, s) == panicked' = IF c[s].type = "none" THEN "ilock: no type" ELSE ""
Inum(s) == icache[s].inum

(* iput: whether to free is decided with the count read in one critical    *)
(* section of icache.lock; the count goes down in a later one.             *)
lastref(s) == icache[s].valid /\ icache[s].nlink = 0 /\ icache[s].ref = 1

iput(p) ==
    LET t == th[p]  s == Head(t.puts) IN
    /\ panicked = "" /\ t.puts # <<>> /\ t.stage = "lock" /\ Free(s)
    /\ IF lastref(s) THEN Set(p, [t EXCEPT !.stage = "free"]) /\ Lock(s, p)
                     ELSE Set(p, [t EXCEPT !.stage = "drop"]) /\ UNCHANGED locked
    /\ UNCHANGED <<disk, icache, files, panicked>>

iput_free(p) ==
    LET t == th[p]  s == Head(t.puts)
        c == [icache EXCEPT ![s].type = "none"]
    IN  /\ panicked = "" /\ t.puts # <<>> /\ t.stage = "free"
        /\ dirent' = [dirent EXCEPT ![Inum(s)] = NoEntries]     \* itrunc
        /\ dinode' = iupdate(c, s, dinode)
        /\ icache' = [c EXCEPT ![s].valid = FALSE]
        /\ Unlock(s)
        /\ Set(p, [t EXCEPT !.stage = "drop"])
        /\ UNCHANGED <<files, panicked>>

drop(s) == [icache EXCEPT ![s] = IF @.ref = 1 THEN NoEntry ELSE [@ EXCEPT !.ref = @ - 1]]

iput_drop(p) ==
    LET t == th[p] IN
    /\ panicked = "" /\ t.puts # <<>> /\ t.stage = "drop"
    /\ icache' = drop(Head(t.puts))
    /\ Set(p, [t EXCEPT !.stage = "lock", !.puts = Tail(@)])
    /\ UNCHANGED <<disk, locked, files, panicked>>

-----------------------------------------------------------------------------
(* A path call starts at the root or at the current directory, and walks   *)
(* one element at a time: dp is where it is.  With parent, it stops at the *)
(* directory of the last element.                                          *)
started(c, p, abs) == IF abs THEN iget(c, ROOTINO) ELSE idup(c, cwd[p])
start(c, p, abs) == IF abs THEN entry(c, ROOTINO) ELSE cwd[p]

begin(p, call) ==
    /\ Run(p, "idle") /\ cwd[p] # None /\ call \notin {PipeCall, DupCall}
    /\ icache' = started(icache, p, call.abs)
    /\ Set(p, [Idle EXCEPT !.pc = "walk", !.call = call, !.path = call.path,
                           !.dp = start(icache, p, call.abs)])
    /\ UNCHANGED <<disk, locked, files, panicked>>

parent(t) == t.call.op \in {"create", "mkdir", "mknod", "unlink"} \/ t.ip # None

(* A failed walk ends the call, or undoes the link count of sys_link.      *)
failed(t, puts) ==
    IF t.ip = None THEN [Idle EXCEPT !.puts = puts]
    ELSE [t EXCEPT !.pc = "link_bad", !.path = <<>>, !.dp = None, !.puts = puts]

namex(p) ==
    LET t == th[p]  s == t.dp
        c == load(icache, s, dinode)
        next == dirent[Inum(s)][Head(t.path)]
        stop == parent(t) /\ Len(t.path) = 1
    IN  /\ Run(p, "walk")
        /\ IF t.path = <<>>
           THEN /\ Set(p, IF parent(t) THEN failed(t, <<s>>) ELSE [t EXCEPT !.pc = t.call.op])
                /\ UNCHANGED <<icache, panicked>>
           ELSE /\ Free(s) /\ Check(c, s)
                /\ IF c[s].type = "dir" /\ ~ stop /\ next # None
                   THEN /\ icache' = iget(c, next)
                        /\ Set(p, [t EXCEPT !.dp = entry(c, next), !.path = Tail(@),
                                            !.puts = <<s>>])
                   ELSE /\ icache' = c
                        /\ Set(p, IF c[s].type = "dir" /\ stop THEN [t EXCEPT !.pc = t.call.op]
                                  ELSE failed(t, <<s>>))
        /\ UNCHANGED <<disk, locked, files>>

-----------------------------------------------------------------------------
(* create: with the parent locked, look the name up; ialloc marks a new    *)
(* inode on disk and the parent stays locked until the entry is there.     *)
Type(op) == IF op = "mkdir" THEN "dir" ELSE IF op = "mknod" THEN "dev" ELSE "file"

create(p, op) ==
    LET t == th[p]  s == t.dp
        c == load(icache, s, dinode)
        i == dirent[Inum(s)][Head(t.path)]
        j == Min(spare(dinode))
    IN  /\ op \in {"create", "mkdir", "mknod"} /\ Run(p, op) /\ Free(s)
        /\ IF i # None
           THEN /\ icache' = iget(c, i)
                /\ Set(p, [t EXCEPT !.pc = "old", !.ip = entry(c, i), !.dp = None, !.puts = <<s>>])
                /\ Check(c, s) /\ UNCHANGED <<dinode, locked>>
           ELSE IF spare(dinode) = {}
           THEN /\ panicked' = "ialloc: no inodes"
                /\ UNCHANGED <<dinode, icache, locked, th, work>>
           ELSE /\ dinode' = [dinode EXCEPT ![j] = [type |-> Type(op), nlink |-> 0]]
                /\ icache' = iget(c, j)
                /\ Lock(s, p)
                /\ Set(p, [t EXCEPT !.pc = "new", !.ip = entry(c, j)])
                /\ Check(c, s)
        /\ UNCHANGED <<dirent, files>>

create_old(p) ==
    LET t == th[p]  c == load(icache, t.ip, dinode) IN
    /\ Run(p, "old") /\ Free(t.ip) /\ Check(c, t.ip)
    /\ icache' = c
    /\ IF t.call.op = "create" /\ c[t.ip].type = "file"
       THEN Set(p, [t EXCEPT !.pc = "opened"]) /\ Lock(t.ip, p)
       ELSE Return(p, <<t.ip>>) /\ UNCHANGED locked
    /\ UNCHANGED <<disk, files>>

(* A directory's ".." is a link to its parent.                             *)
dotdot(c, dp, type) == IF type = "dir" THEN addlink(c, dp, 1) ELSE c

create_new(p) ==
    LET t == th[p]  s == t.ip
        c1 == load(icache, s, dinode)
        c2 == dotdot([c1 EXCEPT ![s].nlink = 1], t.dp, c1[s].type)
    IN  /\ Run(p, "new") /\ Free(s) /\ Check(c1, s)
        /\ icache' = c2
        /\ dinode' = iupdate(c2, t.dp, iupdate(c2, s, dinode))
        /\ dirent' = [dirent EXCEPT ![Inum(s)] = IF c1[s].type = "dir"
                                                 THEN Dots(Inum(s), Inum(t.dp)) ELSE @,
                                    ![Inum(t.dp)][Head(t.path)] = Inum(s)]
        /\ locked' = [locked EXCEPT ![t.dp] = Nobody, ![s] = p]
        /\ Set(p, [t EXCEPT !.pc = IF t.call.op = "create" THEN "opened" ELSE "made",
                            !.dp = None, !.path = <<>>, !.puts = <<t.dp>>])
        /\ UNCHANGED files

sys_mkdir(p) ==     \* and sys_mknod
    /\ Run(p, "made")
    /\ Unlock(th[p].ip) /\ Return(p, <<th[p].ip>>)
    /\ UNCHANGED <<disk, icache, files, panicked>>

-----------------------------------------------------------------------------
(* Open files.  A new file takes the first free entry of ftable and the    *)
(* first free descriptor; fileclose of the last reference iputs.           *)
freefiles == {f \in FileIds : ftable[f].ref = 0}
fdalloc(p) == {d \in Fds : ofile[p][d] = NoFile}

closed(f) == [ftable EXCEPT ![f] = IF @.ref > 1 THEN [@ EXCEPT !.ref = @ - 1] ELSE ClosedFile]

closeputs(f) == IF ftable[f].ref = 1 /\ ftable[f].type = "inode" THEN <<ftable[f].ip>> ELSE <<>>

sys_open(p, op) ==
    LET t == th[p]  s == t.dp  c == load(icache, s, dinode) IN
    /\ op \in {"open", "openw"} /\ Run(p, op) /\ Free(s) /\ Check(c, s)
    /\ icache' = c
    /\ IF c[s].type = "dir" /\ op = "openw"
       THEN Return(p, <<s>>) /\ UNCHANGED locked
       ELSE Set(p, [t EXCEPT !.pc = "opened", !.ip = s, !.dp = None]) /\ Lock(s, p)
    /\ UNCHANGED <<disk, files>>

open_file(p) ==
    LET t == th[p]  f == Min(freefiles) IN
    /\ Run(p, "opened")
    /\ IF freefiles = {}
       THEN Return(p, <<t.ip>>) /\ Unlock(t.ip) /\ UNCHANGED <<ftable, ofile>>
       ELSE IF fdalloc(p) = {}
       THEN /\ ftable' = [ftable EXCEPT ![f].ref = 1]
            /\ Set(p, [t EXCEPT !.pc = "undo", !.new = <<f>>])
            /\ UNCHANGED <<locked, ofile>>
       ELSE /\ ftable' = [ftable EXCEPT ![f] = [ref |-> 1, type |-> "inode", ip |-> t.ip]]
            /\ ofile' = [ofile EXCEPT ![p][Min(fdalloc(p))] = f]
            /\ Return(p, <<>>) /\ Unlock(t.ip)
    /\ UNCHANGED <<disk, icache, cwd, panicked>>

(* The error path closes the files and puts the inode.                     *)
undoputs_None(t) == <<>>    \* mutant: the inode is not put
undoputs(t) == IF t.ip = None THEN <<>> ELSE <<t.ip>>

open_undo(p) ==
    LET t == th[p]  f == Head(t.new) IN
    /\ Run(p, "undo")
    /\ ftable' = closed(f)
    /\ IF Len(t.new) > 1
       THEN Set(p, [t EXCEPT !.new = Tail(@), !.puts = closeputs(f)]) /\ UNCHANGED locked
       ELSE /\ Return(p, closeputs(f) \o undoputs(t))
            /\ locked' = IF t.ip = None THEN locked ELSE [locked EXCEPT ![t.ip] = Nobody]
    /\ UNCHANGED <<disk, icache, ofile, cwd, panicked>>

(* pipealloc takes two files, or fails for want of one or of a page; then  *)
(* both get descriptors, or neither.                                       *)
sys_pipe(p) ==
    LET f == Min(freefiles)  rest == freefiles \ {f} IN
    /\ Run(p, "idle") /\ cwd[p] # None /\ PipeCall \in calls(p) /\ freefiles # {}
    /\ \E ok \in BOOLEAN, g \in IF rest = {} THEN {NoFile} ELSE {Min(rest)} :
         LET new == {f} \cup ({g} \ {NoFile})
             piped == ok /\ g # NoFile
         IN  /\ ftable' = [h \in FileIds |->
                             IF h \notin new THEN ftable[h]
                             ELSE [ClosedFile EXCEPT !.ref = 1, !.type = IF piped THEN "pipe" ELSE @]]
             /\ Set(p, [Idle EXCEPT !.pc = IF piped THEN "piped" ELSE "undo",
                                    !.new = IF g = NoFile THEN <<f>> ELSE <<f, g>>])
    /\ UNCHANGED <<disk, icache, locked, ofile, cwd, panicked>>

pipe_fds(p) ==
    LET t == th[p]  d == Min(fdalloc(p)) IN
    /\ Run(p, "piped")
    /\ IF Cardinality(fdalloc(p)) < 2
       THEN Set(p, [t EXCEPT !.pc = "undo"]) /\ UNCHANGED ofile
       ELSE /\ ofile' = [ofile EXCEPT ![p][d] = t.new[1], ![p][Min(fdalloc(p) \ {d})] = t.new[2]]
            /\ Return(p, <<>>)
    /\ UNCHANGED <<disk, icache, locked, ftable, cwd, panicked>>

filedup(f) == [ftable EXCEPT ![f].ref = @ + 1]

sys_dup(p, d) ==
    /\ Run(p, "idle") /\ cwd[p] # None /\ DupCall \in calls(p)
    /\ ofile[p][d] # NoFile /\ fdalloc(p) # {}
    /\ ofile' = [ofile EXCEPT ![p][Min(fdalloc(p))] = ofile[p][d]]
    /\ ftable' = filedup(ofile[p][d])
    /\ UNCHANGED <<disk, icache, locked, cwd, th, work, panicked>>

close(p, d, t) ==
    /\ ofile' = [ofile EXCEPT ![p][d] = NoFile]
    /\ ftable' = closed(ofile[p][d])
    /\ Set(p, [t EXCEPT !.puts = closeputs(ofile[p][d])])

sys_close(p, d) ==
    /\ Run(p, "idle") /\ cwd[p] # None /\ ofile[p][d] # NoFile
    /\ close(p, d, Idle)
    /\ UNCHANGED <<disk, icache, locked, cwd, panicked>>

(* fork: the child shares the open files and the current directory.        *)
fork(p, q) ==
    /\ Run(p, "idle") /\ cwd[p] # None
    /\ Run(q, "idle") /\ cwd[q] = None
    /\ ofile' = [ofile EXCEPT ![q] = ofile[p]]
    /\ ftable' = [f \in FileIds |->
                    [ftable[f] EXCEPT !.ref = @ + Cardinality({d \in Fds : ofile[p][d] = f})]]
    /\ icache' = idup(icache, cwd[p])
    /\ cwd' = [cwd EXCEPT ![q] = cwd[p]]
    /\ UNCHANGED <<disk, locked, th, work, panicked>>

(* exit closes the descriptors in turn, then puts the current directory.   *)
exit(p) ==
    LET open == Fds \ fdalloc(p) IN
    /\ (Run(p, "idle") /\ cwd[p] # None) \/ Run(p, "exit")
    /\ IF open # {}
       THEN close(p, Min(open), [Idle EXCEPT !.pc = "exit"]) /\ UNCHANGED cwd
       ELSE Return(p, <<cwd[p]>>) /\ cwd' = [cwd EXCEPT ![p] = None] /\ UNCHANGED <<ofile, ftable>>
    /\ UNCHANGED <<disk, icache, locked, panicked>>

-----------------------------------------------------------------------------
(* sys_link counts the link first, then walks to the new name's directory; *)
(* if the entry cannot be made it takes the count back.  dirlink puts an   *)
(* entry it finds there while it holds the directory.                      *)
sys_link(p) ==
    LET t == th[p]  s == t.dp
        c1 == load(icache, s, dinode)
        c2 == addlink(c1, s, 1)
    IN  /\ Run(p, "link") /\ t.ip = None /\ Free(s) /\ Check(c1, s)
        /\ IF c1[s].type = "dir"
           THEN icache' = c1 /\ Return(p, <<s>>) /\ UNCHANGED dinode
           ELSE /\ dinode' = iupdate(c2, s, dinode)
                /\ icache' = started(c2, p, t.call.abs2)
                /\ Set(p, [t EXCEPT !.pc = "walk", !.ip = s, !.dp = start(c2, p, t.call.abs2),
                                    !.path = t.call.path2])
        /\ UNCHANGED <<dirent, locked, files>>

link_entry(p) ==
    LET t == th[p]  s == t.dp
        c == load(icache, s, dinode)
        i == dirent[Inum(s)][Head(t.path)]
    IN  /\ Run(p, "link") /\ t.ip # None /\ Free(s) /\ Check(c, s)
        /\ IF i = None
           THEN /\ dirent' = [dirent EXCEPT ![Inum(s)][Head(t.path)] = Inum(t.ip)]
                /\ icache' = c /\ Return(p, <<s, t.ip>>) /\ UNCHANGED locked
           ELSE /\ icache' = iget(c, i) /\ Lock(s, p)
                /\ Set(p, [t EXCEPT !.pc = "link_dup", !.path = <<>>, !.puts = <<entry(c, i)>>])
                /\ UNCHANGED dirent
        /\ UNCHANGED <<dinode, files>>

link_dup(p) ==
    LET t == th[p] IN
    /\ Run(p, "link_dup")
    /\ Unlock(t.dp) /\ Set(p, [t EXCEPT !.pc = "link_bad", !.dp = None, !.puts = <<t.dp>>])
    /\ UNCHANGED <<disk, icache, files, panicked>>

takeback_Not(c, s) == c     \* mutant: the error path forgets ip->nlink--
takeback(c, s) == addlink(c, s, -1)

link_bad(p) ==
    LET s == th[p].ip  c == takeback(load(icache, s, dinode), s) IN
    /\ Run(p, "link_bad") /\ Free(s) /\ Check(c, s)
    /\ icache' = c /\ dinode' = iupdate(c, s, dinode)
    /\ Return(p, <<s>>)
    /\ UNCHANGED <<dirent, locked, files>>

(* sys_unlink holds the directory while it locks the inode, removes the    *)
(* entry, lets the directory go and only then lowers the link count.       *)
sys_unlink(p) ==
    LET t == th[p]  s == t.dp
        c == load(icache, s, dinode)
        i == dirent[Inum(s)][Head(t.path)]
    IN  /\ Run(p, "unlink") /\ Free(s) /\ Check(c, s)
        /\ IF Head(t.path) \in {".", ".."} \/ i = None
           THEN icache' = c /\ Return(p, <<s>>) /\ UNCHANGED locked
           ELSE /\ icache' = iget(c, i) /\ Lock(s, p)
                /\ Set(p, [t EXCEPT !.pc = "unlink_ip", !.ip = entry(c, i)])
        /\ UNCHANGED <<disk, files>>

unlink_ip(p) ==
    LET t == th[p]  s == t.ip
        c1 == load(icache, s, dinode)
        c2 == IF c1[s].type = "dir" THEN addlink(c1, t.dp, -1) ELSE c1
    IN  /\ Run(p, "unlink_ip") /\ Free(s)
        /\ panicked' = IF c1[s].type = "none" THEN "ilock: no type"
                       ELSE IF c1[s].nlink < 1 THEN "unlink: nlink < 1" ELSE ""
        /\ IF c1[s].type = "dir" /\ ~ isdirempty(dirent[Inum(s)])
           THEN /\ Set(p, [t EXCEPT !.pc = "unlink_bad", !.ip = None, !.path = <<>>, !.puts = <<s>>])
                /\ icache' = c1 /\ UNCHANGED <<disk, locked>>
           ELSE /\ dirent' = [dirent EXCEPT ![Inum(t.dp)][Head(t.path)] = None]
                /\ icache' = c2 /\ dinode' = iupdate(c2, t.dp, dinode)
                /\ locked' = [locked EXCEPT ![t.dp] = Nobody, ![s] = p]
                /\ Set(p, [t EXCEPT !.pc = "unlink_count", !.dp = None, !.path = <<>>,
                                    !.puts = <<t.dp>>])
        /\ UNCHANGED files

unlink_count(p) ==
    LET s == th[p].ip  c == addlink(icache, s, -1) IN
    /\ Run(p, "unlink_count")
    /\ icache' = c /\ dinode' = iupdate(c, s, dinode)
    /\ Unlock(s) /\ Return(p, <<s>>)
    /\ UNCHANGED <<dirent, files, panicked>>

unlink_bad(p) ==
    /\ Run(p, "unlink_bad")
    /\ Unlock(th[p].dp) /\ Return(p, <<th[p].dp>>)
    /\ UNCHANGED <<disk, icache, files, panicked>>

sys_chdir(p) ==
    LET s == th[p].dp  c == load(icache, s, dinode) IN
    /\ Run(p, "chdir") /\ Free(s) /\ Check(c, s)
    /\ icache' = c
    /\ IF c[s].type # "dir" THEN Return(p, <<s>>) /\ UNCHANGED cwd
       ELSE Return(p, <<cwd[p]>>) /\ cwd' = [cwd EXCEPT ![p] = s]
    /\ UNCHANGED <<disk, locked, ftable, ofile>>

-----------------------------------------------------------------------------
Step(p) ==
    \/ iput(p) \/ iput_free(p) \/ iput_drop(p) \/ namex(p)
    \/ (\E op \in {"create", "mkdir", "mknod"} : create(p, op))
    \/ create_old(p) \/ create_new(p) \/ sys_mkdir(p)
    \/ (\E op \in {"open", "openw"} : sys_open(p, op))
    \/ open_file(p) \/ open_undo(p) \/ pipe_fds(p)
    \/ sys_link(p) \/ link_entry(p) \/ link_dup(p) \/ link_bad(p)
    \/ sys_unlink(p) \/ unlink_ip(p) \/ unlink_count(p) \/ unlink_bad(p) \/ sys_chdir(p)

Call(p) ==
    \/ \E call \in calls(p) : begin(p, call)
    \/ \E d \in Fds : sys_dup(p, d) \/ sys_close(p, d)
    \/ sys_pipe(p) \/ exit(p)
    \/ \E q \in Procs : fork(p, q)

Next == \E p \in Procs : Step(p) \/ Call(p)

Spec == Init /\ [][Next]_vars

-----------------------------------------------------------------------------
TypeOK ==
    /\ dinode \in [Inums -> [type : {"none", "file", "dir", "dev"}, nlink : Nat]]
    /\ dirent \in [Inums -> [Entries -> {None} \cup Inums]]
    /\ icache \in [Slots -> [inum : {None} \cup Inums, ref : Nat, valid : BOOLEAN,
                             type : {"none", "file", "dir", "dev"}, nlink : Nat]]
    /\ locked \in [Slots -> Procs \cup {Nobody}]
    /\ ftable \in [FileIds -> [ref : Nat, type : {"none", "inode", "pipe"}, ip : {None} \cup Slots]]
    /\ ofile \in [Procs -> [Fds -> {NoFile} \cup FileIds]]
    /\ cwd \in [Procs -> {None} \cup Slots]

(* fs.c:124: "ip->ref tracks the number of in-memory pointers to the       *)
(* entry (open files and current directories)", and those of calls in      *)
(* progress: no error path leaks a reference or drops one twice.           *)
Pointers(s) ==
    Cardinality({p \in Procs : cwd[p] = s})
    + Cardinality({f \in FileIds : ftable[f].type = "inode" /\ ftable[f].ip = s})
    + Cardinality({p \in Procs : th[p].ip = s}) + Cardinality({p \in Procs : th[p].dp = s})
    + Cardinality({x \in Procs \X (1 .. 3) : x[2] <= Len(th[x[1]].puts) /\ th[x[1]].puts[x[2]] = s})

Referenced == \A s \in Slots : icache[s].ref = Pointers(s)

(* Two cache entries never hold the same inode, or its lock would exclude  *)
(* nobody; a valid entry agrees with the disk, since the cache is          *)
(* write-through.                                                          *)
Coherent ==
    \A s \in Slots : icache[s].ref > 0 =>
      /\ \A u \in Slots : icache[u].ref > 0 /\ icache[u].inum = icache[s].inum => u = s
      /\ icache[s].valid => dinode[Inum(s)] = [type |-> icache[s].type, nlink |-> icache[s].nlink]

(* iput frees an inode only when nobody can use it: the inode of an open   *)
(* file and a current directory stay allocated, unlinked or not.           *)
InUse(s) == \/ \E f \in FileIds : ftable[f].type = "inode" /\ ftable[f].ip = s
            \/ \E p \in Procs : cwd[p] = s

StaysAllocated ==
    \A s \in Slots : InUse(s) => Inum(s) # None /\ dinode[Inum(s)].type # "none"

(* An entry of a linked directory names an allocated inode, and nlink is   *)
(* at least the number of names it has and of directories in it (and one   *)
(* more for the root, its own parent; fs.h:33:                             *)
(* "Number of links to inode in file system"), so removing one of several  *)
(* names never frees the file.                                             *)
Linked(d) == dinode[d].type = "dir" /\ dinode[d].nlink > 0

Named(i) == {e \in Inums \X Names : Linked(e[1]) /\ dirent[e[1]][e[2]] = i}

Subdirs(d) == {n \in Names : Linked(d) /\ dirent[d][n] # None /\ dinode[dirent[d][n]].type = "dir"}

Links(i) == Cardinality(Named(i)) + Cardinality(Subdirs(i)) + (IF i = ROOTINO THEN 1 ELSE 0)

NoDangling ==
    /\ \A e \in Inums \X Entries : Linked(e[1]) /\ dirent[e[1]][e[2]] # None
                                   => dinode[dirent[e[1]][e[2]]].type # "none"
    /\ \A i \in Inums : dinode[i].nlink >= Links(i)

(* While nobody changes directory, and so nobody stands in a removed one,  *)
(* the count is exact whenever no call is in progress: a failed link takes *)
(* back what it counted.                                                   *)
LinksExact ==
    (\A p \in Procs : th[p] = Idle /\ \A call \in calls(p) : call.op # "chdir")
    => \A i \in Inums : dinode[i].nlink = Links(i)

(* f->ref is the number of descriptors of all processes that name f, and   *)
(* of calls that have not placed it yet: a file is closed once.            *)
Descriptors ==
    \A f \in FileIds :
      ftable[f].ref = Cardinality({x \in Procs \X Fds : ofile[x[1]][x[2]] = f})
                      + Cardinality({p \in Procs : \E k \in DOMAIN th[p].new : th[p].new[k] = f})

(* The reference counts of the two tables are exact, in every state of     *)
(* every call (fs.c, file.c and sysfile.c).                                *)
RefsExact == TypeOK /\ Referenced /\ Descriptors

(* The inode cache is sound: one entry for an inode, in step with the      *)
(* disk, and no inode freed under its users (fs.c, iget and iput).         *)
InodesSound == Coherent /\ StaysAllocated

(* The tree of names is sound: no name of a free inode, and link counts    *)
(* that cover the names (sysfile.c, create, sys_link and sys_unlink).      *)
LinksSound == NoDangling /\ LinksExact

(* The only panic that calls can reach is that of a full disk.             *)
OnlyFull == panicked \in {"", "ialloc: no inodes"}

=============================================================================
