------------------------------ MODULE FileData ------------------------------
(***************************************************************************)
(* The contents of files: block allocation, the block list of an inode,    *)
(* reading, writing and truncation (fs.c), and reads and writes at the     *)
(* offset of an open file by several processes (file.c).                   *)
(*                                                                         *)
(* A block has BSIZE cells, each a byte or a block number.  writei and     *)
(* readi run with the inode locked and are one step; filewrite lets go of  *)
(* the inode between its chunks.                                           *)
(***************************************************************************)
EXTENDS Integers, Sequences, FiniteSets, FiniteSetsExt

CONSTANTS
    Inodes, OpenFiles, Writers,
    InodeOf,        \* the inode of each open file
    NBLOCKS,        \* data blocks
    BSIZE, NDIRECT,
    BPB,            \* bits of a bitmap block
    MAXOPBLOCKS,
    Sizes,          \* bytes of a read or a write
    Byte            \* what each process writes

Blocks == 1 .. NBLOCKS
NINDIRECT == BSIZE
MAXFILE == NDIRECT + NINDIRECT
Zeroed == [i \in 0 .. BSIZE - 1 |-> 0]
NoAddrs == [i \in 0 .. NDIRECT |-> 0]

VARIABLES
    fs,         \* used blocks, their cells, and each inode's addrs and size
    off,        \* the offset of each open file
    writer,     \* what each process still has to write
    touched,    \* blocks of the log the last operation wrote
    expected    \* what a file should hold

vars == <<fs, off, writer, touched, expected>>
NoWrite == [f |-> "none", left |-> 0]

Init ==
    /\ fs = [used |-> {}, cell |-> [b \in Blocks |-> Zeroed], addrs |-> [i \in Inodes |-> NoAddrs],
             size |-> [i \in Inodes |-> 0]]
    /\ off = [f \in OpenFiles |-> 0]
    /\ writer = [p \in Writers |-> NoWrite]
    /\ touched = {} /\ expected = [i \in Inodes |-> <<>>]

-----------------------------------------------------------------------------
(* s is fs with two more fields: the blocks written so far, and the        *)
(* address bmap has found.  Address 0 from balloc is its panic.            *)
begun == [used |-> fs.used, cell |-> fs.cell, addrs |-> fs.addrs, size |-> fs.size,
          touched |-> {}, addr |-> 0]

zero(s, b) == [s.cell EXCEPT ![b] = Zeroed]

balloc(s) ==
    IF Blocks \subseteq s.used THEN [s EXCEPT !.addr = 0]
    ELSE LET b == Min(Blocks \ s.used) IN
         [s EXCEPT !.used = @ \cup {b}, !.cell = zero(s, b), !.addr = b,
                   !.touched = @ \cup {<<"data", b>>, <<"bitmap", (b - 1) \div BPB>>}]

(* The block of the list that holds block bn of the file.                  *)
direct(s, ip, i) ==
    IF s.addrs[ip][i] # 0 THEN [s EXCEPT !.addr = s.addrs[ip][i]]
    ELSE LET t == balloc(s) IN [t EXCEPT !.addrs[ip][i] = t.addr]

bmap(s, ip, bn) ==
    IF bn < NDIRECT THEN direct(s, ip, bn)
    ELSE LET t == direct(s, ip, NDIRECT)
             a == t.addr
             i == bn - NDIRECT
         IN  IF a = 0 THEN t
             ELSE IF t.cell[a][i] # 0 THEN [t EXCEPT !.addr = t.cell[a][i]]
             ELSE LET u == balloc(t) IN
                  [u EXCEPT !.cell[a][i] = u.addr, !.touched = @ \cup {<<"data", a>>}]

(* How much of n bytes at o lies in one block.                             *)
piece_Whole(o, n) == Min({n, BSIZE})    \* mutant: the offset in the block is forgotten
piece(o, n) == Min({n, BSIZE - (o % BSIZE)})

RECURSIVE put(_, _, _, _)
put(s, ip, src, o) ==
    IF src = <<>> THEN s
    ELSE LET m == piece(o, Len(src))
             t == bmap(s, ip, o \div BSIZE)
         IN  IF t.addr = 0 THEN t
             ELSE put([t EXCEPT
                         !.cell[t.addr] = [i \in 0 .. BSIZE - 1 |->
                            IF i - (o % BSIZE) \in 0 .. m - 1 THEN src[i - (o % BSIZE) + 1] ELSE @[i]],
                         !.touched = @ \cup {<<"data", t.addr>>}],
                      ip, SubSeq(src, m + 1, Len(src)), o + m)

(* The n bytes of ip at o; readi has cut n to the size of the file.        *)
RECURSIVE readi(_, _, _, _)
readi(s, ip, o, n) ==
    IF n = 0 THEN <<>>
    ELSE LET m == piece(o, n)
             b == s.cell[bmap(s, ip, o \div BSIZE).addr]
         IN  [i \in 1 .. m |-> b[(o % BSIZE) + i - 1]] \o readi(s, ip, o + m, n - m)

fits(ip, o, n) == o <= fs.size[ip] /\ o + n <= MAXFILE * BSIZE

(* writei, when it fits: the size grows to the end of what was written.    *)
grown(s, ip, end) == IF end > s.size[ip] THEN end ELSE s.size[ip]

writei(ip, src, o) ==
    LET s == put(begun, ip, src, o)  n == grown(s, ip, o + Len(src)) IN
    [s EXCEPT !.size[ip] = n,
              !.touched = IF n # fs.size[ip] THEN @ \cup {<<"inode", ip>>} ELSE @]

-----------------------------------------------------------------------------
max == ((MAXOPBLOCKS - 1 - 1 - 2) \div 2) * BSIZE

filewrite(p, f, n) ==
    /\ writer[p] = NoWrite /\ n > 0
    /\ writer' = [writer EXCEPT ![p] = [f |-> f, left |-> n]]
    /\ UNCHANGED <<fs, off, touched, expected>>

stop(w, r) == IF r < 0 \/ w.left = r THEN NoWrite ELSE [w EXCEPT !.left = @ - r]

Overlay(seq, src, o) ==
    [i \in 1 .. Max({Len(seq), o + Len(src)}) |->
       IF i - o \in 1 .. Len(src) THEN src[i - o] ELSE seq[i]]

(* A chunk: nothing happens to a file that would grow too long.  A full    *)
(* disk is a panic of balloc, after which nothing is promised.             *)
write_chunk(p) ==
    LET w == writer[p]  f == w.f  ip == InodeOf[f]
        n1 == Min({w.left, max})
        src == [i \in 1 .. n1 |-> Byte[p]]
        s == writei(ip, src, off[f])
    IN  /\ w # NoWrite
        /\ IF ~ fits(ip, off[f], n1)
           THEN writer' = [writer EXCEPT ![p] = stop(w, -1)] /\ UNCHANGED <<fs, off, touched, expected>>
           ELSE /\ s.addr # 0
                /\ fs' = [used |-> s.used, cell |-> s.cell, addrs |-> s.addrs, size |-> s.size]
                /\ touched' = s.touched
                /\ off' = [off EXCEPT ![f] = @ + n1]
                /\ expected' = [expected EXCEPT ![ip] = Overlay(@, src, off[f])]
                /\ writer' = [writer EXCEPT ![p] = stop(w, n1)]

fileread(f, n) ==
    LET r == Min({n, fs.size[InodeOf[f]] - off[f]}) IN
    /\ off[f] <= fs.size[InodeOf[f]] /\ r > 0
    /\ off' = [off EXCEPT ![f] = @ + r]
    /\ UNCHANGED <<fs, writer, touched, expected>>

(* itrunc, by the iput that frees the inode, and a new file in its place.  *)
listed(ip) == {fs.addrs[ip][i] : i \in 0 .. NDIRECT} \ {0}

indirect(ip) ==
    LET a == fs.addrs[ip][NDIRECT] IN
    IF a = 0 THEN {} ELSE {fs.cell[a][i] : i \in 0 .. NINDIRECT - 1} \ {0}

itrunc(ip) ==
    /\ fs.size[ip] > 0 /\ \A p \in Writers : writer[p] # NoWrite => InodeOf[writer[p].f] # ip
    /\ fs' = [fs EXCEPT !.used = @ \ (listed(ip) \cup indirect(ip)),
                        !.addrs[ip] = NoAddrs, !.size[ip] = 0]
    /\ off' = [f \in OpenFiles |-> IF InodeOf[f] = ip THEN 0 ELSE off[f]]
    /\ expected' = [expected EXCEPT ![ip] = <<>>]
    /\ touched' = {} /\ UNCHANGED writer

Next ==
    \/ \E p \in Writers : write_chunk(p) \/ \E f \in OpenFiles, n \in Sizes : filewrite(p, f, n)
    \/ \E f \in OpenFiles, n \in Sizes : fileread(f, n)
    \/ \E ip \in Inodes : itrunc(ip)

Spec == Init /\ [][Next]_vars

-----------------------------------------------------------------------------
(* A file holds what was written to it, at the offsets of the files        *)
(* through which it was written, however the chunks of several writers     *)
(* interleave, and a file that gets freed blocks shows nothing of the old. *)
Contents == \A ip \in Inodes : readi(begun, ip, 0, fs.size[ip]) = expected[ip]

(* Every used block belongs to exactly one inode, at one place of its list *)
(* and nothing else is marked used: no leak, no block in two files.        *)
Places(ip) ==
    {<<"addrs", i>> : i \in {j \in 0 .. NDIRECT : fs.addrs[ip][j] # 0}}
    \cup (IF fs.addrs[ip][NDIRECT] = 0 THEN {}
          ELSE {<<"indirect", i>> : i \in {j \in 0 .. NINDIRECT - 1 : fs.cell[fs.addrs[ip][NDIRECT]][j] # 0}})

BlockAt(ip, x) == IF x[1] = "addrs" THEN fs.addrs[ip][x[2]] ELSE fs.cell[fs.addrs[ip][NDIRECT]][x[2]]

Owned ==
    /\ fs.used = UNION {{BlockAt(ip, x) : x \in Places(ip)} : ip \in Inodes}
    /\ Cardinality(fs.used) = MapThenSumSet(LAMBDA ip : Cardinality(Places(ip)), Inodes)

(* file.c:129: a chunk is small enough "to avoid exceeding the maximum log *)
(* transaction size, including i-node, indirect block, allocation blocks,  *)
(* and 2 blocks of slop for non-aligned writes", wherever it starts.       *)
ChunkFits == Cardinality(touched) <= MAXOPBLOCKS

(* The offset of an open file never passes the end of the file, so writei  *)
(* leaves no hole; and the blocks of a file are those its size needs.      *)
Dense ==
    /\ \A f \in OpenFiles : off[f] <= fs.size[InodeOf[f]]
    /\ \A ip \in Inodes, bn \in 0 .. MAXFILE - 1 :
         (bn * BSIZE < fs.size[ip]) <=> bmap([begun EXCEPT !.used = Blocks], ip, bn).addr # 0

=============================================================================
