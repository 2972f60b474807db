-------------------------------- MODULE Mkfs --------------------------------
(***************************************************************************)
(* mkfs.c: the layout of the disk, and the file system it starts with.  A  *)
(* block has BSIZE cells; a directory entry, a byte and a block number     *)
(* take one cell each.                                                     *)
(***************************************************************************)
EXTENDS Integers, Sequences, FiniteSets, FiniteSetsExt

CONSTANTS
    BSIZE, NDIRECT, NLOG, IPB,
    BPB,            \* bits of a bitmap block
    DiskSizes,      \* values of FSSIZE
    InodeCounts,    \* values of NINODES
    FileSizes       \* lengths of the files put on the disk

VARIABLES
    dsk,            \* FSSIZE and NINODES
    img,            \* inodes, blocks, freeblock, and the bitmap
    content         \* what each inode should hold

NINDIRECT == BSIZE
MAXFILE == NDIRECT + NINDIRECT
ROOTINO == 1

ninodeblocks(d) == d.ninodes \div IPB + 1
nbitmap(d) == d.size \div BPB + 1
logstart == 2
inodestart == logstart + NLOG
bmapstart(d) == inodestart + ninodeblocks(d)
nmeta(d) == 2 + NLOG + ninodeblocks(d) + nbitmap(d)

IBLOCK(i) == i \div IPB + inodestart
BBLOCK(b, d) == b \div BPB + bmapstart(d)

-----------------------------------------------------------------------------
Zeroed == [i \in 0 .. BSIZE - 1 |-> 0]
NoAddrs == [i \in 0 .. NDIRECT |-> 0]

ialloc(m) == [m EXCEPT !.inodes = Append(@, [size |-> 0, addrs |-> NoAddrs])]

(* Block fbn of inode i, from freeblock on if it has none yet: in addr.    *)
block(m, i, fbn) ==
    LET k == Min({fbn, NDIRECT})  a == m.inodes[i].addrs[k]
        m1 == IF a # 0 THEN m ELSE [m EXCEPT !.inodes[i].addrs[k] = m.free, !.free = @ + 1]
        ind == m1.inodes[i].addrs[k]
        x == m1.cell[ind][fbn - NDIRECT]
    IN  IF fbn < NDIRECT THEN [m1 EXCEPT !.addr = ind]
        ELSE IF x # 0 THEN [m1 EXCEPT !.addr = x]
        ELSE [m1 EXCEPT !.cell[ind][fbn - NDIRECT] = m1.free, !.addr = m1.free, !.free = @ + 1]

(* A block is read before a part of it changes.                            *)
rsect(m, b) == m.cell[b]

(* iappend; its assertion fbn < MAXFILE is the callers' guard.             *)
RECURSIVE iappend(_, _, _)
iappend(m, i, xp) ==
    LET off == m.inodes[i].size  at == off % BSIZE
        n1 == Min({Len(xp), BSIZE - at})
        t == block(m, i, off \div BSIZE)
    IN  IF xp = <<>> THEN m
        ELSE iappend([t EXCEPT !.inodes[i].size = off + n1,
                               !.cell[t.addr] = [c \in 0 .. BSIZE - 1 |->
                                  IF c - at \in 0 .. n1 - 1 THEN xp[c - at + 1] ELSE rsect(t, t.addr)[c]]],
                     i, SubSeq(xp, n1 + 1, Len(xp)))

Init ==
    /\ dsk \in [size : DiskSizes, ninodes : InodeCounts]
    /\ img = iappend(ialloc([inodes |-> <<>>, cell |-> [b \in 0 .. dsk.size |-> Zeroed], addr |-> 0,
                             free |-> nmeta(dsk), bits |-> {}]), ROOTINO, <<ROOTINO, ROOTINO>>)
    /\ content = << <<ROOTINO, ROOTINO>> >>

(* A file: an inode, an entry of the root directory, and its bytes, BSIZE  *)
(* at a time.                                                              *)
RECURSIVE copy(_, _, _)
copy(m, i, xp) ==
    IF xp = <<>> THEN m
    ELSE LET n == Min({BSIZE, Len(xp)}) IN copy(iappend(m, i, SubSeq(xp, 1, n)), i, SubSeq(xp, n + 1, Len(xp)))

add_file(n) ==
    LET i == Len(img.inodes) + 1
        bytes == [j \in 1 .. n |-> 100 * i + j]
        m == copy(iappend(ialloc(img), ROOTINO, <<i>>), i, bytes)
    IN  /\ img.bits = {}
        /\ n <= MAXFILE * BSIZE /\ img.inodes[ROOTINO].size < MAXFILE * BSIZE
        /\ i < dsk.ninodes /\ img.free + n + 3 <= dsk.size    \* not checked: the files fit
        /\ img' = m
        /\ content' = Append([content EXCEPT ![ROOTINO] = Append(@, i)], bytes)
        /\ UNCHANGED dsk

(* The end: the root's size is rounded up past its last entry, and the     *)
(* bitmap's first block marks the used blocks.                             *)
used_Less(m) == 0 .. m.free - 2     \* mutant: the last block is not marked
used(m) == 0 .. m.free - 1

finish ==
    /\ img.bits = {} /\ img.free < BPB      \* assert(used < BSIZE*8)
    /\ img' = [img EXCEPT !.bits = used(img), !.inodes[ROOTINO].size = (@ \div BSIZE + 1) * BSIZE]
    /\ UNCHANGED <<dsk, content>>

Next == finish \/ \E n \in FileSizes : add_file(n)

Spec == Init /\ [][Next]_<<dsk, img, content>>

-----------------------------------------------------------------------------
(* The regions follow each other in the order mkfs.c:20 gives, every inode *)
(* is in an inode block, and the bit of every block in a bitmap block.     *)
Layout ==
    /\ \A i \in 1 .. dsk.ninodes - 1 : IBLOCK(i) \in inodestart .. bmapstart(dsk) - 1
    /\ \A b \in 0 .. dsk.size - 1 : BBLOCK(b, dsk) \in bmapstart(dsk) .. nmeta(dsk) - 1
    /\ nmeta(dsk) <= dsk.size

(* The blocks the inodes list, with what is before the data, are all the   *)
(* blocks below freeblock, each listed once; and those are the blocks the  *)
(* finished bitmap marks, so the kernel's balloc hands out none of them.   *)
Lists(i) ==
    LET a == img.inodes[i].addrs IN
    [x \in 0 .. MAXFILE |-> IF x <= NDIRECT THEN a[x]
                            ELSE IF a[NDIRECT] = 0 THEN 0 ELSE img.cell[a[NDIRECT]][x - NDIRECT - 1]]

Marked ==
    LET places == {x \in (1 .. Len(img.inodes)) \X (0 .. MAXFILE) : Lists(x[1])[x[2]] # 0}
        data == {Lists(x[1])[x[2]] : x \in places}
    IN  /\ data = nmeta(dsk) .. img.free - 1
        /\ Cardinality(places) = Cardinality(data)
        /\ img.bits # {} => img.bits = 0 .. nmeta(dsk) - 1 \cup data

(* Read through its block list, an inode holds what was appended to it,    *)
(* then zeros: the rest of the root's last block is free entries.          *)
ReadBack ==
    \A i \in 1 .. Len(img.inodes), o \in 0 .. MAXFILE * BSIZE - 1 :
      LET fbn == o \div BSIZE
          b == Lists(i)[IF fbn < NDIRECT THEN fbn ELSE fbn + 1]
          x == IF b = 0 THEN 0 ELSE img.cell[b][o % BSIZE]
      IN  o < img.inodes[i].size => x = IF o < Len(content[i]) THEN content[i][o + 1] ELSE 0

=============================================================================
