---------------------------- MODULE MCAlgorithms ----------------------------
(***************************************************************************)
(* The sequential algorithms of the kernel and of the user programs, side  *)
(* by side: kind says which one a behaviour exercises, the variables of    *)
(* the others stay unused.                                                 *)
(***************************************************************************)
EXTENDS Integers, Sequences, FiniteSets, TLC

VARIABLES
    kind,                                   \* the algorithm at work
    fs, off, writer, touched, expected,     \* FileData
    line, parsed,                           \* Shell
    heap, got, mine,                        \* Heap
    dsk, img, content,                      \* Mkfs
    re, file, m, rest, out,                 \* Grep
    dir, name, links,                       \* Directory
    fmt, xx,                                \* Format
    screen, sheet, top, printed,            \* Screen
    shift, typed, wire, held, caps          \* Keyboard

data == <<fs, off, writer, touched, expected>>
lines == <<line, parsed>>
heaps == <<heap, got, mine>>
image == <<dsk, img, content>>
greps == <<re, file, m, rest, out>>
names == <<dir, name, links>>
formats == <<fmt, xx>>
cga == <<screen, sheet, top, printed>>
kbd == <<shift, typed, wire, held, caps>>
vars == <<kind, data, lines, heaps, image, greps, names, formats, cga, kbd>>

(* Two files, one of them open twice; blocks of two bytes, so that a write *)
(* of three spans blocks and reaches the indirect block; four data blocks, *)
(* so that the disk fills up.                                              *)
Data == INSTANCE FileData WITH
    Inodes <- {"i1", "i2"}, OpenFiles <- {"f1", "f2", "f3"}, Writers <- {"p1", "p2"},
    InodeOf <- "f1" :> "i1" @@ "f2" :> "i1" @@ "f3" :> "i2", Byte <- "p1" :> 1 @@ "p2" :> 2,
    NBLOCKS <- 4, BSIZE <- 2, NDIRECT <- 1, BPB <- 1, MAXOPBLOCKS <- 6, Sizes <- {3}
(* Every line of up to six tokens.                                         *)
Sh == INSTANCE Shell WITH MAXARGS <- 3, MAXTOKENS <- 6
(* Requests that take one, two and three units besides the header.         *)
Alloc == INSTANCE Heap WITH HEADER <- 4, MINCORE <- 4, MAXBRK <- 15, Requests <- {1, 4, 5, 9}
(* Files of no, one, part of a, and all blocks of an inode.                *)
Image == INSTANCE Mkfs WITH
    BSIZE <- 3, NDIRECT <- 1, NLOG <- 2, IPB <- 2, BPB <- 16,
    DiskSizes <- {18, 26}, InodeCounts <- {4, 7}, FileSizes <- {0, 3, 4, 8, 12}
(* Every pattern of up to four characters, and files longer than buf.      *)
Gr == INSTANCE Grep WITH MAXRE <- 4, MAXTEXT <- 2, MAXFILE <- 8, BUFSIZE <- 6, FILERE <- 1
(* Names of one to four characters of which three are kept.                *)
Dir == INSTANCE Directory WITH DIRSIZ <- 3, MAXPATH <- 4, MAXENT <- 2, Inums <- {1}
(* Ints of eight bits, the extreme ones included.                          *)
Fmt == INSTANCE Format WITH WIDTH <- 8, MAXFMT <- 4, Ints <- {-128, -16, -1, 0, 9, 10, 127}
(* A screen of three rows of two characters.                               *)
Cga == INSTANCE Screen WITH COLS <- 2, ROWS <- 3, Chars <- {"a", "b"}, MAXOUT <- 7
Kbd == INSTANCE Keyboard WITH MAXWIRE <- 2

Kinds == {"data", "shell", "heap", "mkfs", "grep", "directory", "format", "screen", "keyboard"}
Unused == 0

Init ==
    /\ kind \in Kinds
    /\ IF kind = "data" THEN Data!Init
       ELSE fs = Unused /\ off = Unused /\ writer = Unused /\ touched = Unused /\ expected = Unused
    /\ IF kind = "shell" THEN Sh!Init ELSE line = Unused /\ parsed = Unused
    /\ IF kind = "heap" THEN Alloc!Init ELSE heap = Unused /\ got = Unused /\ mine = Unused
    /\ IF kind = "mkfs" THEN Image!Init ELSE dsk = Unused /\ img = Unused /\ content = Unused
    /\ IF kind = "grep" THEN Gr!Init
       ELSE re = Unused /\ file = Unused /\ m = Unused /\ rest = Unused /\ out = Unused
    /\ IF kind = "directory" THEN Dir!Init ELSE dir = Unused /\ name = Unused /\ links = Unused
    /\ IF kind = "format" THEN Fmt!Init ELSE fmt = Unused /\ xx = Unused
    /\ IF kind = "screen" THEN Cga!Init
       ELSE screen = Unused /\ sheet = Unused /\ top = Unused /\ printed = Unused
    /\ IF kind = "keyboard" THEN Kbd!Init
       ELSE shift = Unused /\ typed = Unused /\ wire = Unused /\ held = Unused /\ caps = Unused

Next ==
    \/ kind = "data" /\ Data!Next /\ UNCHANGED <<kind, lines, heaps, image, greps, names, formats, cga, kbd>>
    \/ kind = "shell" /\ Sh!Next /\ UNCHANGED <<kind, data, heaps, image, greps, names, formats, cga, kbd>>
    \/ kind = "heap" /\ Alloc!Next /\ UNCHANGED <<kind, data, lines, image, greps, names, formats, cga, kbd>>
    \/ kind = "mkfs" /\ Image!Next /\ UNCHANGED <<kind, data, lines, heaps, greps, names, formats, cga, kbd>>
    \/ kind = "grep" /\ Gr!Next /\ UNCHANGED <<kind, data, lines, heaps, image, names, formats, cga, kbd>>
    \/ kind = "directory" /\ Dir!Next /\ UNCHANGED <<kind, data, lines, heaps, image, greps, formats, cga, kbd>>
    \/ kind = "format" /\ Fmt!Next /\ UNCHANGED <<kind, data, lines, heaps, image, greps, names, cga, kbd>>
    \/ kind = "screen" /\ Cga!Next /\ UNCHANGED <<kind, data, lines, heaps, image, greps, names, formats, kbd>>
    \/ kind = "keyboard" /\ Kbd!Next /\ UNCHANGED <<kind, data, lines, heaps, image, greps, names, formats, cga>>

Spec == Init /\ [][Next]_vars

-----------------------------------------------------------------------------
(* A file holds what its writers wrote, however their chunks interleave,   *)
(* and has no holes; a used block is at one place of one inode's list; a   *)
(* chunk of filewrite fits its log reservation (fs.c and file.c).          *)
FileContents == kind = "data" => Data!Contents /\ Data!Owned /\ Data!ChunkFits /\ Data!Dense

(* sh.c's parser accepts the lines that have a meaning and returns it,     *)
(* with argv ended by a null pointer; every program started by runcmd gets *)
(* its input and its output, and no other end of a pipe.                   *)
ShellRuns == kind = "shell" => Sh!Parsed /\ Sh!ArgvFits /\ Sh!Wired

(* Every unit malloc got from sbrk is in exactly one block, large enough   *)
(* for its request; the free list is in order and joined (umalloc.c).      *)
HeapTiled == kind = "heap" => Alloc!Tiled /\ Alloc!Roomy /\ Alloc!Joined

(* mkfs.c writes inodes and bits inside their regions, marks exactly the   *)
(* blocks in use, each listed once, and files read back as appended.       *)
ImageSound == kind = "mkfs" => Image!Layout /\ Image!Marked /\ Image!ReadBack

(* grep.c's match agrees with the meaning of the pattern, and each         *)
(* matching line is written once, wherever the reads cut the file.         *)
GrepMatched == kind = "grep" => Gr!Matched /\ Gr!AllLines

(* skipelem splits a path at its slashes and cuts its parts at DIRSIZ;     *)
(* dirlookup, dirlink and sys_unlink keep a map from names to inodes.      *)
DirectoryIsMap == kind = "directory" => Dir!Split /\ Dir!IsMap

(* printf and cprintf print every format alike; printint's digits stand    *)
(* for every int, and atoi reads them back.                                *)
SameOutput == kind = "format" => Fmt!SameOutput /\ Fmt!ReadBack

(* cgaputc shows the end of what was printed, and never overflows.         *)
ScreenShown == kind = "screen" => Cga!Shown

(* kbdgetc leaves no modifier bit set without its key.                     *)
NoneStuck == kind = "keyboard" => Kbd!NoneStuck
=============================================================================
