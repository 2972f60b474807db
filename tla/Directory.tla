----------------------------- MODULE Directory -----------------------------
(***************************************************************************)
(* One directory and the names that reach it: path elements (fs.c,         *)
(* skipelem), fixed-width names without a terminator when they are long    *)
(* (string.c, strncpy and strncmp), and entries that are reused in place   *)
(* (dirlookup, dirlink, sys_unlink), against the map from names to inodes  *)
(* that a directory stands for.  The name buffer of namex is not cleared   *)
(* between elements, so what follows a terminator is left from before.     *)
(***************************************************************************)
EXTENDS Integers, SequencesExt

CONSTANTS
    DIRSIZ,     \* characters of a name that are kept (fs.h: 14)
    MAXPATH,    \* bound on the length of a path
    MAXENT,     \* bound on the entries of the directory
    Inums       \* inode numbers linked

VARIABLES
    dir,        \* the entries, in order of their offset
    name,       \* namex's name buffer, as the last call left it
    links       \* history: the names linked, each with its inode number

vars == <<dir, name, links>>

NUL == "0"
Paths == BoundedSeq({"/", "a", "b"}, MAXPATH)
Buffers == [1 .. DIRSIZ -> {"a", "b", NUL}]
Zeroed == [k \in 1 .. DIRSIZ |-> NUL]
NoPath == <<NUL>>

(* skipelem: the leading slashes, the element, what is kept of it.         *)
RECURSIVE slashes(_)
slashes(p) == IF p # <<>> /\ Head(p) = "/" THEN slashes(Tail(p)) ELSE p
RECURSIVE element(_)
element(p) == IF p = <<>> \/ Head(p) = "/" THEN <<>> ELSE <<Head(p)>> \o element(Tail(p))
copied(old, e) ==
    [k \in 1 .. DIRSIZ |-> IF k <= Len(e) THEN e[k]
                           ELSE IF k = Len(e) + 1 THEN NUL ELSE old[k]]
skipelem(p, old) ==
    LET s == slashes(p)
        e == element(s)
    IN  IF s = <<>> THEN [path |-> NoPath, name |-> old]
        ELSE [path |-> slashes(SubSeq(s, Len(e) + 1, Len(s))), name |-> copied(old, e)]

(* The buffers namex sees, one per element.                                *)
RECURSIVE namex(_, _)
namex(p, old) ==
    LET next == skipelem(p, old)
    IN  IF next.path = NoPath THEN <<>> ELSE <<next.name>> \o namex(next.path, next.name)

RECURSIVE strncpy(_, _, _)
strncpy(s, t, k) ==   \* from character k on, padded with zeros after the terminator
    IF k > DIRSIZ THEN s
    ELSE IF t[k] = NUL THEN [i \in 1 .. DIRSIZ |-> IF i >= k THEN NUL ELSE s[i]]
    ELSE strncpy([s EXCEPT ![k] = t[k]], t, k + 1)
RECURSIVE strncmp(_, _, _)
strncmp(p, q, k) ==   \* equal from character k on
    IF k > DIRSIZ THEN TRUE
    ELSE IF p[k] = NUL \/ p[k] # q[k] THEN p[k] = q[k]
    ELSE strncmp(p, q, k + 1)
namecmp_Bytes(s, t) == s = t   \* mutant: memcmp over the whole field
namecmp(s, t) == strncmp(s, t, 1)

dirlookup(d, n) ==
    SelectInSeq(d, LAMBDA de : de.inum # 0 /\ namecmp(n, de.name))
dirlink(d, n, inum) ==
    LET free == SelectInSeq(d, LAMBDA de : de.inum = 0)
        off == IF free = 0 THEN Len(d) + 1 ELSE free
        de == [inum |-> inum, name |-> strncpy(Zeroed, n, 1)]
    IN  IF dirlookup(d, n) # 0 THEN d
        ELSE [k \in 1 .. Len(d) |-> IF k = off THEN de ELSE d[k]]
                 \o (IF off > Len(d) THEN <<de>> ELSE <<>>)

Init == dir = <<>> /\ name = Zeroed /\ links = {}

(* The part of a name that counts, and the last part of a path.            *)
Kept(e) == SubSeq(e, 1, IF Len(e) < DIRSIZ THEN Len(e) ELSE DIRSIZ)
RECURSIVE Parts(_)
Parts(p) ==
    LET stops == {i \in 1 .. Len(p) : p[i] = "/"}
        stop == IF stops = {} THEN Len(p) + 1 ELSE CHOOSE i \in stops : \A j \in stops : i <= j
        first == SubSeq(p, 1, stop - 1)
    IN  IF p = <<>> THEN <<>>
        ELSE (IF first = <<>> THEN <<>> ELSE <<Kept(first)>>)
                 \o Parts(SubSeq(p, stop + 1, Len(p)))

create(p, inum) ==
    LET names == namex(p, name)
        part == Last(Parts(p))
    IN  /\ Parts(p) # <<>> /\ names # <<>>
        /\ Len(dirlink(dir, Last(names), inum)) <= MAXENT
        /\ dir' = dirlink(dir, Last(names), inum)
        /\ name' = Last(names)
        /\ links' = IF \E l \in links : l[1] = part THEN links
                    ELSE links \union {<<part, inum>>}

(* sys_unlink overwrites the entry with zeros.                             *)
sys_unlink(p) ==
    LET names == namex(p, name)
        off == dirlookup(dir, Last(names))
    IN  /\ Parts(p) # <<>> /\ names # <<>> /\ off # 0
        /\ dir' = [dir EXCEPT ![off] = [inum |-> 0, name |-> Zeroed]]
        /\ name' = Last(names)
        /\ links' = {l \in links : l[1] # Last(Parts(p))}

Next ==
    \/ \E p \in Paths, inum \in Inums : create(p, inum)
    \/ \E p \in Paths : sys_unlink(p)

Spec == Init /\ [][Next]_vars

(* skipelem and namex split a path at its slashes, any number of them, and *)
(* cut each part at DIRSIZ, whatever an earlier name left in the buffer.   *)
Str(b) ==
    SubSeq(b, 1, CHOOSE k \in 0 .. DIRSIZ : /\ \A i \in 1 .. k : b[i] # NUL
                                           /\ k < DIRSIZ => b[k + 1] = NUL)
Split ==
    \A p \in Paths :
      LET names == namex(p, name)
      IN  [k \in DOMAIN names |-> Str(names[k])] = Parts(p)

(* Through links, removals and reuse of entries the directory is the map   *)
(* from names to inodes: a path finds the inode linked under its last      *)
(* part, and nothing when there is none.                                   *)
IsMap ==
    \A p \in {q \in Paths : Parts(q) # <<>>} :
      LET off == dirlookup(dir, Last(namex(p, name)))
      IN  {l[2] : l \in {l \in links : l[1] = Last(Parts(p))}}
              = IF off = 0 THEN {} ELSE {dir[off].inum}
=============================================================================
