------------------------------- MODULE Inodes -------------------------------
(***************************************************************************)
(* Inodes, the inode cache and directories of fs.c, as values: an inode's  *)
(* type and link count on disk, its cached copy, the entries of a          *)
(* directory.  Block lists and file contents are in FileData; the order of *)
(* the entries of a directory does not matter here.                        *)
(***************************************************************************)
EXTENDS Integers, Sequences, FiniteSets, FiniteSetsExt

CONSTANTS
    NINODES,    \* inodes on disk
    Names       \* names of directory entries besides "." and ".."

ASSUME InodeAssumption == NINODES \in Nat \ {0} /\ {".", ".."} \cap Names = {}

Inums == 1 .. NINODES
ROOTINO == 1
None == 0               \* no inode, and no cache entry

(* There is a cache entry for every inode, so iget never panics.           *)
Slots == 1 .. NINODES

Entries == Names \cup {".", ".."}
NoEntries == [n \in Entries |-> None]
Dots(i, parent) == [NoEntries EXCEPT !["."] = i, ![".."] = parent]

FreeInode == [type |-> "none", nlink |-> 0]
NoEntry == [inum |-> None, ref |-> 0, valid |-> FALSE, type |-> "none", nlink |-> 0]

-----------------------------------------------------------------------------
(* c is the inode cache.  iget returns the entry that holds the inode, or  *)
(* the first unused one, which starts out not valid.                       *)
holding(c, i) == {s \in Slots : c[s].ref > 0 /\ c[s].inum = i}
unused(c) == {s \in Slots : c[s].ref = 0}

entry_Fresh(c, i) == Min(unused(c))     \* mutant: does not look for the inode in the cache
entry(c, i) == IF holding(c, i) # {} THEN Min(holding(c, i)) ELSE Min(unused(c))

idup(c, s) == [c EXCEPT ![s].ref = @ + 1]

iget(c, i) ==
    LET s == entry(c, i) IN
    IF c[s].ref > 0 THEN idup(c, s)
    ELSE [c EXCEPT ![s] = [NoEntry EXCEPT !.inum = i, !.ref = 1]]

(* ilock reads the inode d[inum] from disk if the entry is not valid.      *)
load_Stale(c, s, d) == [c EXCEPT ![s].valid = TRUE]     \* mutant: trusts what the entry holds
load(c, s, d) ==
    IF c[s].valid THEN c
    ELSE [c EXCEPT ![s] = [@ EXCEPT !.valid = TRUE, !.type = d[c[s].inum].type,
                                    !.nlink = d[c[s].inum].nlink]]

(* iupdate: write-through of the cached copy.                              *)
iupdate(c, s, d) == [d EXCEPT ![c[s].inum] = [type |-> c[s].type, nlink |-> c[s].nlink]]

addlink(c, s, k) == [c EXCEPT ![s].nlink = @ + k]

(* ialloc: the first inode whose type on disk is zero.                     *)
spare(d) == {i \in Inums : d[i].type = "none"}

(* isdirempty: nothing besides "." and "..".                               *)
isdirempty(e) == \A n \in Names : e[n] = None

=============================================================================
