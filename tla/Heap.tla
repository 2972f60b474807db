-------------------------------- MODULE Heap --------------------------------
(***************************************************************************)
(* The allocator of user programs (umalloc.c).  An address counts units of *)
(* sizeof(Header); a block is a header and the units after it; the free    *)
(* blocks form a circular list through base.                               *)
(***************************************************************************)
EXTENDS Integers, Sequences, FiniteSets, FiniteSetsExt

CONSTANTS
    HEADER,     \* sizeof(Header)
    MINCORE,    \* units morecore asks for at least (4096 in the code)
    MAXBRK,     \* where sbrk fails
    Requests    \* bytes a program asks for

VARIABLES
    heap,       \* the headers, freep, and the break
    got,        \* units sbrk has handed to the allocator
    mine        \* the blocks the program holds, with the units asked for

Null == 0
base == 1
Addr == 0 .. MAXBRK
NoHeader == [ptr |-> Null, size |-> 0]

Init ==
    /\ heap = [hd |-> [a \in Addr |-> NoHeader], freep |-> Null, brk |-> base + 2]
    /\ got = {} /\ mine = {}

-----------------------------------------------------------------------------
(* The free block after which bp belongs.                                  *)
before(h, bp, p) ==
    LET q == h.hd[p].ptr IN (bp > p /\ bp < q) \/ (p >= q /\ (bp > p \/ bp < q))

RECURSIVE place(_, _, _)
place(h, bp, p) == IF before(h, bp, p) THEN p ELSE place(h, bp, h.hd[p].ptr)

join_Low(h, p, bp) == FALSE     \* mutant: never joined to the block below it
join(h, p, bp) == p + h.hd[p].size = bp

free(h, bp) ==
    LET p == place(h, bp, h.freep)
        q == h.hd[p].ptr
        up == bp + h.hd[bp].size = q
        nb == IF up THEN [ptr |-> h.hd[q].ptr, size |-> h.hd[bp].size + h.hd[q].size]
                    ELSE [ptr |-> q, size |-> h.hd[bp].size]
        h1 == [h EXCEPT !.hd[q] = IF up THEN NoHeader ELSE @, !.freep = p]
    IN  IF join(h, p, bp)
        THEN [h1 EXCEPT !.hd[p] = [ptr |-> nb.ptr, size |-> @.size + nb.size], !.hd[bp] = NoHeader]
        ELSE [h1 EXCEPT !.hd[bp] = nb, !.hd[p].ptr = bp]

(* morecore(nu), when sbrk has room; gap is what the program itself has    *)
(* taken with sbrk since the last time.                                    *)
core(nu) == Max({nu, MINCORE})
room(h, gap, nu) == h.brk + gap + core(nu) - 1 <= MAXBRK

morecore(h, gap, nu) ==
    LET hp == h.brk + gap IN
    free([h EXCEPT !.hd[hp] = [ptr |-> Null, size |-> core(nu)], !.brk = hp + core(nu)], hp)

(* First fit: the free block before the one taken, or Null after a whole   *)
(* round.                                                                  *)
RECURSIVE fit(_, _, _)
fit(h, prevp, nu) ==
    LET p == h.hd[prevp].ptr IN
    IF h.hd[p].size >= nu THEN prevp ELSE IF p = h.freep THEN Null ELSE fit(h, p, nu)

(* All of an exact block, or the tail of a larger one.                     *)
tail(h, p, nu) == p + h.hd[p].size - nu

take(h, prevp, nu) ==
    LET p == h.hd[prevp].ptr  b == tail(h, p, nu)
        h1 == IF h.hd[p].size = nu THEN [h EXCEPT !.hd[prevp].ptr = h.hd[p].ptr]
              ELSE [h EXCEPT !.hd[p].size = @ - nu]
    IN  [h1 EXCEPT !.hd[b] = [ptr |-> Null, size |-> nu], !.freep = prevp]

units(n) == (n + HEADER - 1) \div HEADER + 1

(* base's own list at the first call.                                      *)
opened(h) == IF h.freep # Null THEN h ELSE [h EXCEPT !.hd[base].ptr = base, !.freep = base]

malloc(n, gap) ==
    LET nu == units(n)
        h == opened(heap)
        grow == fit(h, h.freep, nu) = Null
        h1 == IF grow THEN morecore(h, gap, nu) ELSE h
        prevp == fit(h1, h1.freep, nu)
    IN  /\ ~ grow => gap = 0
        /\ IF grow /\ ~ room(h, gap, nu)
           THEN heap' = h /\ UNCHANGED <<got, mine>>
           ELSE /\ heap' = take(h1, prevp, nu)
                /\ got' = got \cup (IF grow THEN (h.brk + gap) .. (h1.brk - 1) ELSE {})
                /\ mine' = mine \cup {[at |-> tail(h1, h1.hd[prevp].ptr, nu), bytes |-> n]}

free_block(b) ==
    /\ heap' = free(heap, b.at)
    /\ mine' = mine \ {b} /\ UNCHANGED got

Next == \/ \E n \in Requests, gap \in 0 .. 1 : malloc(n, gap)
        \/ \E b \in mine : free_block(b)

Spec == Init /\ [][Next]_<<heap, got, mine>>

-----------------------------------------------------------------------------
(* What a block covers, and the free blocks reached from freep.            *)
Units(a) == a .. (a + heap.hd[a].size - 1)

RECURSIVE Listed(_, _)
Listed(a, seen) == IF a \in seen THEN seen ELSE Listed(heap.hd[a].ptr, seen \cup {a})
FreeBlocks == IF heap.freep = Null THEN {} ELSE Listed(heap.freep, {}) \ {base}

(* Every unit sbrk gave the allocator is in exactly one block, held or     *)
(* free: nothing is lost and no two blocks overlap.                        *)
Tiled ==
    LET blocks == FreeBlocks \cup {b.at : b \in mine} IN
    /\ got = UNION {Units(a) : a \in blocks}
    /\ \A a \in blocks, c \in blocks : a # c => Units(a) \cap Units(c) = {}
    /\ \A b \in mine, c \in mine : b.at = c.at => b = c

(* The bytes asked for lie after the header and inside the block.          *)
Roomy == \A b \in mine : b.bytes <= (heap.hd[b.at].size - 1) * HEADER

(* The list visits the free blocks by address, base first, and no two of   *)
(* them touch: what is freed together can be had together again.           *)
Joined ==
    \A a \in FreeBlocks :
      LET above == {c \in FreeBlocks : c > a} IN
      /\ heap.hd[a].ptr = IF above = {} THEN base ELSE Min(above)
      /\ a + heap.hd[a].size \notin FreeBlocks

=============================================================================
