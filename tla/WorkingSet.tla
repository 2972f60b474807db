----------------------------- MODULE WorkingSet -----------------------------
(***************************************************************************)
(* The encrypted address space of one process: page-table entries with the *)
(* PTE_E bit, the clock queue of decrypted pages, the page-fault path that *)
(* decrypts a page and evicts another, and the system calls that create,   *)
(* grow, shrink, copy and encrypt pages (vm.c, growproc, fork, exec, trap).*)
(*                                                                         *)
(* A page is named by its number.  p->clock holds page-aligned addresses   *)
(* and NULL is address 0, so in the clock page 0 and "empty" are the same  *)
(* value, here as in the code.  The contents of a page are represented by  *)
(* the byte at its offset 0.  The user part fits one page table (4 MB), so *)
(* walkpgdir never fails below KERNBASE.                                   *)
(***************************************************************************)
EXTENDS Integers, FiniteSets

CONSTANTS
    NPAGES,     \* pages below KERNBASE (bound on the size of a process)
    PGSIZE,     \* addressable units in a page
    CLOCKSIZE,  \* slots of the clock queue (param.h)
    UWRAP,      \* 2^32 in those units: where uint arithmetic wraps
    Bytes,      \* bytes a program may store at the start of a page
    SbrkArgs,   \* arguments of sbrk, in units
    Aligned,    \* whether dump_rawphymem's buffer is page-aligned: values tried
    CachesTranslations \* whether the CPU keeps translations in a TLB

ASSUME SizeAssumption ==
    /\ NPAGES \in Nat \ {0}
    /\ PGSIZE \in Nat \ {0}
    /\ CLOCKSIZE \in Nat \ {0}
    /\ UWRAP \in Nat /\ UWRAP > 2 * NPAGES * PGSIZE
ASSUME InputAssumption ==
    /\ Bytes \subseteq 0..255
    /\ SbrkArgs \subseteq Int
    /\ Aligned \subseteq BOOLEAN
    /\ CachesTranslations \in BOOLEAN

Pages == 0 .. (NPAGES - 1)
Slots == 0 .. (CLOCKSIZE - 1)
NULL == 0
NoValue == -1       \* the register of a program that has not run yet
KERNBASE == NPAGES * PGSIZE

VARIABLES
    alive,  \* FALSE once a failed page fault made the process exit()
    sz,     \* p->sz
    vm,     \* p->pgdir, the frames, p->clock, p->head and the TLB
    reg     \* the register the program loads and stores

vars == <<alive, sz, vm, reg>>

(* A page-table entry is the set of its flags (PTE_W is always set and is  *)
(* left out); the entry of a page that is not mapped is zero.              *)
Flags == {"P", "E", "U", "A"}
NoPte == {}
UserPte == {"P", "U"}

(* An address space: entries, frames' first bytes, clock queue and hand,   *)
(* translations cached by the CPU, and (history) the pages encrypted at    *)
(* least once since they were mapped.                                      *)
AddressSpace ==
    [pt : [Pages -> SUBSET Flags], mem : [Pages -> 0..255], clock : [Slots -> Pages],
     head : Slots, tlb : SUBSET Pages, once : SUBSET Pages]

Space(pt, mem, clock, head, tlb, once) ==
    [pt |-> pt, mem |-> mem, clock |-> clock, head |-> head,
     tlb |-> tlb, once |-> once]

Mapped(m, p) == m.pt[p] \cap {"P", "E"} # {}
Queued(m, p) == \E i \in Slots : m.clock[i] = p
PagesBelow(n) == {p \in Pages : p * PGSIZE < n}

-----------------------------------------------------------------------------
(* What one call does to an address space.                                 *)

Xor(b) == 255 - b
Cached(m, S) == IF CachesTranslations THEN m.tlb \union S ELSE {}
SetFlags(m, p, flags) == [m.pt EXCEPT ![p] = flags]

switchuvm(m) == Space(m.pt, m.mem, m.clock, m.head, {}, m.once)

uva2ka(m, p) == p \in Pages /\ Mapped(m, p) /\ "U" \in m.pt[p]

(* The byte loop of mencrypt goes through the user addresses, so the CPU   *)
(* caches the translations; translate_and_set then clears P and A.         *)
encrypt(m, S) ==
    Space([p \in Pages |-> IF p \in S THEN (m.pt[p] \union {"E"}) \ {"P", "A"}
                                      ELSE m.pt[p]],
          [p \in Pages |-> IF p \in S THEN Xor(m.mem[p]) ELSE m.mem[p]],
          m.clock, m.head, Cached(m, S), m.once \union S)

(* mencrypt checks the whole range, encrypts the first page that is not    *)
(* encrypted yet and returns; only a range with no such page reaches the   *)
(* final switchuvm.                                                        *)
mencrypt(m, first, len) ==
    LET range == first .. (first + len - 1)
        plain == {p \in range : "E" \notin m.pt[p]}
    IN  IF \E p \in range : ~ uva2ka(m, p) THEN m
        ELSE IF plain = {} THEN switchuvm(m)
        ELSE encrypt(m, {CHOOSE p \in plain : \A q \in plain : p <= q})

(* inQ compares the fault address itself, not its page, with the queue.    *)
inQ(m, p, aligned) == aligned /\ Queued(m, p)

(* The empty slots, as distances 1..CLOCKSIZE ahead of the hand; the code  *)
(* looks at the farthest first, which is the hand's own slot.              *)
FreeSlots(m) ==
    {i \in 1..CLOCKSIZE : m.clock[(m.head + i) % CLOCKSIZE] = NULL}

Enqueue_NoWrap(m, p, pt, slot, next) ==   \* mutant: the hand is not wrapped
    Space(pt, m.mem, [m.clock EXCEPT ![slot] = p], next, m.tlb, m.once)
Enqueue(m, p, pt, slot, next) ==
    Space(pt, m.mem, [m.clock EXCEPT ![slot] = p], next % CLOCKSIZE,
          m.tlb, m.once)

addClock_NoEncrypt(m, p) ==   \* mutant: the victim is forgotten, not encrypted
    Enqueue(m, p, m.pt, m.head, m.head + 1)
(* With no empty slot, the page at the hand is encrypted and replaced; a   *)
(* set PTE_A only costs a second round of the loop on the same page.       *)
addClock(m, p) ==
    IF FreeSlots(m) # {}
    THEN LET i == CHOOSE i \in FreeSlots(m) : \A j \in FreeSlots(m) : j <= i
             s == (m.head + i) % CLOCKSIZE
         IN  Enqueue(m, p, SetFlags(m, p, m.pt[p] \ {"A"}), s, s + 1)
    ELSE LET victim == m.clock[m.head]
             passes == IF "A" \in m.pt[victim] THEN 2 ELSE 1
             m1 == Space(SetFlags(m, victim, m.pt[victim] \ {"A"}),
                         m.mem, m.clock, m.head, m.tlb, m.once)
             m2 == mencrypt(m1, victim, 1)
         IN  Enqueue(m2, p, m2.pt, m.head, m.head + passes)

admit_NotQueued(m, p, aligned) ==   \* mutant: addClock is not called
    Space(SetFlags(m, p, (m.pt[p] \ {"E"}) \union {"P"}),
          m.mem, m.clock, m.head, m.tlb, m.once)
admit_BitsFirst(m, p, aligned) ==   \* mutant: the bits are switched, then addClock
    LET m1 == admit_NotQueued(m, p, aligned)
    IN  IF inQ(m1, p, aligned) THEN m1 ELSE addClock(m1, p)
(* mdecrypt up to the point where the bits of the page are switched, the   *)
(* condition under which it goes on to decrypt, and the byte loop, whose   *)
(* accesses set PTE_A and cache the translation.                           *)
admit(m, p, aligned) ==
    LET m1 == IF inQ(m, p, aligned) THEN m ELSE addClock(m, p)
    IN  Space(SetFlags(m1, p, (m1.pt[p] \ {"E"}) \union {"P"}),
              m1.mem, m1.clock, m1.head, m1.tlb, m1.once)
decryptable(m, p) == uva2ka(m, p) /\ m.mem[p] # 0
mdecrypt_NoXor(m, p, aligned) ==   \* mutant: the bits change, the bytes do not
    admit(m, p, aligned)
mdecrypt(m, p, aligned) ==
    LET m1 == admit(m, p, aligned)
    IN  Space(SetFlags(m1, p, m1.pt[p] \union {"A"}),
              [m1.mem EXCEPT ![p] = Xor(@)],
              m1.clock, m1.head, Cached(m1, {p}), m1.once)

(* allocuvm maps zeroed pages; deallocuvm frees the pages at or above the  *)
(* new size and knows nothing of the clock queue.                          *)
remap(m, S, flags, once) ==
    Space([p \in Pages |-> IF p \in S THEN flags ELSE m.pt[p]],
          [p \in Pages |-> IF p \in S THEN 0 ELSE m.mem[p]],
          m.clock, m.head, m.tlb, once)
allocuvm(m, new) == remap(m, new, UserPte, m.once)
deallocuvm_KeepsEntry(m, gone) ==   \* mutant: the entry is not cleared
    Space(m.pt, m.mem, m.clock, m.head, m.tlb, m.once \ gone)
deallocuvm(m, gone) == remap(m, gone, NoPte, m.once \ gone)

(* fork: copyuvm copies frames and flags page by page up to sz (an entry   *)
(* with PTE_E keeps P clear); the queue and the hand are copied too, and   *)
(* the child starts with no cached translation.                            *)
copyuvm(m, size) ==
    Space([p \in Pages |-> IF p \notin PagesBelow(size) THEN NoPte
                          ELSE IF "E" \in m.pt[p] THEN m.pt[p]
                          ELSE m.pt[p] \union {"P"}],
          m.mem, m.clock, m.head, {}, m.once)

(* getpgtable: the user pages it reports, from the page that holds the     *)
(* last byte of the process down, all of them or (wsetOnly) those inQ      *)
(* finds, and the first num of them.  An empty slot holds the address of   *)
(* page 0.                                                                 *)
lastpage(n) ==
    IF n % PGSIZE = 0 THEN (n - PGSIZE) \div PGSIZE ELSE n \div PGSIZE
listed_Ref(m, first, wsetOnly) ==   \* mutant: PTE_A is taken for the working set
    {p \in 0 .. first : uva2ka(m, p) /\ (wsetOnly => "A" \in m.pt[p])}
listed(m, first, wsetOnly) ==
    {p \in 0 .. first : uva2ka(m, p) /\ (wsetOnly => inQ(m, p, TRUE))}
getpgtable(m, size, num, wsetOnly) ==
    LET S == listed(m, lastpage(size), wsetOnly)
    IN  {p \in S : Cardinality({q \in S : q > p}) < num}

-----------------------------------------------------------------------------
(* Actions of the process and of the CPU.                                  *)

(* userinit: one page holding initcode, an empty queue.                    *)
Init ==
    /\ alive = TRUE
    /\ sz = PGSIZE
    /\ \E b \in Bytes :
         vm = Space([p \in Pages |-> IF p = 0 THEN UserPte ELSE NoPte],
                    [p \in Pages |-> IF p = 0 THEN b ELSE 0],
                    [i \in Slots |-> NULL], 0, {}, {})
    /\ reg = NoValue

(* A user access that finds a translation: cached, or by a page walk that  *)
(* sets PTE_A.  Access is the effect of one that leaves b at offset 0.     *)
Translates(p) == p \in vm.tlb \/ ({"P", "U"} \subseteq vm.pt[p])
Access(p, q, b) ==
    LET hit == p \in vm.tlb
    IN  Space(IF hit THEN vm.pt ELSE SetFlags(vm, p, vm.pt[p] \union {"A"}),
              [vm.mem EXCEPT ![q] = b], vm.clock, vm.head,
              IF hit THEN vm.tlb ELSE Cached(vm, {p}), vm.once)

Load(p) ==
    /\ alive /\ Translates(p)
    /\ reg' = vm.mem[p]
    /\ vm' = Access(p, p, vm.mem[p])
    /\ UNCHANGED <<alive, sz>>

Store(p) ==
    /\ alive /\ Translates(p) /\ reg # NoValue
    /\ vm' = Access(p, p, reg)
    /\ UNCHANGED <<alive, sz, reg>>

(* An instruction that does not touch memory.                              *)
Compute(b) ==
    /\ alive
    /\ reg' = b
    /\ UNCHANGED <<alive, sz, vm>>

(* trap, case T_PGFLT: mdecrypt, and exit() when it fails.                 *)
PageFault(p, aligned) ==
    /\ alive /\ ~ Translates(p)
    /\ LET served == Mapped(vm, p) /\ decryptable(vm, p)
       IN  /\ alive' = served
           /\ vm' = IF ~ Mapped(vm, p) THEN vm
                    ELSE IF served THEN mdecrypt(vm, p, aligned)
                    ELSE admit(vm, p, aligned)
    /\ UNCHANGED <<sz, reg>>

sys_mencrypt(p, len) ==
    /\ alive /\ len > 0 /\ p \in PagesBelow(sz)
    /\ vm' = mencrypt(vm, p, len)
    /\ UNCHANGED <<alive, sz, reg>>

(* growproc, n > 0: mencrypt(a, 1) for every a of a loop that starts at    *)
(* the old size, not at the first new page.  A size at or above KERNBASE   *)
(* is refused.                                                             *)
encryptEach(m, S) ==
    encrypt(m, {p \in S : uva2ka(m, p) /\ "E" \notin m.pt[p]})
RoundUp(n) == ((n + PGSIZE - 1) \div PGSIZE) * PGSIZE
LoopPages(n) == {(sz + k * PGSIZE) \div PGSIZE :
                   k \in 0 .. ((RoundUp(n) \div PGSIZE) - 1)}
growproc_up(n) ==
    /\ alive /\ n > 0 /\ sz + n < KERNBASE
    /\ vm' = switchuvm(encryptEach(
                 allocuvm(vm, PagesBelow(sz + n) \ PagesBelow(sz)),
                 LoopPages(n)))
    /\ sz' = sz + n
    /\ UNCHANGED <<alive, reg>>

(* growproc, n < 0.  sz + n is uint arithmetic: below zero it wraps above  *)
(* sz and nothing is freed.  A new size of 0 counts as a failure: pages    *)
(* are freed, sz stays, and nothing is flushed.                            *)
growproc_down(n) ==
    LET newsz == (sz + n) % UWRAP
        gone  == IF newsz >= sz THEN {} ELSE PagesBelow(sz) \ PagesBelow(newsz)
    IN  /\ alive /\ n < 0
        /\ IF newsz = 0
           THEN vm' = deallocuvm(vm, gone) /\ sz' = sz
           ELSE /\ vm' = switchuvm(deallocuvm(vm, gone))
                /\ sz' = IF newsz >= sz THEN sz ELSE newsz
        /\ UNCHANGED <<alive, reg>>

(* fork, seen from the child; the parent's address space does not change.  *)
(* copyuvm panics unless every page below sz is mapped.                    *)
fork ==
    /\ alive /\ \A p \in PagesBelow(sz) : Mapped(vm, p)
    /\ vm' = copyuvm(vm, sz)
    /\ UNCHANGED <<alive, sz, reg>>

(* exec resets the hand on entry, reads its arguments (which may fault),   *)
(* and commits a new image: text pages, a guard page and a stack page.     *)
exec_enter ==
    /\ alive
    /\ vm' = Space(vm.pt, vm.mem, vm.clock, 0, vm.tlb, vm.once)
    /\ UNCHANGED <<alive, sz, reg>>

NewImage(text, b) ==
    Space([p \in Pages |-> IF p > text + 1 THEN NoPte
                          ELSE IF p = text THEN {"P"} ELSE UserPte],
          [p \in Pages |-> IF p < text THEN b ELSE 0],
          [i \in Slots |-> NULL], 0, {}, {})

exec_commit(text, b) ==
    /\ alive /\ (text + 2) * PGSIZE < KERNBASE /\ reg # NoValue
    /\ vm' = mencrypt(mencrypt(NewImage(text, b), 0, text), text + 1, 1)
    /\ sz' = (text + 2) * PGSIZE
    /\ reg' = NoValue
    /\ UNCHANGED alive

(* dump_rawphymem touches the first byte of the buffer (a fault brings     *)
(* that page in), then copies the frame of page q over PGSIZE units with   *)
(* copyout.  A buffer that is not aligned ends in the next page, whose     *)
(* byte 0 copyout writes through the kernel mapping.                       *)
dump_rawphymem(p, q, aligned) ==
    LET last == IF aligned THEN p ELSE p + 1
    IN  /\ alive /\ Translates(p) /\ Mapped(vm, q) /\ last \in PagesBelow(sz)
        /\ vm' = IF uva2ka(vm, p) /\ uva2ka(vm, last)
                 THEN Access(p, last, vm.mem[q])
                 ELSE Access(p, p, vm.mem[p])
        /\ UNCHANGED <<alive, sz, reg>>

(* The scheduler runs another process and comes back: cr3 is reloaded.     *)
Switch ==
    /\ alive
    /\ vm' = switchuvm(vm)
    /\ UNCHANGED <<alive, sz, reg>>

(* The CPU may drop a cached translation at any time.                      *)
DropTranslation(p) ==
    /\ alive /\ p \in vm.tlb
    /\ vm' = Space(vm.pt, vm.mem, vm.clock, vm.head, vm.tlb \ {p}, vm.once)
    /\ UNCHANGED <<alive, sz, reg>>

SystemCall ==
    \/ \E p \in Pages, len \in 1..NPAGES : sys_mencrypt(p, len)
    \/ \E n \in SbrkArgs : growproc_up(n) \/ growproc_down(n)
    \/ fork
    \/ exec_enter
    \/ \E text \in Pages, b \in Bytes : exec_commit(text, b)
    \/ \E p, q \in Pages, aligned \in Aligned : dump_rawphymem(p, q, aligned)

Next ==
    \/ \E p \in Pages : Load(p) \/ Store(p)
    \/ \E b \in Bytes : Compute(b)
    \/ \E p \in Pages, aligned \in BOOLEAN : PageFault(p, aligned)
    \/ SystemCall
    \/ Switch
    \/ \E p \in Pages : DropTranslation(p)

Spec == Init /\ [][Next]_vars

-----------------------------------------------------------------------------
(* Properties.                                                             *)

(* Type invariant of the address space.                                    *)
TypeOK ==
    /\ alive \in BOOLEAN
    /\ sz \in 0..KERNBASE
    /\ vm \in AddressSpace
    /\ reg \in 0..255 \union {NoValue}

(* The page table agrees with the size and with the encryption history: a  *)
(* mapped page lies below p->sz (so growproc never maps a page twice, which *)
(* mappages would answer with a panic), a page is never present and        *)
(* encrypted at once, and a page that was encrypted is a user page that is *)
(* still mapped.                                                           *)
PageAccounting ==
    \A p \in Pages : /\ Mapped(vm, p) => p \in PagesBelow(sz)
                     /\ ~ ({"P", "E"} \subseteq vm.pt[p])
                     /\ p \in vm.once => uva2ka(vm, p)

(* Every page that went through encryption and is present again is in the  *)
(* clock queue, so mdecrypt and addClock never lose track of a decrypted   *)
(* page, whatever was evicted, shrunk, encrypted by hand or queued twice   *)
(* in between.  Page 0 is the exception: its address is NULL.              *)
Tracked ==
    \A p \in vm.once \ {0} : "P" \in vm.pt[p] => Queued(vm, p)

(* The working set is bounded by the queue: addClock keeps at most         *)
(* CLOCKSIZE pages other than page 0 decrypted after a fault.              *)
WorkingSetBound ==
    Cardinality({p \in vm.once \ {0} : "P" \in vm.pt[p]}) <= CLOCKSIZE

(* getpgtable tells the truth about the working set: with room for all it  *)
(* reports every user page, and with wsetOnly set CLOCKSIZE entries are    *)
(* enough for every decrypted page, although the queue also holds stale    *)
(* and repeated addresses and inQ takes an empty slot for page 0.          *)
WorkingSetReported ==
    /\ getpgtable(vm, sz, NPAGES, FALSE) = {p \in Pages : uva2ka(vm, p)}
    /\ {p \in vm.once \ {0} : "P" \in vm.pt[p]}
           \subseteq getpgtable(vm, sz, CLOCKSIZE, TRUE)

(* After a page fault that does not end the process, the entry of the page *)
(* is present and a user entry, whatever the TLB holds: eviction never     *)
(* takes the page the fault is bringing in, even when a stale or repeated  *)
(* queue entry makes it the victim.                                        *)
FaultServed ==
    [][\A p \in Pages, aligned \in BOOLEAN :
         PageFault(p, aligned) /\ alive' => {"P", "U"} \subseteq vm'.pt[p]]_vars

(* Encryption is transparent: seen through the mapping that decrypts the   *)
(* encrypted pages, the address space behaves as plain memory.             *)
Plain(p) ==
    IF ~ alive \/ ~ uva2ka(vm, p) THEN -1
    ELSE IF "E" \in vm.pt[p] THEN Xor(vm.mem[p]) ELSE vm.mem[p]
UM == INSTANCE UserMemory WITH val <- [p \in Pages |-> Plain(p)]
Transparent == UM!Spec

(* vm.c, mencrypt: "error checking first. all or nothing."  A call leaves  *)
(* every page of its range encrypted, or changes nothing.                  *)
AllOrNothing ==
    [][\A p \in Pages, len \in 1..NPAGES : sys_mencrypt(p, len) =>
         \/ vm'.pt = vm.pt
         \/ \A q \in p .. (p + len - 1) : "E" \in vm'.pt[q]]_vars

=============================================================================
