-------------------------- MODULE WorkingSetProofs --------------------------
(***************************************************************************)
(* Proofs about WorkingSet, for every size of the clock queue and of the   *)
(* address space, with and without a TLB.                                  *)
(***************************************************************************)
EXTENDS WorkingSet, WellFoundedInduction, FiniteSetTheorems, TLAPS

(* A nonempty set of naturals has a least element.                         *)
LEMMA LeastNatural ==
    ASSUME NEW S \in SUBSET Nat, S # {}
    PROVE  \E x \in S : \A y \in S : x <= y
<1> DEFINE T == {0 .. x : x \in S}
           R == StrictSubsetOrdering(Nat)
<1>1. T \subseteq FiniteSubsetsOf(Nat) /\ T # {}
  <2>1. ASSUME NEW x \in S PROVE IsFiniteSet(0 .. x) /\ 0 .. x \subseteq Nat
    BY FS_Interval
  <2> QED BY <2>1 DEF FiniteSubsetsOf
<1>2. PICK t \in T : \A u \in T : ~ (<<u, t>> \in R)
  <2> HIDE DEF R, T
  <2>1. IsWellFoundedOn(R, FiniteSubsetsOf(Nat))
    BY FS_StrictSubsetOrderingWellFounded DEF R
  <2> QED BY <1>1, <2>1, WFMin
<1>3. PICK x \in S : t = 0 .. x
  OBVIOUS
<1>4. ASSUME NEW y \in S, y < x PROVE FALSE
  <2>1. 0 .. y \in T
    OBVIOUS
  <2>2. 0 .. y \subseteq t /\ 0 .. y # t
    BY <1>3, <1>4
  <2>3. 0 .. y \subseteq Nat /\ t \subseteq Nat
    BY <1>3
  <2> QED BY <1>2, <2>1, <2>2, <2>3 DEF StrictSubsetOrdering
<1> QED BY <1>4

(* The greatest element, for a nonempty set of bounded naturals.           *)
LEMMA GreatestBelow ==
    ASSUME NEW n \in Nat, NEW S \in SUBSET (1 .. n), S # {}
    PROVE  \E x \in S : \A y \in S : y <= x
<1> DEFINE T == {n - x : x \in S}
<1>1. T \in SUBSET Nat /\ T # {}
  <2>1. ASSUME NEW x \in S PROVE n - x \in Nat
    OBVIOUS
  <2>2. T # {}
    OBVIOUS
  <2> QED BY <2>1, <2>2
<1>2. PICK t \in T : \A u \in T : t <= u
  <2> HIDE DEF T
  <2> QED BY <1>1, LeastNatural
<1>3. PICK x \in S : t = n - x
  OBVIOUS
<1>4. ASSUME NEW y \in S PROVE y <= x
  <2>1. n - y \in T
    OBVIOUS
  <2> QED BY <1>2, <1>3, <2>1
<1> QED BY <1>4

LEMMA ModRange ==
    ASSUME NEW a \in Int
    PROVE  a % CLOCKSIZE \in Slots
BY SizeAssumption DEF Slots

-----------------------------------------------------------------------------
(* The inductive invariant, as a predicate of an address space and a size. *)
Sound(m, n) ==
    /\ m \in AddressSpace
    /\ \A p \in Pages :
         /\ ~ ({"P", "E"} \subseteq m.pt[p])
         /\ Mapped(m, p) => p \in PagesBelow(n)
         /\ p \in m.once => uva2ka(m, p)
         /\ p \in m.once \ {0} /\ "P" \in m.pt[p] => Queued(m, p)

IInv ==
    /\ alive \in BOOLEAN
    /\ sz \in 0 .. KERNBASE
    /\ reg \in 0 .. 255 \union {NoValue}
    /\ Sound(vm, sz)

(* r is m after some user pages were encrypted; contents, accessed bits,   *)
(* cached translations and the hand may differ, the queue and which pages  *)
(* are mapped may not.                                                     *)
Encrypts(m, r) ==
    /\ r \in AddressSpace
    /\ r.clock = m.clock
    /\ \A q \in Pages :
         /\ Mapped(r, q) <=> Mapped(m, q)
         /\ "U" \in r.pt[q] <=> "U" \in m.pt[q]
         /\ "P" \in r.pt[q] => "P" \in m.pt[q]
         /\ "E" \in r.pt[q] => "E" \in m.pt[q] \/ "P" \notin r.pt[q]
         /\ q \in r.once => q \in m.once \/ ("E" \in r.pt[q] /\ uva2ka(r, q))

(* Encrypting user pages keeps an address space sound.                     *)
LEMMA EncryptsSound ==
    ASSUME NEW m, NEW r, NEW n, Sound(m, n), Encrypts(m, r)
    PROVE  Sound(r, n)
<1> SUFFICES ASSUME NEW p \in Pages
             PROVE  /\ ~ ({"P", "E"} \subseteq r.pt[p])
                    /\ Mapped(r, p) => p \in PagesBelow(n)
                    /\ p \in r.once => uva2ka(r, p)
                    /\ p \in r.once \ {0} /\ "P" \in r.pt[p] => Queued(r, p)
  BY DEF Sound, Encrypts
<1> QED BY DEF Sound, Encrypts, uva2ka, Queued, Mapped

LEMMA EncryptEncrypts ==
    ASSUME NEW m \in AddressSpace, NEW S \in SUBSET Pages,
           \A p \in S : uva2ka(m, p)
    PROVE  /\ Encrypts(m, encrypt(m, S))
           /\ \A p \in S : "P" \notin encrypt(m, S).pt[p]
<1> DEFINE r == encrypt(m, S)
<1>1. Cached(m, S) \in SUBSET Pages
  BY InputAssumption DEF Cached, AddressSpace
<1>2. \A p \in Pages : Xor(m.mem[p]) \in 0 .. 255 /\ m.mem[p] \in 0 .. 255
  BY DEF Xor, AddressSpace
<1>3. r \in AddressSpace
  BY <1>1, <1>2 DEF AddressSpace, Flags, encrypt, Space
<1>4. \A q \in Pages : r.pt[q] = IF q \in S THEN (m.pt[q] \union {"E"}) \ {"P", "A"}
                                  ELSE m.pt[q]
  BY DEF encrypt, Space
<1>5. r.clock = m.clock /\ r.once = m.once \union S
  BY DEF encrypt, Space
<1> QED BY <1>3, <1>4, <1>5 DEF Encrypts, Mapped, uva2ka

LEMMA MencryptEncrypts ==
    ASSUME NEW m \in AddressSpace, NEW first \in Nat, NEW len \in Int
    PROVE  Encrypts(m, mencrypt(m, first, len))
<1> DEFINE range == first .. (first + len - 1)
           plain == {p \in range : "E" \notin m.pt[p]}
           low == CHOOSE p \in plain : \A q \in plain : p <= q
<1>1. CASE \E p \in range : ~ uva2ka(m, p)
  BY <1>1 DEF mencrypt, Encrypts, uva2ka
<1>2. CASE (\A p \in range : uva2ka(m, p)) /\ plain = {}
  BY <1>2 DEF mencrypt, Encrypts, uva2ka, switchuvm, AddressSpace, Mapped, Space
<1>3. CASE (\A p \in range : uva2ka(m, p)) /\ plain # {}
  <2>1. plain \in SUBSET Nat
    BY DEF Pages
  <2>2. low \in plain
    <3> HIDE DEF plain
    <3> QED BY <1>3, <2>1, LeastNatural
  <2>3. low \in Pages /\ uva2ka(m, low)
    BY <1>3, <2>2 DEF uva2ka
  <2>4. mencrypt(m, first, len) = encrypt(m, {low})
    BY <1>3 DEF mencrypt
  <2> QED BY <2>3, <2>4, EncryptEncrypts
<1> QED BY <1>1, <1>2, <1>3

(* One page: afterwards it is not present, if it was a user page at all.   *)
LEMMA MencryptOne ==
    ASSUME NEW m \in AddressSpace, NEW v \in Pages, uva2ka(m, v),
           ~ ({"P", "E"} \subseteq m.pt[v])
    PROVE  "P" \notin mencrypt(m, v, 1).pt[v]
<1> DEFINE plain == {p \in v .. (v + 1 - 1) : "E" \notin m.pt[p]}
<1>1. v .. (v + 1 - 1) = {v}
  BY DEF Pages
<1>2. CASE "E" \in m.pt[v]
  <2>1. plain = {} BY <1>1, <1>2
  <2>2. mencrypt(m, v, 1) = switchuvm(m)
    BY <1>1, <2>1 DEF mencrypt
  <2> QED BY <1>2, <2>2 DEF switchuvm, Space
<1>3. CASE "E" \notin m.pt[v]
  <2>1. plain = {v} BY <1>1, <1>3
  <2>2. (CHOOSE p \in plain : \A q \in plain : p <= q) = v
    BY <2>1 DEF Pages
  <2>3. mencrypt(m, v, 1) = encrypt(m, {v})
    BY <1>1, <2>1, <2>2 DEF mencrypt
  <2> QED BY <2>3, EncryptEncrypts
<1> QED BY <1>2, <1>3

-----------------------------------------------------------------------------
(* addClock leaves an address space sound, queues its page, and changes    *)
(* neither which pages are mapped nor which belong to the user.            *)
LEMMA AddClockSound ==
    ASSUME NEW m, NEW n, NEW p \in Pages, Sound(m, n)
    PROVE  /\ Sound(addClock(m, p), n)
           /\ Queued(addClock(m, p), p)
           /\ \A q \in Pages : /\ Mapped(addClock(m, p), q) <=> Mapped(m, q)
                               /\ "U" \in addClock(m, p).pt[q] <=> "U" \in m.pt[q]
<1> DEFINE r == addClock(m, p)
<1>0. m \in AddressSpace /\ m.head \in Slots /\ CLOCKSIZE \in Nat \ {0}
  BY SizeAssumption DEF Sound, AddressSpace
<1>1. CASE FreeSlots(m) # {}
  <2> DEFINE i == CHOOSE i \in FreeSlots(m) : \A j \in FreeSlots(m) : j <= i
             s == (m.head + i) % CLOCKSIZE
  <2>1. i \in FreeSlots(m)
    <3>1. FreeSlots(m) \in SUBSET (1 .. CLOCKSIZE)
      BY DEF FreeSlots
    <3> QED BY <1>0, <1>1, <3>1, GreatestBelow
  <2>2. s \in Slots /\ (s + 1) % CLOCKSIZE \in Slots /\ m.clock[s] = NULL
    <3> HIDE DEF i
    <3>1. i \in Int /\ m.head \in Int /\ m.clock[s] = NULL
      BY <1>0, <2>1 DEF FreeSlots, Slots
    <3>2. s \in Slots
      BY <3>1, ModRange
    <3>3. s + 1 \in Int
      BY <3>2 DEF Slots
    <3> QED BY <3>1, <3>2, <3>3, ModRange
  <2>3. r = Enqueue(m, p, SetFlags(m, p, m.pt[p] \ {"A"}), s, s + 1)
    BY <1>1 DEF addClock
  <2> HIDE DEF r, s
  <2>4. /\ r.clock = [m.clock EXCEPT ![s] = p] /\ r.once = m.once
        /\ r \in AddressSpace
    BY <1>0, <2>2, <2>3 DEF Enqueue, Space, SetFlags, AddressSpace, Flags
  <2>5. \A q \in Pages : r.pt[q] = IF q = p THEN m.pt[q] \ {"A"} ELSE m.pt[q]
    BY <1>0, <2>3 DEF Enqueue, Space, SetFlags, AddressSpace
  <2>6. Queued(r, p)
    BY <1>0, <2>2, <2>4 DEF Queued, AddressSpace
  <2>7. ASSUME NEW q \in Pages, q # 0, Queued(m, q) PROVE Queued(r, q)
    BY <1>0, <2>2, <2>4, <2>7 DEF Queued, AddressSpace, NULL
  <2>8. \A q \in Pages : /\ Mapped(r, q) <=> Mapped(m, q)
                         /\ "U" \in r.pt[q] <=> "U" \in m.pt[q]
                         /\ "P" \in r.pt[q] <=> "P" \in m.pt[q]
                         /\ "E" \in r.pt[q] <=> "E" \in m.pt[q]
    BY <2>5 DEF Mapped
  <2>9. Sound(r, n)
    BY <2>4, <2>7, <2>8 DEF Sound, uva2ka
  <2> QED BY <2>6, <2>8, <2>9 DEF r
<1>2. CASE FreeSlots(m) = {}
  <2> DEFINE v == m.clock[m.head]
             m1 == Space(SetFlags(m, v, m.pt[v] \ {"A"}),
                         m.mem, m.clock, m.head, m.tlb, m.once)
             m2 == mencrypt(m1, v, 1)
             next == m.head + (IF "A" \in m.pt[v] THEN 2 ELSE 1)
  <2>1. v \in Pages /\ v \in Nat /\ next % CLOCKSIZE \in Slots
    <3>1. v \in Pages /\ next \in Int
      BY <1>0 DEF AddressSpace, Slots
    <3> QED BY <3>1, ModRange DEF Pages
  <2>2. Encrypts(m, m1)
    <3>1. m1 \in AddressSpace /\ m1.clock = m.clock /\ m1.once = m.once
      BY <1>0, <2>1 DEF Space, SetFlags, AddressSpace, Flags
    <3>2. \A q \in Pages : m1.pt[q] = IF q = v THEN m.pt[q] \ {"A"} ELSE m.pt[q]
      BY <1>0 DEF Space, SetFlags, AddressSpace
    <3> QED BY <3>1, <3>2 DEF Encrypts, Mapped
  <2>3. Sound(m1, n)
    BY <2>2, EncryptsSound
  <2>4. Encrypts(m1, m2) /\ Sound(m2, n)
    <3>1. m1 \in AddressSpace
      BY <2>3 DEF Sound
    <3> HIDE DEF m1
    <3> QED BY <2>1, <2>3, <3>1, MencryptEncrypts, EncryptsSound
  <2>5. uva2ka(m2, v) => "P" \notin m2.pt[v]
    <3>1. m1 \in AddressSpace /\ ~ ({"P", "E"} \subseteq m1.pt[v])
      BY <2>1, <2>3 DEF Sound
    <3>2. uva2ka(m2, v) => uva2ka(m1, v)
      BY <2>1, <2>4 DEF Encrypts, uva2ka
    <3> HIDE DEF m1
    <3> QED BY <2>1, <3>1, <3>2, MencryptOne
  <2>6. r = Enqueue(m2, p, m2.pt, m.head, next)
    BY <1>2 DEF addClock
  <2>7. /\ m2 \in AddressSpace /\ m2.clock = m.clock
        /\ \A q \in Pages : /\ Mapped(m2, q) <=> Mapped(m, q)
                            /\ "U" \in m2.pt[q] <=> "U" \in m.pt[q]
    BY <2>2, <2>4 DEF Encrypts
  <2> HIDE DEF r, m1, m2, next
  <2>8. /\ r \in AddressSpace /\ r.pt = m2.pt /\ r.once = m2.once
        /\ r.clock = [m.clock EXCEPT ![m.head] = p]
    BY <1>0, <2>1, <2>6, <2>7 DEF Enqueue, Space, AddressSpace
  <2>9. Queued(r, p)
    BY <1>0, <2>8 DEF Queued, AddressSpace
  <2>10. ASSUME NEW q \in Pages, q # v, Queued(m2, q) PROVE Queued(r, q)
    BY <1>0, <2>7, <2>8, <2>10 DEF Queued, AddressSpace
  <2>11. Sound(r, n)
    BY <2>1, <2>4, <2>5, <2>8, <2>10 DEF Sound, uva2ka, Mapped
  <2> QED BY <2>7, <2>8, <2>9, <2>11 DEF r, Mapped
<1> QED BY <1>1, <1>2

(* mdecrypt up to the switch of the bits: sound, and the page is present.  *)
LEMMA AdmitSound ==
    ASSUME NEW m, NEW n, NEW p \in Pages, NEW aligned \in BOOLEAN,
           Sound(m, n), Mapped(m, p)
    PROVE  /\ Sound(admit(m, p, aligned), n)
           /\ "P" \in admit(m, p, aligned).pt[p]
           /\ "U" \in m.pt[p] => "U" \in admit(m, p, aligned).pt[p]
<1> DEFINE m1 == IF inQ(m, p, aligned) THEN m ELSE addClock(m, p)
           r == admit(m, p, aligned)
<1>1. /\ Sound(m1, n) /\ Queued(m1, p) /\ Mapped(m1, p)
      /\ "U" \in m.pt[p] <=> "U" \in m1.pt[p]
  BY AddClockSound DEF inQ
<1>2. r = Space(SetFlags(m1, p, (m1.pt[p] \ {"E"}) \union {"P"}),
                m1.mem, m1.clock, m1.head, m1.tlb, m1.once)
  BY DEF admit
<1> HIDE DEF m1, r
<1>3. r \in AddressSpace /\ r.clock = m1.clock /\ r.once = m1.once
  BY <1>1, <1>2 DEF Sound, Space, SetFlags, AddressSpace, Flags
<1>4. \A q \in Pages : r.pt[q] = IF q = p THEN (m1.pt[q] \ {"E"}) \union {"P"}
                                  ELSE m1.pt[q]
  BY <1>1, <1>2 DEF Sound, Space, SetFlags, AddressSpace
<1>5. ASSUME NEW q \in Pages, q # p
      PROVE  /\ ~ ({"P", "E"} \subseteq r.pt[q])
             /\ Mapped(r, q) => q \in PagesBelow(n)
             /\ q \in r.once => uva2ka(r, q)
             /\ q \in r.once \ {0} /\ "P" \in r.pt[q] => Queued(r, q)
  BY <1>1, <1>3, <1>4, <1>5 DEF Sound, uva2ka, Mapped, Queued
<1>6. /\ ~ ({"P", "E"} \subseteq r.pt[p]) /\ Queued(r, p)
      /\ p \in PagesBelow(n)
      /\ p \in r.once => uva2ka(r, p)
  <2>1. r.pt[p] = (m1.pt[p] \ {"E"}) \union {"P"}
    BY <1>4
  <2>2. Queued(r, p) /\ p \in PagesBelow(n) /\ (p \in r.once => "U" \in m1.pt[p])
    BY <1>1, <1>3 DEF Sound, Queued, uva2ka
  <2> QED BY <2>1, <2>2 DEF uva2ka, Mapped
<1>7. Sound(r, n)
  BY <1>3, <1>5, <1>6 DEF Sound
<1> QED BY <1>1, <1>4, <1>7 DEF r

(* The byte loop of mdecrypt changes contents, PTE_A and the TLB only.     *)
LEMMA MdecryptSound ==
    ASSUME NEW m, NEW n, NEW p \in Pages, NEW aligned \in BOOLEAN,
           Sound(m, n), Mapped(m, p)
    PROVE  /\ Sound(mdecrypt(m, p, aligned), n)
           /\ "P" \in mdecrypt(m, p, aligned).pt[p]
           /\ "U" \in m.pt[p] => "U" \in mdecrypt(m, p, aligned).pt[p]
<1> DEFINE m1 == admit(m, p, aligned)
           r == mdecrypt(m, p, aligned)
<1>1. /\ Sound(m1, n) /\ "P" \in m1.pt[p]
      /\ "U" \in m.pt[p] => "U" \in m1.pt[p]
  BY AdmitSound
<1>2. r = Space(SetFlags(m1, p, m1.pt[p] \union {"A"}),
                [m1.mem EXCEPT ![p] = Xor(@)],
                m1.clock, m1.head, Cached(m1, {p}), m1.once)
  BY DEF mdecrypt
<1> HIDE DEF m1, r
<1>3. m1 \in AddressSpace
  BY <1>1 DEF Sound
<1>4. Cached(m1, {p}) \in SUBSET Pages /\ Xor(m1.mem[p]) \in 0 .. 255
  <2>1. m1.tlb \in SUBSET Pages /\ m1.mem[p] \in 0 .. 255
    BY <1>3 DEF AddressSpace
  <2> QED BY <2>1 DEF Cached, Xor
<1>5. r \in AddressSpace /\ r.clock = m1.clock /\ r.once = m1.once
  BY <1>2, <1>3, <1>4 DEF Space, SetFlags, AddressSpace, Flags
<1>6. \A q \in Pages : \A f \in {"P", "E", "U"} : f \in r.pt[q] <=> f \in m1.pt[q]
  <2>1. r.pt = [m1.pt EXCEPT ![p] = m1.pt[p] \union {"A"}]
    BY <1>2 DEF Space, SetFlags
  <2> QED BY <1>3, <2>1 DEF AddressSpace
<1>7. Encrypts(m1, r)
  <2>1. \A q \in Pages : /\ ("P" \in r.pt[q] <=> "P" \in m1.pt[q])
                         /\ ("E" \in r.pt[q] <=> "E" \in m1.pt[q])
                         /\ ("U" \in r.pt[q] <=> "U" \in m1.pt[q])
    BY <1>6
  <2>2. \A q \in Pages : Mapped(r, q) <=> Mapped(m1, q)
    BY <2>1 DEF Mapped
  <2>3. \A q \in Pages : "E" \in r.pt[q] => "E" \in m1.pt[q]
    BY <2>1
  <2> QED BY <1>5, <2>1, <2>2, <2>3 DEF Encrypts
<1>8. Sound(r, n)
  BY <1>1, <1>7, EncryptsSound
<1> QED BY <1>1, <1>6, <1>8 DEF r

(* A user access, the flush of switchuvm and the reset of the hand.        *)
LEMMA AccessSound ==
    ASSUME NEW p \in Pages, NEW q \in Pages, NEW b \in 0 .. 255, Sound(vm, sz)
    PROVE  Sound(Access(p, q, b), sz)
<1> DEFINE r == Access(p, q, b)
<1>1. vm \in AddressSpace
  BY DEF Sound
<1>2. Cached(vm, {p}) \in SUBSET Pages
  BY <1>1, InputAssumption DEF Cached, AddressSpace
<1>3. r \in AddressSpace /\ r.clock = vm.clock /\ r.once = vm.once
  BY <1>1, <1>2 DEF Access, Space, SetFlags, AddressSpace, Flags
<1>4. \A x \in Pages : r.pt[x] \ {"A"} = vm.pt[x] \ {"A"}
  BY <1>1 DEF Access, Space, SetFlags, AddressSpace
<1> HIDE DEF r
<1>5. Encrypts(vm, r)
  <2> SUFFICES ASSUME NEW x \in Pages
               PROVE  /\ ("P" \in r.pt[x] <=> "P" \in vm.pt[x])
                      /\ ("E" \in r.pt[x] <=> "E" \in vm.pt[x])
                      /\ ("U" \in r.pt[x] <=> "U" \in vm.pt[x])
    BY <1>3 DEF Encrypts, Mapped
  <2> QED BY <1>4
<1> QED BY <1>5, EncryptsSound DEF r

LEMMA SwitchSound ==
    ASSUME NEW m, NEW n, Sound(m, n)
    PROVE  Sound(switchuvm(m), n)
BY EncryptsSound DEF Sound, Encrypts, switchuvm, Space, AddressSpace, Mapped

-----------------------------------------------------------------------------
(* Growing, shrinking, copying and replacing the address space.            *)
LEMMA AllocSound ==
    ASSUME NEW m, NEW n \in Int, NEW k \in Int, n <= k, Sound(m, n)
    PROVE  Sound(allocuvm(m, PagesBelow(k) \ PagesBelow(n)), k)
<1> DEFINE new == PagesBelow(k) \ PagesBelow(n)
           r == allocuvm(m, new)
<1>1. r = Space([p \in Pages |-> IF p \in new THEN UserPte ELSE m.pt[p]],
                [p \in Pages |-> IF p \in new THEN 0 ELSE m.mem[p]],
                m.clock, m.head, m.tlb, m.once)
  BY DEF allocuvm, remap
<1>2. m \in AddressSpace /\ PagesBelow(n) \subseteq PagesBelow(k)
  BY SizeAssumption DEF Sound, PagesBelow, Pages
<1> HIDE DEF r, new
<1>3. r \in AddressSpace /\ r.clock = m.clock /\ r.once = m.once
  BY <1>1, <1>2 DEF Space, AddressSpace, Flags, UserPte
<1>4. \A p \in Pages : r.pt[p] = IF p \in new THEN {"P", "U"} ELSE m.pt[p]
  BY <1>1 DEF Space, UserPte
<1>5. ASSUME NEW p \in new PROVE p \notin m.once /\ p \in PagesBelow(k)
  BY <1>5 DEF Sound, uva2ka, new, PagesBelow
<1> SUFFICES Sound(r, k) BY DEF r, new
<1> SUFFICES ASSUME NEW p \in Pages
             PROVE  /\ ~ ({"P", "E"} \subseteq r.pt[p])
                    /\ Mapped(r, p) => p \in PagesBelow(k)
                    /\ p \in r.once => uva2ka(r, p)
                    /\ p \in r.once \ {0} /\ "P" \in r.pt[p] => Queued(r, p)
  BY <1>3 DEF Sound
<1>6. CASE p \in new
  BY <1>3, <1>4, <1>5, <1>6
<1>7. CASE p \notin new
  BY <1>2, <1>3, <1>4, <1>7 DEF Sound, Mapped, uva2ka, Queued
<1> QED BY <1>6, <1>7

LEMMA DeallocSound ==
    ASSUME NEW m, NEW n, NEW k, NEW gone \in SUBSET Pages, Sound(m, n),
           PagesBelow(n) \ gone \subseteq PagesBelow(k)
    PROVE  Sound(deallocuvm(m, gone), k)
<1> DEFINE r == deallocuvm(m, gone)
<1>1. r = Space([p \in Pages |-> IF p \in gone THEN {} ELSE m.pt[p]],
                [p \in Pages |-> IF p \in gone THEN 0 ELSE m.mem[p]],
                m.clock, m.head, m.tlb, m.once \ gone)
  BY DEF deallocuvm, remap, NoPte
<1>2. m \in AddressSpace
  BY DEF Sound
<1> HIDE DEF r
<1>3. r \in AddressSpace /\ r.clock = m.clock /\ r.once = m.once \ gone
  BY <1>1, <1>2 DEF Space, AddressSpace
<1>4. \A p \in Pages : r.pt[p] = IF p \in gone THEN {} ELSE m.pt[p]
  BY <1>1 DEF Space
<1> SUFFICES Sound(r, k) BY DEF r
<1> SUFFICES ASSUME NEW p \in Pages
             PROVE  /\ ~ ({"P", "E"} \subseteq r.pt[p])
                    /\ Mapped(r, p) => p \in PagesBelow(k)
                    /\ p \in r.once => uva2ka(r, p)
                    /\ p \in r.once \ {0} /\ "P" \in r.pt[p] => Queued(r, p)
  BY <1>3 DEF Sound
<1>6. CASE p \in gone
  BY <1>3, <1>4, <1>6 DEF Mapped
<1>7. CASE p \notin gone
  BY <1>3, <1>4, <1>7 DEF Sound, Mapped, uva2ka, Queued
<1> QED BY <1>6, <1>7

LEMMA CopySound ==
    ASSUME NEW m, NEW n, Sound(m, n), \A p \in PagesBelow(n) : Mapped(m, p)
    PROVE  Sound(copyuvm(m, n), n)
<1> DEFINE r == copyuvm(m, n)
<1>1. m \in AddressSpace
  BY DEF Sound
<1>2. \A p \in Pages : r.pt[p] = m.pt[p] \/ (r.pt[p] = {} /\ p \notin PagesBelow(n))
  <2> SUFFICES ASSUME NEW p \in Pages, p \in PagesBelow(n), "E" \notin m.pt[p]
               PROVE  m.pt[p] \union {"P"} = m.pt[p]
    BY DEF copyuvm, Space, NoPte
  <2> QED BY <1>1 DEF Mapped, AddressSpace
<1>3. r \in AddressSpace /\ r.clock = m.clock /\ r.once = m.once
  BY <1>1 DEF copyuvm, Space, AddressSpace, Flags, NoPte
<1> HIDE DEF r
<1> SUFFICES Sound(r, n) BY DEF r
<1> SUFFICES ASSUME NEW p \in Pages
             PROVE  /\ ~ ({"P", "E"} \subseteq r.pt[p])
                    /\ Mapped(r, p) => p \in PagesBelow(n)
                    /\ p \in r.once => uva2ka(r, p)
                    /\ p \in r.once \ {0} /\ "P" \in r.pt[p] => Queued(r, p)
  BY <1>3 DEF Sound
<1>4. CASE r.pt[p] = m.pt[p]
  BY <1>3, <1>4 DEF Sound, Mapped, uva2ka, Queued
<1>5. CASE r.pt[p] = {} /\ p \notin PagesBelow(n)
  BY <1>3, <1>5 DEF Sound, Mapped, uva2ka
<1> QED BY <1>2, <1>4, <1>5

LEMMA ImageSound ==
    ASSUME NEW text \in Pages, NEW b \in Bytes
    PROVE  /\ Sound(NewImage(text, b), (text + 2) * PGSIZE)
           /\ (text + 2) * PGSIZE \in Nat
<1> DEFINE r == NewImage(text, b)
<1>1. text \in Nat /\ PGSIZE \in Nat \ {0} /\ b \in 0 .. 255 /\ 0 \in Slots /\ 0 \in Pages
  BY SizeAssumption, InputAssumption DEF Pages, Slots
<1>2. (text + 2) * PGSIZE \in Nat
  BY <1>1
<1>3. \A p \in Pages : p <= text + 1 => p \in PagesBelow((text + 2) * PGSIZE)
  <2> SUFFICES ASSUME NEW p \in Pages, p <= text + 1
               PROVE  p * PGSIZE < (text + 2) * PGSIZE
    BY DEF PagesBelow
  <2>1. p \in Nat /\ p < text + 2
    BY <1>1 DEF Pages
  <2> QED BY <1>1, <2>1
<1>4. r \in AddressSpace /\ r.once = {}
  BY <1>1 DEF NewImage, Space, AddressSpace, Flags, NoPte, UserPte, NULL
<1>5. \A p \in Pages : r.pt[p] \in {{}, {"P"}, {"P", "U"}} /\ (p > text + 1 => r.pt[p] = {})
  BY <1>1 DEF NewImage, Space, NoPte, UserPte, Pages
<1>6. ASSUME NEW p \in Pages
      PROVE  ~ ({"P", "E"} \subseteq r.pt[p]) /\ (Mapped(r, p) => p <= text + 1)
  BY <1>1, <1>5 DEF Mapped, Pages
<1> HIDE DEF r
<1>7. Sound(r, (text + 2) * PGSIZE)
  BY <1>3, <1>4, <1>6 DEF Sound
<1> QED BY <1>2, <1>7 DEF r

-----------------------------------------------------------------------------
(* The invariant is inductive.                                             *)
LEMMA InitIInv ==
    Init => IInv
<1> SUFFICES ASSUME Init PROVE IInv
  OBVIOUS
<1>1. PICK b \in Bytes :
        vm = Space([p \in Pages |-> IF p = 0 THEN UserPte ELSE NoPte],
                   [p \in Pages |-> IF p = 0 THEN b ELSE 0],
                   [i \in Slots |-> NULL], 0, {}, {})
  BY DEF Init
<1>2. b \in 0 .. 255 /\ 0 \in Slots /\ 0 \in Pages
  BY SizeAssumption, InputAssumption DEF Slots, Pages
<1>3. vm \in AddressSpace /\ vm.once = {}
  BY <1>1, <1>2 DEF Space, AddressSpace, Flags, UserPte, NoPte, NULL
<1>4. \A p \in Pages : vm.pt[p] = IF p = 0 THEN {"P", "U"} ELSE {}
  BY <1>1 DEF Space, UserPte, NoPte
<1>5. sz = PGSIZE /\ 0 * PGSIZE < PGSIZE /\ PGSIZE <= NPAGES * PGSIZE
  <2>1. PGSIZE \in Nat \ {0} /\ NPAGES \in Nat \ {0}
    BY SizeAssumption
  <2>2. \A x, y \in Nat \ {0} : y <= x * y
    OBVIOUS
  <2> QED BY <2>1, <2>2 DEF Init
<1>6. 0 \in PagesBelow(sz) /\ sz \in 0 .. KERNBASE
  BY <1>2, <1>5, SizeAssumption DEF PagesBelow, KERNBASE
<1>7. Sound(vm, sz)
  BY <1>3, <1>4, <1>6 DEF Sound, Mapped
<1> QED BY <1>6, <1>7 DEF Init, IInv

(* A page fault keeps the address space sound, served or not.              *)
LEMMA PageFaultSound ==
    ASSUME IInv, NEW p \in Pages, NEW aligned \in BOOLEAN, PageFault(p, aligned)
    PROVE  IInv' /\ (alive' => {"P", "U"} \subseteq vm'.pt[p])
<1>1. Sound(vm, sz) /\ sz' = sz /\ reg' = reg /\ alive' \in BOOLEAN
  BY DEF IInv, PageFault, Mapped, decryptable, uva2ka
<1>2. CASE ~ Mapped(vm, p)
  BY <1>1, <1>2 DEF PageFault, IInv
<1>3. CASE Mapped(vm, p) /\ decryptable(vm, p)
  <2>1. vm' = mdecrypt(vm, p, aligned) /\ "U" \in vm.pt[p]
    BY <1>3 DEF PageFault, decryptable, uva2ka
  <2>2. Sound(vm', sz) /\ {"P", "U"} \subseteq vm'.pt[p]
    BY <1>1, <1>3, <2>1, MdecryptSound
  <2> QED BY <1>1, <2>2 DEF IInv
<1>4. CASE Mapped(vm, p) /\ ~ decryptable(vm, p)
  <2>1. vm' = admit(vm, p, aligned) /\ alive' = FALSE
    BY <1>4 DEF PageFault
  <2>2. Sound(vm', sz)
    BY <1>1, <1>4, <2>1, AdmitSound
  <2> QED BY <1>1, <2>1, <2>2 DEF IInv
<1> QED BY <1>2, <1>3, <1>4

LEMMA GrowSound ==
    ASSUME IInv, NEW n \in SbrkArgs, growproc_up(n)
    PROVE  IInv'
<1> DEFINE m1 == allocuvm(vm, PagesBelow(sz + n) \ PagesBelow(sz))
           S == {p \in LoopPages(n) : uva2ka(m1, p) /\ "E" \notin m1.pt[p]}
<1>1. n \in Int /\ n > 0 /\ sz \in Nat /\ KERNBASE \in Nat /\ sz + n < KERNBASE
  BY SizeAssumption, InputAssumption DEF IInv, growproc_up, KERNBASE
<1>2. Sound(m1, sz + n)
  BY <1>1, AllocSound DEF IInv
<1>3. vm' = switchuvm(encrypt(m1, S))
  BY DEF growproc_up, encryptEach
<1> HIDE DEF m1
<1>4. S \in SUBSET Pages /\ \A p \in S : uva2ka(m1, p)
  BY DEF uva2ka
<1> HIDE DEF S
<1>5. Sound(encrypt(m1, S), sz + n)
  BY <1>2, <1>4, EncryptEncrypts, EncryptsSound DEF Sound
<1>6. Sound(vm', sz')
  BY <1>3, <1>5, SwitchSound DEF growproc_up
<1> QED BY <1>1, <1>6 DEF IInv, growproc_up

LEMMA ShrinkSound ==
    ASSUME IInv, NEW n \in SbrkArgs, growproc_down(n)
    PROVE  IInv'
<1> DEFINE newsz == (sz + n) % UWRAP
           gone == IF newsz >= sz THEN {} ELSE PagesBelow(sz) \ PagesBelow(newsz)
           k == IF newsz >= sz THEN sz ELSE newsz
<1>1. sz \in Nat /\ KERNBASE \in Nat /\ sz <= KERNBASE
  BY SizeAssumption DEF IInv, KERNBASE
<1>2. newsz \in Nat
  BY <1>1, SizeAssumption, InputAssumption
<1> HIDE DEF newsz
<1>3. /\ gone \in SUBSET Pages
      /\ PagesBelow(sz) \ gone \subseteq PagesBelow(k)
      /\ k \in 0 .. KERNBASE
      /\ PagesBelow(sz) \ gone \subseteq PagesBelow(sz)
  BY <1>1, <1>2 DEF PagesBelow
<1>4. /\ alive' = alive /\ reg' = reg
      /\ \/ vm' = deallocuvm(vm, gone) /\ sz' = sz
         \/ vm' = switchuvm(deallocuvm(vm, gone)) /\ sz' = k
  BY DEF growproc_down, newsz
<1> HIDE DEF gone, k
<1>5. Sound(deallocuvm(vm, gone), sz) /\ Sound(deallocuvm(vm, gone), k)
  BY <1>3, DeallocSound DEF IInv
<1>6. Sound(vm', sz')
  BY <1>4, <1>5, SwitchSound
<1> QED BY <1>3, <1>4, <1>6 DEF IInv

LEMMA ExecSound ==
    ASSUME IInv, NEW text \in Pages, NEW b \in Bytes, exec_commit(text, b)
    PROVE  IInv'
<1> DEFINE n == (text + 2) * PGSIZE
           m0 == NewImage(text, b)
           m1 == mencrypt(m0, 0, text)
           m2 == mencrypt(m1, text + 1, 1)
<1>1. Sound(m0, n) /\ n \in Nat /\ text \in Nat
  BY ImageSound DEF Pages
<1>2. vm' = m2 /\ sz' = n /\ reg' = NoValue /\ alive' = alive /\ n < KERNBASE
  BY DEF exec_commit
<1>3. KERNBASE \in Nat
  BY SizeAssumption DEF KERNBASE
<1> HIDE DEF n, m0
<1>4. Sound(m1, n)
  BY <1>1, MencryptEncrypts, EncryptsSound DEF Sound
<1> HIDE DEF m1
<1>5. Sound(m2, n)
  BY <1>1, <1>4, MencryptEncrypts, EncryptsSound DEF Sound
<1> QED BY <1>1, <1>2, <1>3, <1>5 DEF IInv

(* Every step of the specification keeps the invariant.                    *)
LEMMA NextIInv ==
    IInv /\ [Next]_vars => IInv'
<1> SUFFICES ASSUME IInv, [Next]_vars PROVE IInv'
  OBVIOUS
<1>0. Sound(vm, sz) /\ vm \in AddressSpace /\ vm.mem \in [Pages -> 0 .. 255]
  BY DEF IInv, Sound, AddressSpace
<1>1. ASSUME NEW p \in Pages, Load(p) PROVE IInv'
  <2>1. vm.mem[p] \in 0 .. 255
    BY <1>0
  <2> QED BY <1>0, <1>1, <2>1, AccessSound DEF IInv, Load
<1>2. ASSUME NEW p \in Pages, Store(p) PROVE IInv'
  <2>1. reg \in 0 .. 255
    BY <1>2 DEF IInv, Store
  <2> QED BY <1>0, <1>2, <2>1, AccessSound DEF IInv, Store
<1>3. ASSUME NEW p \in Pages, NEW aligned \in BOOLEAN, PageFault(p, aligned)
      PROVE IInv'
  BY <1>3, PageFaultSound
<1>4. ASSUME NEW p \in Pages, NEW len \in 1 .. NPAGES, sys_mencrypt(p, len)
      PROVE IInv'
  <2>1. Sound(mencrypt(vm, p, len), sz)
    BY <1>0, MencryptEncrypts, EncryptsSound DEF Pages
  <2> QED BY <1>4, <2>1 DEF IInv, sys_mencrypt
<1>5. ASSUME NEW n \in SbrkArgs, growproc_up(n) \/ growproc_down(n) PROVE IInv'
  BY <1>5, GrowSound, ShrinkSound
<1>6. CASE fork
  BY <1>6, CopySound DEF IInv, fork
<1>7. CASE exec_enter
  <2>1. Encrypts(vm, vm')
    BY <1>0, <1>7, SizeAssumption
       DEF exec_enter, Encrypts, Space, AddressSpace, Mapped, Slots
  <2> QED BY <1>7, <2>1, EncryptsSound DEF IInv, exec_enter
<1>8. ASSUME NEW text \in Pages, NEW b \in Bytes, exec_commit(text, b) PROVE IInv'
  BY <1>8, ExecSound
<1>9. ASSUME NEW p \in Pages, NEW q \in Pages, NEW aligned \in Aligned,
             dump_rawphymem(p, q, aligned)
      PROVE IInv'
  <2> DEFINE last == IF aligned THEN p ELSE p + 1
  <2>1. last \in Pages /\ vm.mem[q] \in 0 .. 255 /\ vm.mem[p] \in 0 .. 255
    BY <1>0, <1>9 DEF dump_rawphymem, PagesBelow
  <2>2. vm' = Access(p, last, vm.mem[q]) \/ vm' = Access(p, p, vm.mem[p])
    BY <1>9 DEF dump_rawphymem
  <2> HIDE DEF last
  <2>3. Sound(vm', sz)
    BY <1>0, <2>1, <2>2, AccessSound
  <2> QED BY <1>9, <2>3 DEF IInv, dump_rawphymem
<1>10. CASE Switch
  BY <1>10, SwitchSound DEF IInv, Switch
<1>11. ASSUME NEW p \in Pages, DropTranslation(p) PROVE IInv'
  <2>1. Encrypts(vm, vm')
    BY <1>0, <1>11 DEF DropTranslation, Encrypts, Space, AddressSpace, Mapped
  <2> QED BY <1>11, <2>1, EncryptsSound DEF IInv, DropTranslation
<1>13. ASSUME NEW b \in Bytes, Compute(b) PROVE IInv'
  BY <1>13, InputAssumption DEF IInv, Compute
<1>12. CASE UNCHANGED vars
  BY <1>12 DEF vars, IInv
<1> QED
  BY <1>1, <1>2, <1>3, <1>4, <1>5, <1>6, <1>7, <1>8, <1>9, <1>10, <1>11, <1>12, <1>13
     DEF Next, SystemCall

LEMMA Inductive ==
    Spec => []IInv
BY InitIInv, NextIInv, PTL DEF Spec

(* The pages at or below the last byte of a process.                       *)
LEMMA LastPageAbove ==
    ASSUME NEW n \in Nat, NEW p \in Nat, p * PGSIZE < n
    PROVE  p \in 0 .. lastpage(n)
<1>0. PGSIZE \in Nat \ {0}
  BY SizeAssumption
<1>1. PICK k \in Nat, r \in 0 .. (PGSIZE - 1) : n = k * PGSIZE + r /\ n \div PGSIZE = k /\ n % PGSIZE = r
  BY <1>0
<1>2. p <= k
  BY <1>0, <1>1
<1>3. r = 0 => p < k
  BY <1>0, <1>1, <1>2
<1>4. r = 0 => (n - PGSIZE) \div PGSIZE = k - 1
  BY <1>0, <1>1
<1> QED BY <1>0, <1>1, <1>2, <1>3, <1>4 DEF lastpage

(* A part of a finite set that misses one of its elements is smaller.      *)
LEMMA FewerAbove ==
    ASSUME NEW S, IsFiniteSet(S), NEW p \in S, NEW T \in SUBSET (S \ {p}),
           NEW n \in Nat, Cardinality(S) <= n
    PROVE  Cardinality(T) < n
<1>1. IsFiniteSet(S \ {p}) /\ Cardinality(S \ {p}) = Cardinality(S) - 1
  BY FS_RemoveElement
<1>2. IsFiniteSet(T) /\ Cardinality(T) <= Cardinality(S \ {p})
  BY <1>1, FS_Subset
<1>3. Cardinality(T) \in Nat /\ Cardinality(S) \in Nat
  BY <1>2, FS_CardinalityType
<1> QED BY <1>1, <1>2, <1>3

(* The addresses in the queue are at most CLOCKSIZE many.                  *)
LEMMA QueuedFinite ==
    ASSUME IInv
    PROVE  /\ IsFiniteSet({vm.clock[i] : i \in Slots})
           /\ Cardinality({vm.clock[i] : i \in Slots}) <= CLOCKSIZE
<1> DEFINE image == {vm.clock[i] : i \in Slots}
<1>1. CLOCKSIZE \in Nat /\ IsFiniteSet(Slots) /\ Cardinality(Slots) = CLOCKSIZE
  <2>1. CLOCKSIZE \in Nat \ {0}
    BY SizeAssumption
  <2> QED BY <2>1, FS_Interval DEF Slots
<1>2. vm.clock \in Surjection(Slots, image)
  BY DEF IInv, Sound, AddressSpace, Surjection
<1> HIDE DEF image
<1>3. IsFiniteSet(image) /\ Cardinality(image) <= CLOCKSIZE
  BY <1>1, <1>2, FS_Surjection
<1> QED BY <1>3 DEF image

-----------------------------------------------------------------------------
(* Theorems.                                                               *)

(* The address space stays well typed through every fault, system call and *)
(* context switch.                                                         *)
THEOREM TypeCorrect ==
    Spec => []TypeOK
<1>1. IInv => TypeOK
  BY DEF IInv, Sound, TypeOK
<1> QED BY <1>1, Inductive, PTL

(* mapped pages lie below p->sz, no page is present and encrypted at once, *)
(* and an encrypted page stays a mapped user page (vm.c, growproc).        *)
THEOREM Accounting ==
    Spec => []PageAccounting
<1>1. IInv => PageAccounting
  BY DEF IInv, Sound, PageAccounting
<1> QED BY <1>1, Inductive, PTL

(* mdecrypt and addClock never lose track of a decrypted page.             *)
THEOREM Tracking ==
    Spec => []Tracked
<1>1. IInv => Tracked
  BY DEF IInv, Sound, AddressSpace, Tracked
<1> QED BY <1>1, Inductive, PTL

(* The clock queue bounds the working set, for every CLOCKSIZE.            *)
THEOREM Bound ==
    Spec => []WorkingSetBound
<1>1. IInv => WorkingSetBound
  <2> SUFFICES ASSUME IInv PROVE WorkingSetBound
    OBVIOUS
  <2> DEFINE W == {p \in vm.once \ {0} : "P" \in vm.pt[p]}
             image == {vm.clock[i] : i \in Slots}
  <2>1. W \subseteq image
    BY DEF IInv, Sound, AddressSpace, Queued
  <2>2. CLOCKSIZE \in Nat
    BY SizeAssumption
  <2>3. IsFiniteSet(image) /\ Cardinality(image) <= CLOCKSIZE
    BY QueuedFinite
  <2>4. Cardinality(W) <= Cardinality(image)
    <3> HIDE DEF W, image
    <3> QED BY <2>1, <2>3, FS_Subset
  <2>5. Cardinality(W) \in Nat /\ Cardinality(image) \in Nat
    <3> HIDE DEF W, image
    <3> QED BY <2>1, <2>3, FS_Subset, FS_CardinalityType
  <2> HIDE DEF W, image
  <2>6. Cardinality(W) <= CLOCKSIZE
    BY <2>2, <2>3, <2>4, <2>5
  <2> QED BY <2>6 DEF WorkingSetBound, W
<1> QED BY <1>1, Inductive, PTL

(* getpgtable reports every user page, and CLOCKSIZE entries hold every    *)
(* decrypted page: what it lists with wsetOnly is in the queue, so fewer   *)
(* than CLOCKSIZE pages can come before any of them.                       *)
THEOREM Reporting ==
    Spec => []WorkingSetReported
<1>1. IInv => WorkingSetReported
  <2> SUFFICES ASSUME IInv PROVE WorkingSetReported
    OBVIOUS
  <2>1. \A p \in Pages : Mapped(vm, p) => p \in 0 .. lastpage(sz)
    <3>1. PGSIZE \in Nat \ {0} /\ sz \in Nat
      BY SizeAssumption DEF IInv, KERNBASE
    <3>2. ASSUME NEW p \in Pages, p * PGSIZE < sz PROVE p \in 0 .. lastpage(sz)
      BY <3>1, <3>2, LastPageAbove DEF Pages
    <3> QED BY <3>2 DEF IInv, Sound, PagesBelow
  <2>2. getpgtable(vm, sz, NPAGES, FALSE) = {p \in Pages : uva2ka(vm, p)}
    <3> DEFINE S == listed(vm, lastpage(sz), FALSE)
    <3>1. S = {p \in Pages : uva2ka(vm, p)}
      BY <2>1 DEF listed, uva2ka
    <3> HIDE DEF S
    <3>2. ASSUME NEW p \in S PROVE Cardinality({q \in S : q > p}) < NPAGES
      <4> DEFINE T == {q \in S : q > p}
      <4>1. S \subseteq Pages
        BY <3>1
      <4>2. T \subseteq Pages \ {p} /\ p \in Pages
        <5>1. p \in Pages /\ p \in Nat
          BY <3>2, <4>1, SizeAssumption DEF Pages
        <5>2. ~ (p > p)
          BY <5>1
        <5> QED BY <4>1, <5>1, <5>2
      <4> HIDE DEF T
      <4>3. IsFiniteSet(Pages) /\ Cardinality(Pages) = NPAGES
        BY FS_Interval, SizeAssumption DEF Pages
      <4>4. Cardinality(T) < NPAGES
        BY <4>2, <4>3, FewerAbove, SizeAssumption
      <4> QED BY <4>4 DEF T
    <3> QED BY <3>1, <3>2 DEF getpgtable, S
  <2>3. ASSUME NEW p \in vm.once \ {0}, "P" \in vm.pt[p]
        PROVE  p \in getpgtable(vm, sz, CLOCKSIZE, TRUE)
    <3> DEFINE S == listed(vm, lastpage(sz), TRUE)
               image == {vm.clock[i] : i \in Slots}
               T == {q \in S : q > p}
    <3>1. p \in Pages /\ uva2ka(vm, p) /\ Queued(vm, p) /\ Mapped(vm, p)
      BY <2>3 DEF IInv, Sound, AddressSpace, uva2ka
    <3>2. p \in S /\ p \in image
      BY <2>1, <3>1 DEF listed, inQ, Queued
    <3>3. T \subseteq image \ {p}
      BY <3>1 DEF listed, inQ, Queued, Pages
    <3>4. Cardinality(T) < CLOCKSIZE
      <4> HIDE DEF S, image, T
      <4>1. IsFiniteSet(image) /\ Cardinality(image) <= CLOCKSIZE
        BY QueuedFinite DEF image
      <4> QED BY <3>2, <3>3, <4>1, FewerAbove, SizeAssumption
    <3> QED BY <3>2, <3>4 DEF getpgtable
  <2> QED BY <2>2, <2>3 DEF WorkingSetReported
<1> QED BY <1>1, Inductive, PTL

(* A page fault that does not end the process leaves its page present.     *)
THEOREM Serving ==
    Spec => FaultServed
<1>1. IInv /\ [Next]_vars =>
        [\A p \in Pages, aligned \in BOOLEAN :
           PageFault(p, aligned) /\ alive' => {"P", "U"} \subseteq vm'.pt[p]]_vars
  BY PageFaultSound
<1> QED BY <1>1, Inductive, PTL DEF FaultServed, Spec

=============================================================================
