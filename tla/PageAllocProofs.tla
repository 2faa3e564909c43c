--------------------------- MODULE PageAllocProofs ---------------------------
(***************************************************************************)
(* The page allocator keeps its list intact, loses no page, and implements *)
(* PagePool, for every size and layout of memory.                          *)
(***************************************************************************)
EXTENDS PageAlloc, TLAPS

-----------------------------------------------------------------------------
(* Arithmetic of multiples. *)

LEMMA DivMod ==
  ASSUME NEW a \in Nat, NEW n \in Nat \ {0}
  PROVE  /\ a = n * (a \div n) + (a % n)
         /\ a % n \in 0 .. n - 1
         /\ a \div n \in Nat
OBVIOUS

LEMMA Multiple ==
  ASSUME NEW q \in Int, NEW n \in Nat \ {0}
  PROVE  (n * q) % n = 0
OBVIOUS

LEMMA NextMultiple ==
  ASSUME NEW a \in Nat, NEW n \in Nat \ {0}, a % n = 0
  PROVE  (a + n) % n = 0
<1>1. a = n * (a \div n) /\ a \div n \in Nat
  BY DivMod
<1>2. PICK q \in Nat : a = n * q
  BY <1>1
<1>3. a + n = n * (q + 1)
  BY <1>2
<1> QED
  BY <1>3, Multiple

LEMMA RoundedDown ==
  ASSUME NEW a \in Nat, NEW n \in Nat \ {0}
  PROVE  (a - (a % n)) % n = 0
<1>1. a - (a % n) = n * (a \div n) /\ a \div n \in Int
  BY DivMod
<1> QED
  BY <1>1, Multiple

(* Two multiples of n are n apart. *)
LEMMA MultiplesApart ==
  ASSUME NEW a \in Nat, NEW b \in Nat, NEW n \in Nat \ {0}, a % n = 0, b % n = 0, a < b
  PROVE  a + n <= b
<1>1. a = n * (a \div n) /\ a \div n \in Nat
  BY DivMod
<1>2. PICK q \in Nat : a = n * q
  BY <1>1
<1>3. b = n * (b \div n) /\ b \div n \in Nat
  BY DivMod
<1>4. PICK r \in Nat : b = n * r
  BY <1>3
<1>5. q < r
  BY <1>2, <1>4
<1>6. n * (q + 1) <= n * r
  BY <1>5
<1> QED
  BY <1>2, <1>4, <1>6

-----------------------------------------------------------------------------
(* The loops of register_free_mem run over pages. *)

(* A multiple of the page size is a fixed point of both roundings. *)
LEMMA RoundedMultiple ==
  ASSUME NEW a \in Nat, a % PGSIZE = 0
  PROVE  PG_ROUNDDOWN(a) = a /\ PG_ROUNDUP(a) = a
<1>1. PGSIZE \in Nat \ {0}
  BY PageAllocAssumption
<1>2. PICK q \in Nat : a = PGSIZE * q
  <2>1. a = PGSIZE * (a \div PGSIZE) + (a % PGSIZE) /\ a \div PGSIZE \in Nat
    BY <1>1, DivMod
  <2>2. PICK d \in Nat : d = a \div PGSIZE
    BY <2>1
  <2>3. a = PGSIZE * d
    BY <1>1, <2>1, <2>2
  <2> QED
    BY <2>3
<1>3. PICK e \in Nat : e = a + PGSIZE - 1
  BY <1>1
<1>3a. /\ e = PGSIZE * (e \div PGSIZE) + (e % PGSIZE) /\ e % PGSIZE \in 0 .. PGSIZE - 1
      /\ e \div PGSIZE \in Nat
  BY <1>1, DivMod
<1>4. PICK r \in Nat : e = PGSIZE * r + (e % PGSIZE)
  BY <1>3a
<1>5. r = q
  <2>1. CASE r > q
    <3>1. PGSIZE * r >= PGSIZE * (q + 1)
      BY <1>1, <2>1
    <3>2. PGSIZE * (q + 1) = a + PGSIZE
      BY <1>1, <1>2
    <3> QED
      BY <1>1, <1>3, <1>3a, <1>4, <3>1, <3>2
  <2>2. CASE r < q
    <3>1. PGSIZE * (r + 1) <= PGSIZE * q
      BY <1>1, <2>2
    <3>2. PGSIZE * (r + 1) = PGSIZE * r + PGSIZE
      BY <1>1
    <3> QED
      BY <1>1, <1>2, <1>3, <1>3a, <1>4, <3>1, <3>2
  <2> QED
    BY <2>1, <2>2
<1>6. e - (e % PGSIZE) = a
  BY <1>1, <1>2, <1>3, <1>3a, <1>4, <1>5
<1> QED
  BY <1>3, <1>6 DEF PG_ROUNDDOWN, PG_ROUNDUP

(* The first call stops where the second starts, at a page. *)
LEMMA Seam ==
  /\ BOOT_TOP \in Page /\ KERN_TOP \in Page
  /\ PG_ROUNDUP(BOOT_TOP) = BOOT_TOP
  /\ PG_ROUNDDOWN(BOOT_TOP) = BOOT_TOP /\ PG_ROUNDDOWN(KERN_TOP) = KERN_TOP
BY RoundedMultiple, PageAllocAssumption DEF Page

(* The first page registered is the first one behind the kernel image. *)
LEMMA FirstPage ==
  /\ PG_ROUNDUP(KERNEL_END) \in Page
  /\ PG_ROUNDUP(KERNEL_END) >= KERNEL_END
  /\ \A p \in Page : p >= KERNEL_END => p >= PG_ROUNDUP(KERNEL_END)
  /\ PG_ROUNDUP(KERNEL_END) <= BOOT_TOP
<1> DEFINE e == KERNEL_END + PGSIZE - 1
           f == e - (e % PGSIZE)
<1>1. e \in Nat /\ PGSIZE \in Nat \ {0} /\ BOOT_TOP \in Nat /\ KERN_TOP \in Nat
  BY PageAllocAssumption
<1>2. PG_ROUNDUP(KERNEL_END) = f
  BY DEF PG_ROUNDUP, PG_ROUNDDOWN
<1>3. e % PGSIZE \in 0 .. PGSIZE - 1
  BY <1>1, DivMod
<1>4. f \in Nat /\ f >= KERNEL_END /\ f <= e
  BY <1>1, <1>3, PageAllocAssumption
<1>5. f % PGSIZE = 0
  BY <1>1, RoundedDown
<1>6. ASSUME NEW p \in Nat, p % PGSIZE = 0, p >= KERNEL_END PROVE p >= f
  <2>1. CASE p < f
    <3>1. p + PGSIZE <= f
      BY <1>1, <1>4, <1>5, <1>6, <2>1, MultiplesApart
    <3> QED
      BY <1>1, <1>4, <1>6, <3>1, PageAllocAssumption
  <2> QED
    BY <1>4, <1>6, <2>1
<1>7. BOOT_TOP >= f
  BY <1>6, PageAllocAssumption
<1> HIDE DEF f, e
<1>8. f \in Page
  BY <1>4, <1>5, <1>7, PageAllocAssumption DEF Page
<1> QED
  BY <1>2, <1>4, <1>6, <1>7, <1>8 DEF Page

(* An iteration moves from one page to the next one. *)
LEMMA PageStep ==
  ASSUME NEW a \in Page, a < KERN_TOP
  PROVE  /\ a + PGSIZE \in Page
         /\ \A p \in Page : p < a + PGSIZE <=> p < a \/ p = a
<1>1. /\ a \in Nat /\ a % PGSIZE = 0 /\ 0 < a
      /\ PGSIZE \in Nat \ {0} /\ KERN_TOP \in Nat /\ KERN_TOP % PGSIZE = 0
  BY PageAllocAssumption DEF Page
<1>2. (a + PGSIZE) % PGSIZE = 0
  BY <1>1, NextMultiple
<1>3. a + PGSIZE <= KERN_TOP
  BY <1>1, MultiplesApart
<1>4. ASSUME NEW p \in Page, p < a + PGSIZE PROVE p < a \/ p = a
  <2>1. p \in Nat /\ p % PGSIZE = 0
    BY PageAllocAssumption DEF Page
  <2>2. CASE a < p
    <3>1. a + PGSIZE <= p
      BY <1>1, <2>1, <2>2, MultiplesApart
    <3> QED
      BY <1>1, <1>4, <2>1, <3>1
  <2> QED
    BY <1>1, <2>1, <2>2
<1>5. a + PGSIZE \in Page
  BY <1>1, <1>2, <1>3 DEF Page
<1>6. \A p \in Page : p \in Int
  BY PageAllocAssumption DEF Page
<1> QED
  BY <1>1, <1>4, <1>5, <1>6

-----------------------------------------------------------------------------
Inv == TypeOK /\ ListIntact /\ Conservation

(* A page is not NULL. *)
LEMMA PageAddress == NULL \notin Page /\ Page \subseteq Nat
BY PageAllocAssumption DEF Page, NULL

(* Pushing a page that is not in the list. *)
LEMMA KfreeStep ==
  ASSUME TypeOK, ListIntact, NEW p \in Page, depth[p] = 0, kfree(p)
  PROVE  /\ ListIntact'
         /\ FreeSet' = FreeSet \cup {p}
         /\ free_pages' \in Page \cup {NULL}
         /\ word' \in [Page -> Page \cup {NULL}]
         /\ depth' \in [Page -> Nat]
         /\ nfree' \in Nat
<1> USE DEF TypeOK
<1>1. /\ word' = [word EXCEPT ![p] = free_pages]
      /\ free_pages' = p
      /\ depth' = [depth EXCEPT ![p] = nfree + 1]
      /\ nfree' = nfree + 1
  BY DEF kfree
<1>2. /\ word' \in [Page -> Page \cup {NULL}]
      /\ depth' \in [Page -> Nat]
      /\ nfree' \in Nat /\ nfree' # 0
      /\ depth'[p] = nfree'
  BY <1>1
<1>3. FreeSet' = FreeSet \cup {p}
  BY <1>1 DEF FreeSet
<1>4. \A q \in FreeSet : q # p /\ q \in Page /\ depth'[q] = depth[q] /\ word'[q] = word[q]
  BY <1>1 DEF FreeSet
<1>5. \A q \in FreeSet : depth[q] <= nfree /\ depth[q] \in Nat /\ depth[q] > 0
  BY DEF ListIntact, FreeSet
<1>6. ASSUME NEW q \in FreeSet'
      PROVE  /\ depth'[q] <= nfree'
             /\ IF depth'[q] = 1 THEN word'[q] = NULL
                ELSE word'[q] \in Page /\ depth'[word'[q]] = depth'[q] - 1
  <2>1. CASE q = p
    <3>1. CASE nfree = 0
      BY <1>1, <1>2, <2>1, <3>1 DEF ListIntact
    <3>2. CASE nfree # 0
      <4>1. free_pages \in Page /\ depth[free_pages] = nfree /\ free_pages # p
        BY <3>2 DEF ListIntact
      <4> QED
        BY <1>1, <1>2, <2>1, <3>2, <4>1
    <3> QED
      BY <3>1, <3>2
  <2>2. CASE q # p
    <3>1. q \in FreeSet
      BY <1>3, <1>6, <2>2
    <3>2. CASE depth[q] = 1
      BY <1>1, <1>4, <1>5, <3>1, <3>2 DEF ListIntact
    <3>3. CASE depth[q] # 1
      <4>1. word[q] \in Page /\ depth[word[q]] = depth[q] - 1 /\ depth[q] > 1
        BY <1>5, <3>1, <3>3 DEF ListIntact
      <4>2. word[q] # p
        BY <1>5, <3>1, <4>1
      <4> QED
        BY <1>1, <1>4, <1>5, <3>1, <3>3, <4>1, <4>2
    <3> QED
      BY <3>2, <3>3
  <2> QED
    BY <2>1, <2>2
<1>7. ASSUME NEW q \in FreeSet', NEW r \in FreeSet', depth'[q] = depth'[r]
      PROVE  q = r
  <2>1. \A s \in FreeSet : depth'[s] # depth'[p]
    BY <1>1, <1>2, <1>4, <1>5
  <2>2. CASE q = p \/ r = p
    BY <1>3, <1>7, <2>1, <2>2
  <2>3. CASE q # p /\ r # p
    BY <1>3, <1>4, <1>7, <2>3 DEF ListIntact
  <2> QED
    BY <2>2, <2>3
<1>8. nfree' # 0 /\ free_pages' \in Page /\ depth'[free_pages'] = nfree'
  BY <1>1, <1>2
<1>9. ListIntact'
  BY <1>6, <1>7, <1>8 DEF ListIntact
<1> QED
  BY <1>1, <1>2, <1>3, <1>9

(* Popping the head of a list that is not empty. *)
LEMMA KmallocStep ==
  ASSUME TypeOK, ListIntact, kmalloc
  PROVE  /\ ListIntact'
         /\ free_pages \in FreeSet
         /\ FreeSet' = FreeSet \ {free_pages}
         /\ free_pages' \in Page \cup {NULL}
         /\ depth' \in [Page -> Nat]
         /\ nfree' \in Nat
<1> USE DEF TypeOK
<1>1. /\ free_pages # NULL
      /\ free_pages' = word[free_pages]
      /\ depth' = [depth EXCEPT ![free_pages] = 0]
      /\ nfree' = nfree - 1
      /\ word' = word
  BY DEF kmalloc, Unlinked
<1>2. free_pages \in Page /\ depth[free_pages] = nfree /\ nfree > 0 /\ free_pages \in FreeSet
  BY <1>1 DEF ListIntact, FreeSet
<1>3. depth' \in [Page -> Nat] /\ nfree' \in Nat /\ free_pages' \in Page \cup {NULL}
  BY <1>1, <1>2
<1>4. FreeSet' = FreeSet \ {free_pages}
  BY <1>1, <1>2 DEF FreeSet
<1>5. \A q \in FreeSet' : q \in FreeSet /\ q \in Page /\ q # free_pages /\ depth'[q] = depth[q]
                          /\ depth[q] > 0
  BY <1>1, <1>2, <1>4 DEF FreeSet
<1>6. \A q \in FreeSet' : depth[q] < nfree
  <2> SUFFICES ASSUME NEW q \in FreeSet' PROVE depth[q] < nfree
    OBVIOUS
  <2>1. depth[q] <= nfree /\ depth[q] \in Nat /\ depth[q] # nfree
    BY <1>2, <1>5 DEF ListIntact
  <2> QED
    BY <2>1
<1>7. ASSUME NEW q \in FreeSet'
      PROVE  /\ depth'[q] <= nfree'
             /\ IF depth'[q] = 1 THEN word'[q] = NULL
                ELSE word'[q] \in Page /\ depth'[word'[q]] = depth'[q] - 1
  <2>1. depth[q] \in Nat /\ depth[q] < nfree /\ depth'[q] = depth[q] /\ depth[q] > 0
    BY <1>5, <1>6
  <2>2. CASE depth[q] = 1
    BY <1>1, <1>5, <2>1, <2>2 DEF ListIntact
  <2>3. CASE depth[q] # 1
    <3>1. word[q] \in Page /\ depth[word[q]] = depth[q] - 1
      BY <1>5, <2>3 DEF ListIntact
    <3>2. word[q] # free_pages
      BY <1>2, <2>1, <3>1
    <3> QED
      BY <1>1, <2>1, <2>3, <3>1, <3>2
  <2> QED
    BY <2>2, <2>3
<1>8. \A q, r \in FreeSet' : depth'[q] = depth'[r] => q = r
  BY <1>5 DEF ListIntact
<1>9. IF nfree' = 0 THEN free_pages' = NULL
      ELSE free_pages' \in Page /\ depth'[free_pages'] = nfree'
  <2>1. CASE nfree = 1
    BY <1>1, <1>2, <2>1 DEF ListIntact
  <2>2. CASE nfree # 1
    <3>1. word[free_pages] \in Page /\ depth[word[free_pages]] = nfree - 1
      BY <1>2, <2>2 DEF ListIntact
    <3>2. word[free_pages] # free_pages
      BY <1>2, <3>1
    <3> QED
      BY <1>1, <1>2, <2>2, <3>1, <3>2
  <2> QED
    BY <2>1, <2>2
<1>10. ListIntact'
  BY <1>7, <1>8, <1>9 DEF ListIntact
<1> QED
  BY <1>1, <1>2, <1>3, <1>4, <1>10

(* Every action keeps Inv. *)
LEMMA InvStep == Inv /\ [Next]_vars => Inv'
<1> SUFFICES ASSUME TypeOK, ListIntact, Conservation, [Next]_vars
             PROVE  TypeOK' /\ ListIntact' /\ Conservation'
  BY DEF Inv
<1>0. CASE register_free_mem
  <2>1. /\ calls' = calls + 1 /\ now' = PG_ROUNDUP(start(calls + 1)) /\ calls \in {0, 1}
        /\ UNCHANGED <<free_pages, word, held, nheld, depth, nfree>> /\ panicked' \in {0, 1}
    BY <1>0 DEF register_free_mem, TypeOK
  <2>2. FreeSet' = FreeSet /\ ListIntact'
    BY <2>1 DEF FreeSet, ListIntact
  <2>3. CASE calls = 0
    <3>1. now' = PG_ROUNDUP(KERNEL_END) /\ calls' = 1 /\ now = NULL
      BY <2>1, <2>3 DEF start, TypeOK
    <3>2. {p \in Page : p >= KERNEL_END /\ p < now} = {}
          /\ {p \in Page : p >= KERNEL_END /\ p < now'} = {}
      BY <3>1, FirstPage, PageAllocAssumption DEF Page, NULL
    <3>3. Conservation'
      BY <2>1, <2>2, <3>2 DEF Conservation
    <3> QED
      BY <2>1, <2>2, <3>1, <3>3, FirstPage, Seam DEF TypeOK, start, end
  <2>4. CASE calls = 1
    <3>1. now \in Page /\ now <= BOOT_TOP /\ ~(now < BOOT_TOP)
      BY <1>0, <2>4, Seam DEF TypeOK, register_free_mem, MoreToRegister, end
    <3>2. now = BOOT_TOP /\ now' = BOOT_TOP /\ calls' = 2
      BY <2>1, <2>4, <3>1, Seam, PageAllocAssumption DEF start, Page
    <3>3. Conservation'
      BY <2>1, <2>2, <3>2 DEF Conservation
    <3> QED
      BY <2>1, <2>2, <3>2, <3>3, Seam, PageAllocAssumption DEF TypeOK, start, end
  <2> QED
    BY <2>1, <2>3, <2>4
<1>1. CASE register_page
  <2>1. /\ calls > 0 /\ now < end(calls) /\ kfree(now) /\ now' = now + PGSIZE
        /\ UNCHANGED <<calls, held, nheld, panicked>>
    BY <1>1, Seam DEF register_page, MoreToRegister, end
  <2>2. /\ now \in Page /\ now \in Int /\ KERNEL_END \in Int /\ now >= KERNEL_END /\ PGSIZE \in Nat
        /\ end(calls) \in Page /\ now < KERN_TOP /\ calls \in {1, 2} /\ now >= start(calls)
        /\ start(calls) \in Nat
    BY <2>1, Seam, PageAllocAssumption DEF TypeOK, Page, start, end
  <2>3. now \notin FreeSet \cup held
    BY <2>2 DEF Conservation
  <2>4. depth[now] = 0
    BY <2>2, <2>3 DEF FreeSet, TypeOK
  <2>5. /\ ListIntact'
        /\ FreeSet' = FreeSet \cup {now}
        /\ free_pages' \in Page \cup {NULL}
        /\ word' \in [Page -> Page \cup {NULL}]
        /\ depth' \in [Page -> Nat]
        /\ nfree' \in Nat
    BY <2>1, <2>2, <2>4, KfreeStep
  <2>6. now' \in Page /\ \A p \in Page : p < now' <=> p < now \/ p = now
    BY <2>1, <2>2, PageStep
  <2>7. Conservation'
    <3>1. FreeSet' \cup held' = {p \in Page : p >= KERNEL_END /\ p < now} \cup {now}
      BY <2>1, <2>5 DEF Conservation
    <3>2. FreeSet' \cap held' = {}
      BY <2>1, <2>3, <2>5 DEF Conservation
    <3> QED
      BY <2>2, <2>6, <3>1, <3>2 DEF Conservation
  <2>8. start(calls) <= now' /\ now' <= end(calls)
    <3>1. now' <= end(calls)
      <4>1. PICK b \in Page : b = end(calls)
        BY <2>2
      <4>2. now \in Nat /\ now % PGSIZE = 0 /\ b \in Nat /\ b % PGSIZE = 0 /\ PGSIZE \in Nat \ {0}
        BY <2>2, <4>1, PageAllocAssumption DEF Page
      <4>3. now + PGSIZE <= b
        BY <2>1, <4>1, <4>2, MultiplesApart
      <4> QED
        BY <2>1, <4>1, <4>3
    <3> QED
      BY <2>1, <2>2, <3>1
  <2>9. calls' = calls /\ calls \in 0 .. 2 /\ calls # 0 /\ start(calls)' = start(calls)
        /\ end(calls)' = end(calls)
    BY <2>1, <2>2 DEF start, end
  <2>10. TypeOK'
    BY <2>1, <2>5, <2>6, <2>8, <2>9 DEF TypeOK
  <2> QED
    BY <2>5, <2>7, <2>10
<1>2. CASE kmalloc
  <2>1. /\ ListIntact'
        /\ free_pages \in FreeSet
        /\ FreeSet' = FreeSet \ {free_pages}
        /\ free_pages' \in Page \cup {NULL}
        /\ depth' \in [Page -> Nat]
        /\ nfree' \in Nat
    BY <1>2, KmallocStep
  <2>2. /\ held' = held \cup {free_pages} /\ nheld' = nheld + 1
        /\ UNCHANGED <<word, calls, now, panicked>>
    BY <1>2 DEF kmalloc
  <2>3. free_pages \in Page
    BY <2>1 DEF FreeSet
  <2>4. Conservation'
    BY <2>1, <2>2 DEF Conservation
  <2> QED
    BY <2>1, <2>2, <2>3, <2>4 DEF TypeOK, start, end
<1>3. CASE release
  <2>1. PICK p \in held : kfree(p) /\ held' = held \ {p} /\ nheld' = nheld - 1
    BY <1>3 DEF release
  <2>2. UNCHANGED <<calls, now, panicked>>
    BY <1>3 DEF release
  <2>3. p \in Page /\ depth[p] = 0
    BY DEF Conservation, FreeSet, TypeOK
  <2>4. /\ ListIntact'
        /\ FreeSet' = FreeSet \cup {p}
        /\ free_pages' \in Page \cup {NULL}
        /\ word' \in [Page -> Page \cup {NULL}]
        /\ depth' \in [Page -> Nat]
        /\ nfree' \in Nat
    BY <2>1, <2>3, KfreeStep
  <2>5. Conservation'
    BY <2>1, <2>2, <2>4 DEF Conservation
  <2> QED
    BY <2>1, <2>2, <2>4, <2>5 DEF TypeOK, start, end
<1>4. CASE use
  <2>1. PICK p \in held, v \in Page \cup {NULL} : word' = [word EXCEPT ![p] = v]
    BY <1>4 DEF use
  <2>2. UNCHANGED <<free_pages, calls, now, held, nheld, depth, nfree, panicked>>
    BY <1>4 DEF use
  <2>3. FreeSet' = FreeSet /\ \A q \in FreeSet : q # p /\ word'[q] = word[q]
    BY <2>1, <2>2 DEF FreeSet, Conservation, TypeOK
  <2>4. ListIntact' /\ Conservation'
    BY <2>2, <2>3 DEF ListIntact, Conservation
  <2> QED
    BY <2>1, <2>2, <2>4 DEF TypeOK, start, end
<1>5. CASE kmalloc_panics \/ UNCHANGED vars
  BY <1>5 DEF kmalloc_panics, vars, TypeOK, ListIntact, Conservation, FreeSet, start, end
<1> QED
  BY <1>0, <1>1, <1>2, <1>3, <1>4, <1>5 DEF Next, stopped

(* The list starts empty, with nothing registered. *)
LEMMA InitInv == Init => Inv
<1> SUFFICES ASSUME Init PROVE Inv
  OBVIOUS
<1>1. now = NULL /\ calls = 0
  BY DEF Init
<1>2. TypeOK
  BY <1>1 DEF Init, TypeOK
<1>3. FreeSet = {}
  BY DEF Init, FreeSet
<1>4. ListIntact
  BY <1>3 DEF Init, ListIntact
<1>5. {p \in Page : p >= KERNEL_END /\ p < now} = {}
  BY <1>1, PageAllocAssumption DEF Page, NULL
<1>6. Conservation
  BY <1>3, <1>5 DEF Init, Conservation
<1> QED
  BY <1>2, <1>4, <1>6 DEF Inv

(* The pointers of the list are page addresses and each call of             *)
(* register_free_mem stays between its start and its end.                   *)
THEOREM AllocatorTypes == Spec => []TypeOK
<1>1. Inv => TypeOK
  BY DEF Inv
<1> QED
  BY <1>1, InitInv, InvStep, PTL DEF Spec

(* Whatever the callers write into their pages, the list stays intact.      *)
THEOREM AllocatorSafe == Spec => []ListIntact
<1>1. Inv => ListIntact
  BY DEF Inv
<1> QED
  BY <1>1, InitInv, InvStep, PTL DEF Spec

(* No page is lost, handed out twice or taken from the kernel image.        *)
THEOREM PagesConserved == Spec => []Conservation
<1>1. Inv => Conservation
  BY DEF Inv
<1> QED
  BY <1>1, InitInv, InvStep, PTL DEF Spec

(* The linked list implements the pool of pages the rest of the kernel      *)
(* relies on.                                                               *)
THEOREM ImplementsPool == Spec => PoolSpec
<1>1. Init => Pool!Init
  BY DEF Init, Pool!Init, FreeSet
<1>2. Inv /\ [Next]_vars => [Pool!Next]_(Pool!vars)
  <2> SUFFICES ASSUME TypeOK, ListIntact, Conservation, [Next]_vars
               PROVE  Pool!Next \/ UNCHANGED <<FreeSet, held, nheld>>
    BY DEF Inv, Pool!vars
  <2>1. CASE register_page
    <3>1. kfree(now) /\ UNCHANGED <<held, nheld>> /\ calls > 0
      BY <2>1 DEF register_page, MoreToRegister
    <3>2. now \in Page /\ now \notin FreeSet \cup held
      BY <3>1, PageAllocAssumption DEF TypeOK, Conservation, Page
    <3>3. depth[now] = 0
      BY <3>2 DEF FreeSet, TypeOK
    <3>4. FreeSet' = FreeSet \cup {now}
      BY <3>1, <3>2, <3>3, KfreeStep
    <3>5. Pool!Register
      BY <3>1, <3>2, <3>4 DEF Pool!Register
    <3> QED
      BY <3>5 DEF Pool!Next
  <2>2. CASE kmalloc
    <3>1. free_pages \in FreeSet /\ FreeSet' = FreeSet \ {free_pages}
      BY <2>2, KmallocStep
    <3>2. held' = held \cup {free_pages} /\ nheld' = nheld + 1
      BY <2>2 DEF kmalloc
    <3>3. Pool!Alloc
      BY <3>1, <3>2 DEF Pool!Alloc
    <3> QED
      BY <3>3 DEF Pool!Next
  <2>3. CASE release
    <3>1. PICK p \in held : kfree(p) /\ held' = held \ {p} /\ nheld' = nheld - 1
      BY <2>3 DEF release
    <3>2. p \in Page /\ depth[p] = 0
      BY DEF Conservation, FreeSet, TypeOK
    <3>3. FreeSet' = FreeSet \cup {p}
      BY <3>1, <3>2, KfreeStep
    <3>4. Pool!Free
      BY <3>1, <3>3 DEF Pool!Free
    <3> QED
      BY <3>4 DEF Pool!Next
  <2>4. CASE register_free_mem \/ use \/ kmalloc_panics \/ UNCHANGED vars
    BY <2>4 DEF register_free_mem, use, kmalloc_panics, vars, FreeSet
  <2> QED
    BY <2>1, <2>2, <2>3, <2>4 DEF Next, stopped
<1> QED
  BY <1>1, <1>2, InitInv, InvStep, PTL DEF Spec, PoolSpec, Pool!Spec
=============================================================================
