------------------------- MODULE AddressSpaceProofs -------------------------
(***************************************************************************)
(* Proofs about page directories and page tables, for any size of          *)
(* directories, tables and memory, any number of tasks and calls.  At most *)
(* one execv may fail for want of a program: a failing one frees physical  *)
(* page 0, which a second would take from whoever got it.                  *)
(*                                                                         *)
(* The argument: a page has at most one use, as the directory, a table or  *)
(* the user page of an address space or as a kernel stack, so a write to   *)
(* one address space changes no other.  What a walk of a directory finds   *)
(* is given by how far map_kernel or destroy_address_space has come.       *)
(***************************************************************************)
EXTENDS AddressSpace, TLAPS

DirWords == 0 .. PDE_SIZE - 1

VPages == 0 .. VSPACE - 1

(* walk_pgdir in a given memory. *)
Walk(m, d, va) ==
  IF m[d][PdeIndex(va)] = NotPresent THEN NotPresent
  ELSE m[m[d][PdeIndex(va)].pa][PteIndex(va)]

(* Directories in use: of the kernel, of a task, being built or destroyed. *)
Dirs == ({kpgdir, dir, old} \cup {pgdir[p] : p \in Procs}) \ {NONE}

(* The tables of directories that are not yet freed, and their pages. *)
HeldTables ==
  {h \in Dirs \X DirWords : /\ mem[h[1]][h[2]] # NotPresent
                            /\ ~(h[1] = dir /\ phase = "tables" /\ h[2] < i)}

TablePages == [h \in HeldTables |-> mem[h[1]][h[2]].pa]

(* The directories with a user page in them. *)
Loaded(d) == Walk(mem, d, 0).us = TRUE

UserPages == [d \in {d \in Dirs : Loaded(d)} |-> Walk(mem, d, 0).pa]

StackPages == [p \in {p \in Procs : kstack[p] # NONE} |-> kstack[p]]

Image(f) == {f[x] : x \in DOMAIN f}

Injective(f) == \A x, y \in DOMAIN f : f[x] = f[y] => x = y

(* Every page of the pool is in F or in one use, and no page is in two.    *)
Layout(D, tp, up, sp, F) ==
  LET Used == D \cup Image(tp) \cup Image(up) \cup Image(sp) IN
  /\ Used \cap F = {}
  /\ Used \cup F \subseteq Pool \cup {0}
  /\ Pool \subseteq Used \cup F
  /\ Injective(tp) /\ Injective(up) /\ Injective(sp)
  /\ D \cap (Image(tp) \cup Image(up) \cup Image(sp)) = {}
  /\ Image(tp) \cap (Image(up) \cup Image(sp)) = {}
  /\ Image(up) \cap Image(sp) = {}

OneUse == Layout(Dirs, TablePages, UserPages, StackPages, free)

(* An execv that failed before a program was loaded. *)
NothingLoaded == op = "fail" /\ phase = "unmap" /\ ~Loaded(dir)

(* Page 0 belongs to nobody until the first such execv has freed it. *)
PageZero ==
  /\ NothingLoaded => nfailed = 1
  /\ nfailed = 0 \/ NothingLoaded =>
       0 \notin free \cup Dirs \cup Image(TablePages) \cup Image(UserPages) \cup Image(StackPages)

(* Which handler can be where, and which of its variables are set. *)
Shape ==
  /\ op = "none" <=> phase = "idle"
  /\ op = "boot" => phase \in {"dir", "map"}
  /\ op = "fork" => phase \in {"dir", "map", "load"}
  /\ op \in {"fail", "reap"} => phase \in {"unmap", "tables"}
  /\ dir = NONE <=> phase \in {"idle", "dir"}
  /\ old # NONE <=> op \in {"execv", "fail"}
  /\ who # NONE <=> op \notin {"none", "boot"}
  /\ kpgdir = NONE <=> op = "boot"
  /\ phase = "map" => i < kernel_map[r].size
  /\ phase = "tables" => i <= PDE_SIZE

(* The directory that is loaded. *)
Processor ==
  /\ op = "boot" => cr3 = NONE /\ cur = NONE
  /\ op # "boot" => cr3 = IF cur = NONE THEN kpgdir
                          ELSE IF op \in {"execv", "fail"} THEN old ELSE pgdir[cur]
  /\ cur # NONE => pgdir[cur] # NONE
  /\ op \in {"execv", "fail"} => who = cur
  /\ op = "reap" => cur \notin {NONE, who}

(* Whose directory is being built or destroyed; no two tasks share one. *)
TaskDirs ==
  /\ op = "boot" => \A p \in Procs : pgdir[p] = NONE
  /\ op = "fork" /\ phase \in {"dir", "map"} => pgdir[who] = NONE
  /\ op = "execv" /\ phase \in {"dir", "map"} => pgdir[who] = old
  /\ phase \in {"load", "args"} \/ op \in {"fail", "reap"} => pgdir[who] = dir
  /\ op = "execv" /\ phase \in {"unmap", "tables"} => dir = old /\ pgdir[who] \notin {old, NONE}
  /\ dir # NONE /\ dir = old => op = "execv" /\ phase \in {"unmap", "tables"}
  /\ \A p \in Procs : kstack[p] = NONE <=> pgdir[p] = NONE /\ ~(op = "fork" /\ who = p)
  /\ \A p, q \in Procs : pgdir[p] # NONE /\ pgdir[p] = pgdir[q] => p = q
  /\ kpgdir # NONE => kpgdir # dir /\ kpgdir # old /\ \A p \in Procs : kpgdir # pgdir[p]
  /\ dir # NONE => \A p \in Procs : pgdir[p] = dir => p = who /\ phase # "map"
  /\ old # NONE => \A p \in Procs : pgdir[p] = old => p = who

(* How far map_memory has come. *)
Frontier == kernel_map[r].va + i

(* What a walk finds. *)
Expected(d, va) ==
  IF d = dir /\ phase = "map"
  THEN Walk(mem, d, va) = IF va < Frontier THEN KernelEntry(va) ELSE NotPresent
  ELSE IF d = dir /\ phase = "tables"
  THEN /\ PteIndex(va) # 0 => Walk(mem, d, va) = KernelEntry(va)
       /\ ~Loaded(d)
  ELSE IF va # 0 \/ d = kpgdir \/ (d = dir /\ phase = "load")
  THEN Walk(mem, d, va) = KernelEntry(va)
  ELSE Loaded(d) \/ (d = dir /\ op = "fail" /\ Walk(mem, d, va) = KernelEntry(va))

Contents == \A d \in Dirs, va \in VPages : Expected(d, va)

(* The tables that destroy_address_space has left behind. *)
FreedTables ==
  phase = "tables" =>
    \A k \in DirWords : k < i /\ mem[dir][k] # NotPresent => mem[dir][k].pa \in free

ASInv ==
  /\ TypeOK /\ Shape /\ Processor /\ TaskDirs
  /\ OneUse /\ PageZero /\ Contents /\ FreedTables

USE AddressSpaceAssumption DEF NONE

-----------------------------------------------------------------------------
(* Virtual page numbers and the indices made from them.                    *)

(* Division with remainder. *)
LEMMA DivMod ==
  ASSUME NEW a \in Nat, NEW n \in Nat \ {0}
  PROVE  /\ a = n * (a \div n) + (a % n)
         /\ a \div n \in Nat /\ a % n \in 0 .. n - 1
  OBVIOUS

(* The quotient and the remainder determine a number, and there is only    *)
(* one way to choose them.                                                 *)
LEMMA DivModUnique ==
  ASSUME NEW n \in Nat \ {0}, NEW q \in Int, NEW s \in 0 .. n - 1,
         NEW q2 \in Int, NEW s2 \in 0 .. n - 1, n * q + s = n * q2 + s2
  PROVE  q = q2 /\ s = s2
<1>1. n * (q - q2) = s2 - s
  OBVIOUS
<1>2. ASSUME q - q2 >= 1 PROVE FALSE
  <2>1. n * (q - q2) >= n * 1
    BY <1>2
  <2> QED
    BY <1>1, <2>1
<1>3. ASSUME q - q2 <= -1 PROVE FALSE
  <2>1. n * (q - q2) <= n * (-1)
    BY <1>3
  <2> QED
    BY <1>1, <2>1
<1>4. q = q2
  BY <1>2, <1>3
<1> QED
  BY <1>4

(* The constants describe a machine with tables and directories. *)
LEMMA Sizes ==
  /\ PDE_SIZE \in Nat \ {0} /\ PTE_SIZE \in Nat \ {0} /\ VSPACE \in Nat \ {0}
  /\ LOW_PAGES \in Nat \ {0} /\ KERN_BASE \in Nat /\ MMDEV_BASE \in Nat
  /\ LOW_PAGES <= KERN_BASE /\ KERN_BASE < MMDEV_BASE /\ MMDEV_BASE < VSPACE
  /\ PDE_SIZE <= VSPACE
<1>1. /\ PDE_SIZE \in Nat /\ PTE_SIZE \in Nat /\ LOW_PAGES \in Nat \ {0} /\ KERN_BASE \in Nat
      /\ MMDEV_BASE \in Nat /\ LOW_PAGES <= KERN_BASE /\ KERN_BASE < MMDEV_BASE
      /\ MMDEV_BASE < VSPACE
  OBVIOUS
<1>2. VSPACE = PDE_SIZE * PTE_SIZE /\ VSPACE \in Nat
  BY <1>1 DEF VSPACE
<1>3. PDE_SIZE # 0 /\ PTE_SIZE # 0
  BY <1>1, <1>2
<1>4. PDE_SIZE * 1 <= PDE_SIZE * PTE_SIZE
  BY <1>1, <1>3
<1> QED
  BY <1>1, <1>2, <1>3, <1>4

(* A page of words is large enough for both kinds of entries. *)
LEMMA WordsCover == DirWords \subseteq Words /\ 0 .. PTE_SIZE - 1 \subseteq Words /\ 0 \in Words
<1>1. PDE_SIZE \in Nat \ {0} /\ PTE_SIZE \in Nat \ {0}
  BY Sizes
<1>2. \E x \in {PDE_SIZE, PTE_SIZE} : \A y \in {PDE_SIZE, PTE_SIZE} : x >= y
  BY <1>1
<1>3. /\ Max({PDE_SIZE, PTE_SIZE}) \in {PDE_SIZE, PTE_SIZE}
      /\ Max({PDE_SIZE, PTE_SIZE}) >= PDE_SIZE /\ Max({PDE_SIZE, PTE_SIZE}) >= PTE_SIZE
  BY <1>2 DEF Max
<1> QED
  BY <1>1, <1>3 DEF Words, DirWords

(* The two indices of a virtual page are within their tables. *)
LEMMA IndexTypes ==
  ASSUME NEW va \in VPages
  PROVE  /\ PdeIndex(va) \in DirWords /\ PdeIndex(va) = va \div PTE_SIZE
         /\ PteIndex(va) \in 0 .. PTE_SIZE - 1
         /\ PdeIndex(va) \in Words /\ PteIndex(va) \in Words
<1>1. /\ PDE_SIZE \in Nat \ {0} /\ PTE_SIZE \in Nat \ {0} /\ VSPACE \in Nat /\ va \in Nat
      /\ va < VSPACE
  BY Sizes DEF VPages
<1> DEFINE q == va \div PTE_SIZE
           s == va % PTE_SIZE
<1>2. va = PTE_SIZE * q + s /\ q \in Nat /\ s \in 0 .. PTE_SIZE - 1
  BY <1>1, DivMod
<1> HIDE DEF q, s
<1>3. q < PDE_SIZE
  <2> SUFFICES ASSUME q >= PDE_SIZE PROVE FALSE
    BY <1>1, <1>2
  <2>1. PTE_SIZE * q >= PTE_SIZE * PDE_SIZE
    BY <1>1, <1>2
  <2>2. VSPACE = PTE_SIZE * PDE_SIZE
    BY <1>1 DEF VSPACE
  <2> QED
    BY <1>1, <1>2, <2>1, <2>2
<1>4. q % PDE_SIZE = q
  BY <1>1, <1>2, <1>3
<1>5. PdeIndex(va) = q /\ PteIndex(va) = s
  BY <1>4 DEF PdeIndex, PteIndex, q, s
<1>6. q \in DirWords
  BY <1>1, <1>2, <1>3 DEF DirWords
<1> QED
  BY <1>2, <1>5, <1>6, WordsCover DEF q

(* They determine it. *)
LEMMA IndexUnique ==
  ASSUME NEW va \in VPages, NEW vb \in VPages,
         PdeIndex(va) = PdeIndex(vb), PteIndex(va) = PteIndex(vb)
  PROVE  va = vb
<1>1. PTE_SIZE \in Nat \ {0} /\ va \in Nat /\ vb \in Nat
  BY Sizes DEF VPages
<1>2. va = PTE_SIZE * (va \div PTE_SIZE) + (va % PTE_SIZE)
  BY <1>1, DivMod
<1>3. vb = PTE_SIZE * (vb \div PTE_SIZE) + (vb % PTE_SIZE)
  BY <1>1, DivMod
<1>4. va \div PTE_SIZE = vb \div PTE_SIZE /\ va % PTE_SIZE = vb % PTE_SIZE
  BY IndexTypes DEF PteIndex
<1> QED
  BY <1>2, <1>3, <1>4

(* A program's page is the first entry of the first table. *)
LEMMA IndexZero == 0 \in VPages /\ PdeIndex(0) = 0 /\ PteIndex(0) = 0 /\ 0 \in DirWords
<1>1. 0 \in VPages /\ 0 \in DirWords /\ PTE_SIZE \in Nat \ {0} /\ PDE_SIZE \in Nat \ {0}
  BY Sizes DEF VPages, DirWords
<1>2. 0 = PTE_SIZE * 0 + 0 /\ 0 \in 0 .. PTE_SIZE - 1
  BY <1>1
<1>3. 0 \div PTE_SIZE = 0 /\ 0 % PTE_SIZE = 0
  <2>1. /\ 0 = PTE_SIZE * (0 \div PTE_SIZE) + (0 % PTE_SIZE)
        /\ 0 \div PTE_SIZE \in Int /\ 0 % PTE_SIZE \in 0 .. PTE_SIZE - 1
    BY <1>1, DivMod
  <2> HIDE DEF NONE
  <2> QED
    BY <1>1, <1>2, <2>1, DivModUnique
<1> QED
  BY <1>1, <1>3, IndexTypes DEF PteIndex

(* The three regions of kernel_map follow each other, and what map_memory  *)
(* puts at a page of them is what the hardware must find there.            *)
LEMMA Regions ==
  /\ Len(kernel_map) = 3
  /\ kernel_map[1].va = 0 /\ kernel_map[1].size = LOW_PAGES
  /\ kernel_map[2].va = KERN_BASE /\ kernel_map[2].size = MMDEV_BASE - KERN_BASE
  /\ kernel_map[3].va = MMDEV_BASE /\ kernel_map[3].size = VSPACE - MMDEV_BASE
  /\ kernel_map[1].pa = 0 /\ kernel_map[2].pa = 0 /\ kernel_map[3].pa = MMDEV_BASE
  /\ \A q \in 1 .. 3 : kernel_map[q].us = FALSE
<1>1. (0 - MMDEV_BASE) % VSPACE = VSPACE - MMDEV_BASE
  <2>1. VSPACE \in Nat \ {0} /\ MMDEV_BASE \in Nat \ {0} /\ MMDEV_BASE < VSPACE
    BY Sizes
  <2> DEFINE q == (0 - MMDEV_BASE) \div VSPACE
             s == (0 - MMDEV_BASE) % VSPACE
  <2>2. 0 - MMDEV_BASE = VSPACE * q + s /\ q \in Int /\ s \in 0 .. VSPACE - 1
    BY <2>1
  <2>3. 0 - MMDEV_BASE = VSPACE * (-1) + (VSPACE - MMDEV_BASE)
        /\ VSPACE - MMDEV_BASE \in 0 .. VSPACE - 1 /\ -1 \in Int
    BY <2>1
  <2> HIDE DEF q, s
  <2>4. VSPACE * q + s = VSPACE * (-1) + (VSPACE - MMDEV_BASE)
    BY <2>2, <2>3
  <2>5. s = VSPACE - MMDEV_BASE
    BY <2>1, <2>2, <2>3, <2>4, DivModUnique
  <2> QED
    BY <2>5 DEF s
<1> QED
  BY <1>1 DEF kernel_map

(* What map_memory stores for page i of region r. *)
LEMMA RegionEntry ==
  ASSUME NEW q \in 1 .. 3, NEW j \in Nat, j < kernel_map[q].size
  PROVE  /\ kernel_map[q].va + j \in VPages
         /\ (kernel_map[q].va + j) % VSPACE = kernel_map[q].va + j
         /\ [pa |-> (kernel_map[q].pa + j) % VSPACE, us |-> kernel_map[q].us]
              = KernelEntry(kernel_map[q].va + j)
<1>1. /\ VSPACE \in Nat \ {0} /\ LOW_PAGES \in Nat /\ KERN_BASE \in Nat /\ MMDEV_BASE \in Nat
      /\ LOW_PAGES <= KERN_BASE /\ KERN_BASE < MMDEV_BASE /\ MMDEV_BASE < VSPACE
  BY Sizes
<1>2. \A x \in 0 .. VSPACE - 1 : x % VSPACE = x
  BY <1>1
<1> DEFINE va == kernel_map[q].va + j
           pa == kernel_map[q].pa + j
<1>3. /\ va \in 0 .. VSPACE - 1 /\ pa \in 0 .. VSPACE - 1
      /\ KernelEntry(va) = [pa |-> pa, us |-> FALSE]
  <2>1. CASE q = 1
    <3>1. va = j /\ pa = j /\ j < LOW_PAGES
      BY <2>1, Regions
    <3>2. va \in 0 .. VSPACE - 1 /\ pa \in 0 .. VSPACE - 1
      BY <1>1, <3>1
    <3> HIDE DEF va, pa
    <3>3. va \in 0 .. LOW_PAGES - 1 /\ va = pa
      BY <1>1, <3>1
    <3>4. KernelEntry(va) = [pa |-> pa, us |-> FALSE]
      BY <3>3 DEF KernelEntry
    <3> QED
      BY <3>2, <3>4
  <2>2. CASE q = 2
    <3>1. va = KERN_BASE + j /\ pa = j /\ j < MMDEV_BASE - KERN_BASE
      BY <2>2, Regions
    <3>2. va \in 0 .. VSPACE - 1 /\ pa \in 0 .. VSPACE - 1
      BY <1>1, <3>1
    <3> HIDE DEF va, pa
    <3>3. va \notin 0 .. LOW_PAGES - 1 /\ va \in KERN_BASE .. MMDEV_BASE - 1 /\ va - KERN_BASE = pa
      BY <1>1, <3>1
    <3>4. KernelEntry(va) = [pa |-> pa, us |-> FALSE]
      BY <3>3 DEF KernelEntry
    <3> QED
      BY <3>2, <3>4
  <2>3. CASE q = 3
    <3>1. va = MMDEV_BASE + j /\ pa = MMDEV_BASE + j /\ j < VSPACE - MMDEV_BASE
      BY <2>3, Regions
    <3>2. va \in 0 .. VSPACE - 1 /\ pa \in 0 .. VSPACE - 1
      BY <1>1, <3>1
    <3> HIDE DEF va, pa
    <3>3. /\ va \notin 0 .. LOW_PAGES - 1 /\ va \notin KERN_BASE .. MMDEV_BASE - 1
          /\ va >= MMDEV_BASE /\ va = pa
      BY <1>1, <3>1
    <3>4. KernelEntry(va) = [pa |-> pa, us |-> FALSE]
      BY <3>3 DEF KernelEntry
    <3> QED
      BY <3>2, <3>4
  <2> QED
    BY <2>1, <2>2, <2>3
<1>4. kernel_map[q].us = FALSE
  BY Regions
<1> QED
  BY <1>2, <1>3, <1>4 DEF VPages

(* What follows a region is unmapped up to the next one. *)
LEMMA NextRegion ==
  ASSUME NEW q \in 1 .. 2, NEW va \in VPages, va >= kernel_map[q].va + kernel_map[q].size,
         va < kernel_map[q + 1].va
  PROVE  KernelEntry(va) = NotPresent
<1>1. /\ VSPACE \in Nat \ {0} /\ LOW_PAGES \in Nat /\ KERN_BASE \in Nat /\ MMDEV_BASE \in Nat
      /\ LOW_PAGES <= KERN_BASE /\ KERN_BASE < MMDEV_BASE /\ MMDEV_BASE < VSPACE
      /\ va \in Nat
  BY Sizes DEF VPages
<1>2. va >= LOW_PAGES /\ va < KERN_BASE
  BY <1>1, Regions
<1> QED
  BY <1>1, <1>2 DEF KernelEntry

(* Entries of the kernel map are not for programs. *)
LEMMA KernelEntryIs ==
  /\ \A va \in VPages : KernelEntry(va) \in Entry /\ KernelEntry(va).us = FALSE
  /\ KernelEntry(0) = [pa |-> 0, us |-> FALSE] /\ KernelEntry(0) # NotPresent
  /\ \A p \in Page : /\ KERN_BASE + p \in VPages /\ KERN_BASE + p # 0
                     /\ KernelEntry(KERN_BASE + p) = [pa |-> p, us |-> FALSE]
<1>1. /\ VSPACE \in Nat \ {0} /\ LOW_PAGES \in Nat \ {0} /\ KERN_BASE \in Nat
      /\ MMDEV_BASE \in Nat
      /\ LOW_PAGES <= KERN_BASE /\ KERN_BASE < MMDEV_BASE /\ MMDEV_BASE < VSPACE
  BY Sizes
<1>2. \A va \in VPages : KernelEntry(va) \in Entry /\ KernelEntry(va).us = FALSE
  BY <1>1 DEF KernelEntry, Entry, VPages, NotPresent
<1>3. KernelEntry(0) = [pa |-> 0, us |-> FALSE] /\ KernelEntry(0) # NotPresent
  BY <1>1 DEF KernelEntry, NotPresent
<1>4. ASSUME NEW p \in Page
      PROVE  /\ KERN_BASE + p \in VPages /\ KERN_BASE + p # 0
             /\ KernelEntry(KERN_BASE + p) = [pa |-> p, us |-> FALSE]
  <2>1. p \in Nat /\ p < MMDEV_BASE - KERN_BASE
    BY <1>1 DEF Page
  <2>2. /\ KERN_BASE + p \notin 0 .. LOW_PAGES - 1 /\ KERN_BASE + p \in KERN_BASE .. MMDEV_BASE - 1
        /\ KERN_BASE + p - KERN_BASE = p
    BY <1>1, <2>1
  <2> QED
    BY <1>1, <2>1, <2>2 DEF KernelEntry, VPages
<1> QED
  BY <1>2, <1>3, <1>4

-----------------------------------------------------------------------------
(* Uses of pages.                                                          *)

(* Another use. *)
LEMMA ImageAdd ==
  ASSUME NEW f, NEW g, NEW x, x \notin DOMAIN f, DOMAIN g = DOMAIN f \cup {x},
         \A y \in DOMAIN f : g[y] = f[y]
  PROVE  /\ Image(g) = Image(f) \cup {g[x]}
         /\ Injective(f) /\ g[x] \notin Image(f) => Injective(g)
  BY DEF Image, Injective

(* One use less. *)
LEMMA ImageDrop ==
  ASSUME NEW f, NEW g, NEW x, x \in DOMAIN f, DOMAIN g = DOMAIN f \ {x},
         \A y \in DOMAIN g : g[y] = f[y], Injective(f)
  PROVE  Image(g) = Image(f) \ {f[x]} /\ Injective(g) /\ f[x] \in Image(f)
  BY DEF Image, Injective

(* A free page becomes a directory. *)
LEMMA AddDir ==
  ASSUME NEW D, NEW tp, NEW up, NEW sp, NEW F, Layout(D, tp, up, sp, F), NEW a \in F
  PROVE  Layout(D \cup {a}, tp, up, sp, F \ {a})
  BY DEF Layout

(* A free page becomes a table. *)
LEMMA AddTable ==
  ASSUME NEW D, NEW tp, NEW up, NEW sp, NEW F, Layout(D, tp, up, sp, F),
         NEW g, NEW x, x \notin DOMAIN tp, DOMAIN g = DOMAIN tp \cup {x}, g[x] \in F,
         \A y \in DOMAIN tp : g[y] = tp[y]
  PROVE  Layout(D, g, up, sp, F \ {g[x]})
<1>1. Image(g) = Image(tp) \cup {g[x]} /\ Injective(g)
  <2>1. g[x] \notin Image(tp) /\ Injective(tp)
    BY DEF Layout
  <2> QED
    BY <2>1, ImageAdd
<1> QED
  BY <1>1 DEF Layout

(* A free page becomes a user page. *)
LEMMA AddUser ==
  ASSUME NEW D, NEW tp, NEW up, NEW sp, NEW F, Layout(D, tp, up, sp, F),
         NEW g, NEW x, x \notin DOMAIN up, DOMAIN g = DOMAIN up \cup {x}, g[x] \in F,
         \A y \in DOMAIN up : g[y] = up[y]
  PROVE  Layout(D, tp, g, sp, F \ {g[x]})
<1>1. Image(g) = Image(up) \cup {g[x]} /\ Injective(g)
  <2>1. g[x] \notin Image(up) /\ Injective(up)
    BY DEF Layout
  <2> QED
    BY <2>1, ImageAdd
<1> QED
  BY <1>1 DEF Layout

(* A free page becomes a kernel stack. *)
LEMMA AddStack ==
  ASSUME NEW D, NEW tp, NEW up, NEW sp, NEW F, Layout(D, tp, up, sp, F),
         NEW g, NEW x, x \notin DOMAIN sp, DOMAIN g = DOMAIN sp \cup {x}, g[x] \in F,
         \A y \in DOMAIN sp : g[y] = sp[y]
  PROVE  Layout(D, tp, up, g, F \ {g[x]})
<1>1. Image(g) = Image(sp) \cup {g[x]} /\ Injective(g)
  <2>1. g[x] \notin Image(sp) /\ Injective(sp)
    BY DEF Layout
  <2> QED
    BY <2>1, ImageAdd
<1> QED
  BY <1>1 DEF Layout

(* A directory is freed. *)
LEMMA DropDir ==
  ASSUME NEW D, NEW tp, NEW up, NEW sp, NEW F, Layout(D, tp, up, sp, F), NEW a \in D
  PROVE  Layout(D \ {a}, tp, up, sp, F \cup {a})
  BY DEF Layout

(* A table is freed. *)
LEMMA DropTable ==
  ASSUME NEW D, NEW tp, NEW up, NEW sp, NEW F, Layout(D, tp, up, sp, F),
         NEW g, NEW x, x \in DOMAIN tp, DOMAIN g = DOMAIN tp \ {x},
         \A y \in DOMAIN g : g[y] = tp[y]
  PROVE  Layout(D, g, up, sp, F \cup {tp[x]})
<1>1. Image(g) = Image(tp) \ {tp[x]} /\ Injective(g) /\ tp[x] \in Image(tp)
  BY ImageDrop DEF Layout
<1> QED
  BY <1>1 DEF Layout

(* A user page is freed. *)
LEMMA DropUser ==
  ASSUME NEW D, NEW tp, NEW up, NEW sp, NEW F, Layout(D, tp, up, sp, F),
         NEW g, NEW x, x \in DOMAIN up, DOMAIN g = DOMAIN up \ {x},
         \A y \in DOMAIN g : g[y] = up[y]
  PROVE  Layout(D, tp, g, sp, F \cup {up[x]})
<1>1. Image(g) = Image(up) \ {up[x]} /\ Injective(g) /\ up[x] \in Image(up)
  BY ImageDrop DEF Layout
<1> QED
  BY <1>1 DEF Layout

(* A kernel stack is freed. *)
LEMMA DropStack ==
  ASSUME NEW D, NEW tp, NEW up, NEW sp, NEW F, Layout(D, tp, up, sp, F),
         NEW g, NEW x, x \in DOMAIN sp, DOMAIN g = DOMAIN sp \ {x},
         \A y \in DOMAIN g : g[y] = sp[y]
  PROVE  Layout(D, tp, up, g, F \cup {sp[x]})
<1>1. Image(g) = Image(sp) \ {sp[x]} /\ Injective(g) /\ sp[x] \in Image(sp)
  BY ImageDrop DEF Layout
<1> QED
  BY <1>1 DEF Layout

-----------------------------------------------------------------------------
(* What a write to memory leaves alone.                                    *)

MemType == [Page -> [Words -> Entry]]

(* The tables of the directories in D, in memory m. *)
TablesIn(m, D) == {h \in D \X DirWords : m[h[1]][h[2]] # NotPresent}

TablePagesIn(m, D) == [h \in TablesIn(m, D) |-> m[h[1]][h[2]].pa]

(* The pages of an address space are pages of memory, apart from each      *)
(* other, and not free.                                                    *)
LEMMA LayoutPages ==
  ASSUME NEW D, NEW tp, NEW up, NEW sp, NEW F, Layout(D, tp, up, sp, F)
  PROVE  /\ D \subseteq Page /\ F \subseteq Page /\ Image(tp) \subseteq Page
         /\ Image(up) \subseteq Page /\ Image(sp) \subseteq Page
<1>1. Pool \cup {0} \subseteq Page
  <2>1. /\ KERNEL_PAGES \in Nat /\ MMDEV_BASE - KERN_BASE \in Nat /\ 0 < MMDEV_BASE - KERN_BASE
    OBVIOUS
  <2> QED
    BY <2>1 DEF Pool, Page
<1> QED
  BY <1>1 DEF Layout

(* The directory d and its tables are the same in m2 as in m. *)
Untouched(m, m2, d) ==
  /\ m2[d] = m[d]
  /\ \A k \in DirWords : m[d][k] # NotPresent => m2[m[d][k].pa] = m[m[d][k].pa]

(* They are but for the first words of the tables. *)
UntouchedButFirst(m, m2, d) ==
  /\ m2[d] = m[d]
  /\ \A k \in DirWords : m[d][k] # NotPresent =>
       \A w \in Words : w # 0 => m2[m[d][k].pa][w] = m[m[d][k].pa][w]

(* A directory whose own page and whose tables are not written is walked   *)
(* as before.                                                              *)
LEMMA WalkSame ==
  ASSUME NEW m, NEW m2, NEW d, Untouched(m, m2, d)
  PROVE  \A va \in VPages : Walk(m2, d, va) = Walk(m, d, va)
<1> SUFFICES ASSUME NEW va \in VPages PROVE Walk(m2, d, va) = Walk(m, d, va)
  OBVIOUS
<1>1. PdeIndex(va) \in DirWords
  BY IndexTypes
<1> QED
  BY <1>1 DEF Walk, Untouched

(* The same if only first words of tables are written, but for the pages   *)
(* that are found through a first word.                                    *)
LEMMA WalkSameButFirst ==
  ASSUME NEW m, NEW m2, NEW d, UntouchedButFirst(m, m2, d)
  PROVE  \A va \in VPages : PteIndex(va) # 0 => Walk(m2, d, va) = Walk(m, d, va)
<1> SUFFICES ASSUME NEW va \in VPages, PteIndex(va) # 0 PROVE Walk(m2, d, va) = Walk(m, d, va)
  OBVIOUS
<1>1. PdeIndex(va) \in DirWords /\ PteIndex(va) \in Words
  BY IndexTypes
<1> QED
  BY <1>1 DEF Walk, UntouchedButFirst

(* What an entry of a directory in use is. *)
LEMMA WalkType ==
  ASSUME NEW m \in MemType, NEW d \in Page,
         \A k \in DirWords : m[d][k] # NotPresent => m[d][k].pa \in Page
  PROVE  \A va \in VPages : Walk(m, d, va) \in Entry
<1> SUFFICES ASSUME NEW va \in VPages PROVE Walk(m, d, va) \in Entry
  OBVIOUS
<1>1. PdeIndex(va) \in DirWords /\ PteIndex(va) \in Words
  BY IndexTypes
<1>2. NotPresent \in Entry
  BY DEF Entry
<1> QED
  BY <1>1, <1>2 DEF Walk, MemType

(* If neither directories nor tables are written, all tables and user      *)
(* pages stay what they are.                                               *)
LEMMA FrameTables ==
  ASSUME NEW m, NEW m2, NEW D, \A d \in D : m2[d] = m[d]
  PROVE  TablesIn(m2, D) = TablesIn(m, D) /\ TablePagesIn(m2, D) = TablePagesIn(m, D)
<1>1. TablesIn(m2, D) = TablesIn(m, D)
  BY DEF TablesIn
<1>2. \A h \in TablesIn(m, D) : m2[h[1]][h[2]].pa = m[h[1]][h[2]].pa
  BY DEF TablesIn
<1> QED
  BY <1>1, <1>2 DEF TablePagesIn

(* The table of a directory is where the uses of pages have it. *)
LEMMA TablePageIs ==
  ASSUME NEW m, NEW D, NEW d \in D, NEW k \in DirWords, m[d][k] # NotPresent
  PROVE  /\ <<d, k>> \in TablesIn(m, D) /\ TablePagesIn(m, D)[<<d, k>>] = m[d][k].pa
         /\ m[d][k].pa \in Image(TablePagesIn(m, D))
<1>1. <<d, k>> \in TablesIn(m, D)
  BY DEF TablesIn
<1>2. DOMAIN TablePagesIn(m, D) = TablesIn(m, D) /\ TablePagesIn(m, D)[<<d, k>>] = m[d][k].pa
  BY <1>1 DEF TablePagesIn
<1> QED
  BY <1>1, <1>2 DEF Image

(* Two entries of directories do not lead to the same table. *)
LEMMA TablesApart ==
  ASSUME NEW m, NEW D, Injective(TablePagesIn(m, D)),
         NEW d \in D, NEW k \in DirWords, m[d][k] # NotPresent,
         NEW e \in D, NEW l \in DirWords, m[e][l] # NotPresent, m[d][k].pa = m[e][l].pa
  PROVE  d = e /\ k = l
<1>1. <<d, k>> \in TablesIn(m, D) /\ <<e, l>> \in TablesIn(m, D)
  BY DEF TablesIn
<1>2. /\ DOMAIN TablePagesIn(m, D) = TablesIn(m, D)
      /\ TablePagesIn(m, D)[<<d, k>>] = m[d][k].pa /\ TablePagesIn(m, D)[<<e, l>>] = m[e][l].pa
  BY <1>1 DEF TablePagesIn
<1>3. <<d, k>> = <<e, l>>
  BY <1>1, <1>2 DEF Injective
<1> QED
  BY <1>3

(* From m to m2 one entry of the directory e has changed, for va, and no   *)
(* other directory in D.                                                   *)
Mapped(m, m2, D, e, va, entry) ==
  /\ m2 \in MemType
  /\ \A d \in D \ {e} : m2[d] = m[d]
  /\ \A d \in D \ {e}, vb \in VPages : Walk(m2, d, vb) = Walk(m, d, vb)
  /\ \A vb \in VPages : Walk(m2, e, vb) = IF vb = va THEN entry ELSE Walk(m, e, vb)

(* What map_page makes of m, with a table that exists and with a new one. *)
WithEntry(m, e, va, entry) == [m EXCEPT ![m[e][PdeIndex(va)].pa][PteIndex(va)] = entry]

WithTable(m, e, va, entry, t) ==
  [m EXCEPT ![t] = [Zeroed EXCEPT ![PteIndex(va)] = entry],
            ![e][PdeIndex(va)] = [pa |-> t, us |-> TRUE]]

(* map_page with a table that exists. *)
LEMMA MapInTable ==
  ASSUME NEW m \in MemType, NEW F, NEW D, NEW up, NEW sp,
         Layout(D, TablePagesIn(m, D), up, sp, F), NEW e \in D,
         NEW va \in VPages, NEW entry \in Entry, m[e][PdeIndex(va)] # NotPresent,
         NEW m2, m2 = WithEntry(m, e, va, entry)
  PROVE  Mapped(m, m2, D, e, va, entry) /\ m2[e] = m[e]
<1> DEFINE T == m[e][PdeIndex(va)].pa
<1>1. PdeIndex(va) \in DirWords /\ PteIndex(va) \in Words
  BY IndexTypes
<1>2. T \in Image(TablePagesIn(m, D)) /\ T \in Page /\ T \notin D
  <2>1. T \in Image(TablePagesIn(m, D))
    BY <1>1, TablePageIs
  <2>2. Image(TablePagesIn(m, D)) \subseteq Page /\ D \cap Image(TablePagesIn(m, D)) = {}
    BY LayoutPages DEF Layout
  <2> QED
    BY <2>1, <2>2
<1>3. Injective(TablePagesIn(m, D))
  BY DEF Layout
<1>a. D \subseteq Page
  BY LayoutPages
<1>4. m2 = [m EXCEPT ![T][PteIndex(va)] = entry]
  BY DEF WithEntry
<1>5. \A d \in D, k \in DirWords :
        m[d][k] # NotPresent /\ m[d][k].pa = T => d = e /\ k = PdeIndex(va)
  BY <1>1, <1>3, TablesApart
<1> HIDE DEF T
<1>6. m2 \in MemType
  <2>1. m[T] \in [Words -> Entry]
    BY <1>2 DEF MemType
  <2>2. [m[T] EXCEPT ![PteIndex(va)] = entry] \in [Words -> Entry]
    BY <1>1, <2>1
  <2>3. m2 = [m EXCEPT ![T] = [m[T] EXCEPT ![PteIndex(va)] = entry]]
    BY <1>2, <1>4 DEF MemType
  <2> QED
    BY <1>2, <2>2, <2>3 DEF MemType
<1>7. \A p \in Page : p # T => m2[p] = m[p]
  BY <1>4 DEF MemType
<1>8. m2[T] = [m[T] EXCEPT ![PteIndex(va)] = entry]
  BY <1>2, <1>4 DEF MemType
<1>9. \A d \in D : m2[d] = m[d]
  BY <1>2, <1>7, <1>a
<1>10. ASSUME NEW d \in D, NEW k \in DirWords, m[d][k] # NotPresent
       PROVE  m[d][k].pa \in Page
  <2>1. m[d][k].pa \in Image(TablePagesIn(m, D))
    BY <1>10, TablePageIs
  <2> QED
    BY <2>1, LayoutPages
<1>11. ASSUME NEW d \in D \ {e}, NEW vb \in VPages
       PROVE  Walk(m2, d, vb) = Walk(m, d, vb)
  <2>1. Untouched(m, m2, d)
    BY <1>5, <1>7, <1>9, <1>10 DEF Untouched
  <2> QED
    BY <2>1, WalkSame
<1>12. ASSUME NEW vb \in VPages
       PROVE  Walk(m2, e, vb) = IF vb = va THEN entry ELSE Walk(m, e, vb)
  <2>1. PdeIndex(vb) \in DirWords /\ PteIndex(vb) \in Words
    BY IndexTypes
  <2>2. m2[e] = m[e]
    BY <1>9
  <2>3. CASE vb = va
    <3>1. Walk(m2, e, vb) = m2[T][PteIndex(va)]
      BY <2>2, <2>3 DEF Walk, T
    <3>2. m2[T][PteIndex(va)] = entry
      BY <1>1, <1>2, <1>8 DEF MemType
    <3> QED
      BY <2>3, <3>1, <3>2
  <2>4. CASE vb # va /\ m[e][PdeIndex(vb)] = NotPresent
    BY <2>2, <2>4 DEF Walk
  <2>5. CASE vb # va /\ m[e][PdeIndex(vb)] # NotPresent /\ PdeIndex(vb) # PdeIndex(va)
    <3>1. m[e][PdeIndex(vb)].pa \in Page /\ m[e][PdeIndex(vb)].pa # T
      BY <1>5, <1>10, <2>1, <2>5
    <3> QED
      BY <1>7, <2>2, <2>5, <3>1 DEF Walk
  <2>6. CASE vb # va /\ m[e][PdeIndex(vb)] # NotPresent /\ PdeIndex(vb) = PdeIndex(va)
    <3>1. PteIndex(vb) # PteIndex(va)
      BY <2>6, IndexUnique
    <3>2. Walk(m2, e, vb) = m2[T][PteIndex(vb)] /\ Walk(m, e, vb) = m[T][PteIndex(vb)]
      BY <2>2, <2>6 DEF Walk, T
    <3>3. m2[T][PteIndex(vb)] = m[T][PteIndex(vb)]
      BY <1>2, <1>8, <2>1, <3>1 DEF MemType
    <3> QED
      BY <2>6, <3>2, <3>3
  <2> QED
    BY <2>3, <2>4, <2>5, <2>6
<1> QED
  BY <1>6, <1>9, <1>11, <1>12 DEF Mapped

(* map_page with a new table. *)
LEMMA MapNewTable ==
  ASSUME NEW m \in MemType, NEW F, NEW D, NEW up, NEW sp,
         Layout(D, TablePagesIn(m, D), up, sp, F), NEW e \in D,
         NEW va \in VPages, NEW entry \in Entry, m[e][PdeIndex(va)] = NotPresent,
         NEW t \in F, NEW m2, m2 = WithTable(m, e, va, entry, t)
  PROVE  /\ Mapped(m, m2, D, e, va, entry)
         /\ m2[e] = [m[e] EXCEPT ![PdeIndex(va)] = [pa |-> t, us |-> TRUE]]
<1> DEFINE row == [Zeroed EXCEPT ![PteIndex(va)] = entry]
           top == [m[e] EXCEPT ![PdeIndex(va)] = [pa |-> t, us |-> TRUE]]
<1>1. PdeIndex(va) \in DirWords /\ PteIndex(va) \in Words /\ PdeIndex(va) \in Words
  BY IndexTypes
<1>2. /\ D \subseteq Page /\ t \in Page /\ e \in Page /\ t \notin D /\ t # e
      /\ t \notin Image(TablePagesIn(m, D)) /\ Image(TablePagesIn(m, D)) \subseteq Page
      /\ D \cap Image(TablePagesIn(m, D)) = {}
  BY LayoutPages DEF Layout
<1>3. NotPresent \in Entry /\ [pa |-> t, us |-> TRUE] \in Entry /\ [pa |-> t, us |-> TRUE] # NotPresent
  <2>1. t \in 0 .. VSPACE - 1
    BY <1>2, Sizes DEF Page
  <2> QED
    BY <2>1 DEF Entry, NotPresent
<1>4. /\ row \in [Words -> Entry] /\ row[PteIndex(va)] = entry
      /\ \A w \in Words : w # PteIndex(va) => row[w] = NotPresent
  BY <1>1, <1>3 DEF Zeroed
<1>5. /\ top \in [Words -> Entry] /\ top[PdeIndex(va)] = [pa |-> t, us |-> TRUE]
      /\ \A w \in Words : w # PdeIndex(va) => top[w] = m[e][w]
  <2>1. m[e] \in [Words -> Entry]
    BY <1>2 DEF MemType
  <2> QED
    BY <1>1, <1>3, <2>1
<1>6. m2 = [m EXCEPT ![t] = row, ![e] = top]
  BY <1>2 DEF MemType, WithTable
<1>7. m2[e] = top /\ m2[t] = row /\ \A p \in Page : p # t /\ p # e => m2[p] = m[p]
  BY <1>2, <1>6 DEF MemType
<1>8. m2 \in MemType
  BY <1>2, <1>4, <1>5, <1>6 DEF MemType
<1>9. m2[e] = [m[e] EXCEPT ![PdeIndex(va)] = [pa |-> t, us |-> TRUE]]
  BY <1>7
<1> HIDE DEF row, top
<1>10. \A d \in D \ {e} : m2[d] = m[d]
  BY <1>2, <1>7
<1>11. ASSUME NEW d \in D, NEW k \in DirWords, m[d][k] # NotPresent
       PROVE  m[d][k].pa \in Page /\ m[d][k].pa # t /\ m[d][k].pa # e
  <2>1. m[d][k].pa \in Image(TablePagesIn(m, D))
    BY <1>11, TablePageIs
  <2> QED
    BY <1>2, <2>1
<1>12. ASSUME NEW d \in D \ {e}, NEW vb \in VPages
       PROVE  Walk(m2, d, vb) = Walk(m, d, vb)
  <2>1. Untouched(m, m2, d)
    BY <1>7, <1>10, <1>11 DEF Untouched
  <2> QED
    BY <2>1, WalkSame
<1>13. ASSUME NEW vb \in VPages
       PROVE  Walk(m2, e, vb) = IF vb = va THEN entry ELSE Walk(m, e, vb)
  <2>1. PdeIndex(vb) \in DirWords /\ PteIndex(vb) \in Words /\ PdeIndex(vb) \in Words
    BY IndexTypes
  <2>2. CASE PdeIndex(vb) = PdeIndex(va)
    <3>1. Walk(m2, e, vb) = row[PteIndex(vb)]
      <4>1. m2[e][PdeIndex(vb)] = [pa |-> t, us |-> TRUE]
        BY <1>5, <1>7, <2>2
      <4>2. m2[e][PdeIndex(vb)] # NotPresent /\ m2[e][PdeIndex(vb)].pa = t
        BY <1>3, <4>1
      <4> QED
        BY <1>7, <4>2 DEF Walk
    <3>2. Walk(m, e, vb) = NotPresent
      BY <2>2 DEF Walk
    <3>3. vb # va => PteIndex(vb) # PteIndex(va)
      BY <2>2, IndexUnique
    <3> QED
      BY <1>4, <2>1, <3>1, <3>2, <3>3
  <2>3. CASE PdeIndex(vb) # PdeIndex(va)
    <3>1. m2[e][PdeIndex(vb)] = m[e][PdeIndex(vb)] /\ vb # va
      BY <1>5, <1>7, <2>1, <2>3
    <3>2. CASE m[e][PdeIndex(vb)] = NotPresent
      BY <3>1, <3>2 DEF Walk
    <3>3. CASE m[e][PdeIndex(vb)] # NotPresent
      <4>1. m2[m[e][PdeIndex(vb)].pa] = m[m[e][PdeIndex(vb)].pa]
        BY <1>7, <1>11, <2>1, <3>3
      <4>2. Walk(m2, e, vb) = Walk(m, e, vb)
        BY <3>1, <3>3, <4>1 DEF Walk
      <4> QED
        BY <3>1, <4>2
    <3> QED
      BY <3>1, <3>2, <3>3
  <2> QED
    BY <2>2, <2>3
<1> QED
  BY <1>8, <1>9, <1>10, <1>12, <1>13 DEF Mapped

(* map_page writes one entry of one address space, and a page that becomes *)
(* a table was free.                                                       *)
LEMMA MapPage ==
  ASSUME NEW m \in MemType, NEW F, NEW D, NEW up, NEW sp,
         Layout(D, TablePagesIn(m, D), up, sp, F), dir \in D,
         NEW va \in VPages, NEW entry \in Entry, map_page(m, F, va, entry)
  PROVE  /\ Mapped(m, mem', D, dir, va, entry)
         /\ Layout(D, TablePagesIn(mem', D), up, sp, free')
         /\ free' \subseteq F
         /\ Image(TablePagesIn(mem', D)) \subseteq Image(TablePagesIn(m, D)) \cup F
<1>1. CASE m[dir][PdeIndex(va)] # NotPresent
  <2>1. mem' = WithEntry(m, dir, va, entry) /\ free' = F
    BY <1>1 DEF map_page, WithEntry
  <2>2. Mapped(m, mem', D, dir, va, entry) /\ mem'[dir] = m[dir]
    BY <1>1, <2>1, MapInTable
  <2>3. TablePagesIn(mem', D) = TablePagesIn(m, D)
    <3>1. \A d \in D : mem'[d] = m[d]
      BY <2>2 DEF Mapped
    <3> QED
      BY <3>1, FrameTables
  <2> QED
    BY <2>1, <2>2, <2>3
<1>2. CASE m[dir][PdeIndex(va)] = NotPresent
  <2>1. PICK t \in F : mem' = WithTable(m, dir, va, entry, t) /\ free' = F \ {t}
    BY <1>2 DEF map_page, WithTable
  <2>2. /\ Mapped(m, mem', D, dir, va, entry)
        /\ mem'[dir] = [m[dir] EXCEPT ![PdeIndex(va)] = [pa |-> t, us |-> TRUE]]
    BY <1>2, <2>1, MapNewTable
  <2> DEFINE x == <<dir, PdeIndex(va)>>
  <2>3. /\ PdeIndex(va) \in DirWords /\ DirWords \subseteq Words /\ dir \in Page
        /\ m[dir] \in [Words -> Entry] /\ [pa |-> t, us |-> TRUE] # NotPresent
    <3>1. t \in Nat /\ D \subseteq Page
      BY LayoutPages DEF Page
    <3> QED
      BY <3>1, IndexTypes, WordsCover DEF MemType, NotPresent
  <2>4. /\ mem'[dir][PdeIndex(va)] = [pa |-> t, us |-> TRUE]
        /\ \A k \in DirWords : k # PdeIndex(va) => mem'[dir][k] = m[dir][k]
    BY <2>2, <2>3
  <2>5. \A d \in D, k \in DirWords : <<d, k>> # x => mem'[d][k] = m[d][k]
    BY <2>2, <2>4 DEF Mapped
  <2>6. x \notin TablesIn(m, D) /\ x \in D \X DirWords
    BY <1>2, <2>3 DEF TablesIn
  <2>7. TablesIn(mem', D) = TablesIn(m, D) \cup {x}
    BY <2>3, <2>4, <2>5, <2>6 DEF TablesIn
  <2>8. TablePagesIn(mem', D)[x] = t
    BY <2>4, <2>7 DEF TablePagesIn
  <2>9. \A h \in TablesIn(m, D) : TablePagesIn(mem', D)[h] = TablePagesIn(m, D)[h]
    BY <2>5, <2>6, <2>7 DEF TablesIn, TablePagesIn
  <2>10. /\ DOMAIN TablePagesIn(mem', D) = TablesIn(mem', D)
         /\ DOMAIN TablePagesIn(m, D) = TablesIn(m, D)
    BY DEF TablePagesIn
  <2> HIDE DEF x
  <2>11. Layout(D, TablePagesIn(mem', D), up, sp, F \ {t})
    BY <2>6, <2>7, <2>8, <2>9, <2>10, AddTable
  <2>12. Image(TablePagesIn(mem', D)) \subseteq Image(TablePagesIn(m, D)) \cup F
    BY <2>7, <2>8, <2>9, <2>10 DEF Image
  <2> QED
    BY <2>1, <2>2, <2>11, <2>12
<1> QED
  BY <1>1, <1>2

-----------------------------------------------------------------------------
(* Which handler is where, whose directories there are.                    *)

(* The types of all but the memory. *)
ScalarTypes ==
  /\ {kpgdir, cr3, dir, old} \subseteq Page \cup {NONE}
  /\ pgdir \in [Procs -> Page \cup {NONE}] /\ kstack \in [Procs -> Page \cup {NONE}]
  /\ {cur, who} \subseteq Procs \cup {NONE}
  /\ op \in {"none", "boot", "fork", "execv", "fail", "reap"}
  /\ phase \in {"idle", "dir", "map", "load", "args", "unmap", "tables"}
  /\ r \in 1 .. 3 /\ i \in 0 .. VSPACE
  /\ ncalls \in 0 .. MAX_CALLS /\ nfailed \in 0 .. MAX_FAILED
  /\ panicked \in {0, 1}

Book == ScalarTypes /\ Shape /\ Processor /\ TaskDirs

(* TypeOK in two parts. *)
LEMMA TypeParts ==
  /\ TypeOK <=> mem \in MemType /\ free \subseteq Page /\ ScalarTypes
  /\ TypeOK' <=> mem' \in MemType /\ free' \subseteq Page /\ ScalarTypes'
  BY Regions DEF TypeOK, ScalarTypes, MemType

(* A page is not NONE. *)
LEMMA PageIs == NONE \notin Page /\ \A p \in Page : p \in Nat
  BY DEF Page

(* Starting fork. *)
LEMMA ForkBook ==
  ASSUME Book, free \subseteq Page, fork
  PROVE  Book' /\ Dirs' = Dirs
<1> USE PageIs
<1>1. PICK p \in Procs, k \in free :
        /\ phase = "idle" /\ ncalls' = ncalls + 1 /\ ncalls < MAX_CALLS
        /\ pgdir[p] = NONE /\ kstack' = [kstack EXCEPT ![p] = k]
        /\ op' = "fork" /\ phase' = "dir" /\ who' = p
        /\ UNCHANGED <<kpgdir, pgdir, cr3, cur, dir, old, r, i, nfailed, panicked>>
  BY DEF fork
<1> HIDE DEF NONE
<1>2. ScalarTypes'
  BY <1>1 DEF Book, ScalarTypes
<1>3. Shape'
  BY <1>1 DEF Book, Shape, ScalarTypes
<1>4. Processor'
  BY <1>1 DEF Book, Shape, Processor
<1>5. TaskDirs'
  BY <1>1 DEF Book, Shape, Processor, TaskDirs, ScalarTypes
<1>6. Dirs' = Dirs
  BY <1>1 DEF Dirs
<1> QED
  BY <1>2, <1>3, <1>4, <1>5, <1>6 DEF Book

(* Starting execv. *)
LEMMA ExecvBook ==
  ASSUME Book, execv
  PROVE  Book' /\ Dirs' = Dirs
<1> USE PageIs
<1>1. /\ phase = "idle" /\ ncalls' = ncalls + 1 /\ ncalls < MAX_CALLS /\ cur # NONE
      /\ op' = "execv" /\ phase' = "dir" /\ who' = cur /\ old' = pgdir[cur]
      /\ UNCHANGED <<kpgdir, pgdir, kstack, cr3, cur, dir, r, i, nfailed, panicked>>
  BY DEF execv
<1> HIDE DEF NONE
<1>2. ScalarTypes'
  BY <1>1 DEF Book, ScalarTypes
<1>3. Shape'
  BY <1>1 DEF Book, Shape, ScalarTypes, Processor
<1>4. Processor'
  BY <1>1 DEF Book, Shape, Processor
<1>5. TaskDirs'
  BY <1>1 DEF Book, Shape, Processor, TaskDirs, ScalarTypes
<1>6. Dirs' = Dirs
  BY <1>1 DEF Book, Shape, Dirs, ScalarTypes
<1> QED
  BY <1>2, <1>3, <1>4, <1>5, <1>6 DEF Book

(* map_kernel takes a page for the directory. *)
LEMMA KernelBook ==
  ASSUME Book, free \subseteq Page, free \cap Dirs = {}, map_kernel
  PROVE  Book' /\ Dirs' = Dirs \cup {dir'} /\ dir' \in free
<1> USE PageIs
<1>1. PICK d \in free :
        /\ phase = "dir" /\ dir' = d /\ phase' = "map" /\ r' = 1 /\ i' = 0
        /\ UNCHANGED <<kpgdir, pgdir, kstack, cr3, cur, op, old, who, ncalls, nfailed, panicked>>
  BY DEF map_kernel
<1>a. kernel_map[1].size = LOW_PAGES /\ 0 < LOW_PAGES /\ 0 \in 0 .. VSPACE
  BY Regions, Sizes
<1> HIDE DEF NONE
<1>b. /\ d # NONE /\ d \in Page /\ d # kpgdir /\ d # old /\ \A p \in Procs : d # pgdir[p]
  BY <1>1 DEF Dirs
<1>2. ScalarTypes'
  BY <1>1, <1>a DEF Book, ScalarTypes
<1>3. Shape'
  BY <1>1, <1>a, <1>b DEF Book, Shape, ScalarTypes
<1>4. Processor'
  BY <1>1 DEF Book, Shape, Processor
<1>5. TaskDirs'
  BY <1>1, <1>b DEF Book, Shape, Processor, TaskDirs, ScalarTypes
<1>6. Dirs' = Dirs \cup {dir'}
  BY <1>1, <1>b DEF Book, Shape, Dirs, ScalarTypes
<1> QED
  BY <1>1, <1>2, <1>3, <1>4, <1>5, <1>6 DEF Book

(* map_memory goes on, or map_kernel returns. *)
LEMMA MapBook ==
  ASSUME Book, map_memory
  PROVE  /\ Book' /\ Dirs' = Dirs /\ dir \in Dirs /\ UNCHANGED <<kstack, nfailed>>
         /\ phase = "map" /\ op' \in {op, "none"}
         /\ \/ phase' = "map" /\ dir' = dir /\ i + 1 < kernel_map[r].size /\ r' = r /\ i' = i + 1
               /\ kpgdir' = kpgdir
            \/ phase' = "map" /\ dir' = dir /\ i + 1 >= kernel_map[r].size /\ r < 3
               /\ r' = r + 1 /\ i' = 0 /\ kpgdir' = kpgdir
            \/ phase' = "idle" /\ i + 1 >= kernel_map[r].size /\ r = 3 /\ Dirs = {dir}
               /\ kpgdir' = dir
            \/ phase' = "load" /\ i + 1 >= kernel_map[r].size /\ r = 3 /\ dir' = dir
               /\ kpgdir' = kpgdir
<1> USE PageIs
<1> DEFINE size == kernel_map[r].size
<1>1. /\ phase = "map"
      /\ UNCHANGED <<kstack, cur, ncalls, nfailed, panicked>>
  BY DEF map_memory
<1>2. \/ /\ i + 1 < size
         /\ i' = i + 1
         /\ UNCHANGED <<phase, kpgdir, pgdir, cr3, op, dir, old, who, r>>
      \/ /\ i + 1 >= size /\ r < 3
         /\ i' = 0 /\ r' = r + 1
         /\ UNCHANGED <<phase, kpgdir, pgdir, cr3, op, dir, old, who>>
      \/ /\ i + 1 >= size /\ r = 3 /\ op = "boot"
         /\ init_kernel_memory
      \/ /\ i + 1 >= size /\ r = 3 /\ op # "boot"
         /\ pgdir' = [pgdir EXCEPT ![who] = dir] /\ phase' = "load"
         /\ UNCHANGED <<kpgdir, cr3, op, dir, old, who, r, i>>
  BY Regions DEF map_memory
<1>3. r \in 1 .. 3 /\ i \in 0 .. VSPACE /\ i < size /\ size \in Nat /\ size <= VSPACE
  <2>1. r \in 1 .. 3 /\ i \in 0 .. VSPACE /\ i < size
    BY <1>1 DEF Book, ScalarTypes, Shape
  <2> QED
    BY <2>1, Regions, Sizes
<1>4. dir # NONE /\ dir \in Dirs
  BY <1>1 DEF Book, Shape, Dirs
<1>5. kernel_map[r + 1].size > 0 \/ r = 3
  BY <1>3, Regions, Sizes
<1> HIDE DEF NONE
<1>6. CASE i + 1 < size /\ i' = i + 1 /\ UNCHANGED <<phase, kpgdir, pgdir, cr3, op, dir, old, who, r>>
  <2>a. i' \in 0 .. VSPACE
    BY <1>3, <1>6, Sizes
  <2>1. ScalarTypes'
    BY <1>1, <1>6, <2>a DEF Book, ScalarTypes
  <2>2. Shape' /\ Processor' /\ TaskDirs'
    BY <1>1, <1>6 DEF Book, Shape, Processor, TaskDirs
  <2>3. Dirs' = Dirs
    BY <1>6 DEF Dirs
  <2> QED
    BY <1>1, <1>4, <1>6, <2>1, <2>2, <2>3 DEF Book
<1>7. CASE /\ i + 1 >= size /\ r < 3 /\ i' = 0 /\ r' = r + 1
           /\ UNCHANGED <<phase, kpgdir, pgdir, cr3, op, dir, old, who>>
  <2>a. i' \in 0 .. VSPACE /\ r' \in 1 .. 3
    BY <1>3, <1>7, Sizes
  <2>1. ScalarTypes'
    BY <1>1, <1>7, <2>a DEF Book, ScalarTypes
  <2>2. Shape' /\ Processor' /\ TaskDirs'
    BY <1>1, <1>5, <1>7 DEF Book, Shape, Processor, TaskDirs
  <2>3. Dirs' = Dirs
    BY <1>7 DEF Dirs
  <2> QED
    BY <1>1, <1>4, <1>7, <2>1, <2>2, <2>3 DEF Book
<1>8. CASE i + 1 >= size /\ r = 3 /\ op = "boot" /\ init_kernel_memory
  <2>1. /\ kpgdir' = dir /\ cr3' = dir /\ phase' = "idle" /\ op' = "none" /\ dir' = NONE
        /\ old' = NONE /\ who' = NONE /\ r' = 1 /\ i' = 0 /\ pgdir' = pgdir
    BY <1>8 DEF init_kernel_memory, Idle
  <2>a. 0 \in 0 .. VSPACE
    BY Sizes
  <2>2. ScalarTypes'
    BY <1>1, <2>1, <2>a DEF Book, ScalarTypes
  <2>3. Shape' /\ Processor'
    BY <1>1, <1>4, <1>8, <2>1 DEF Book, Shape, Processor
  <2>4. TaskDirs'
    BY <1>1, <1>4, <1>8, <2>1 DEF Book, Shape, Processor, TaskDirs
  <2>5. Dirs' = Dirs /\ Dirs = {dir}
    <3>1. kpgdir = NONE /\ old = NONE /\ \A p \in Procs : pgdir[p] = NONE
      BY <1>8 DEF Book, Shape, TaskDirs
    <3> QED
      BY <1>4, <2>1, <3>1 DEF Dirs
  <2> QED
    BY <1>1, <1>4, <1>8, <2>1, <2>2, <2>3, <2>4, <2>5 DEF Book
<1>9. CASE /\ i + 1 >= size /\ r = 3 /\ op # "boot"
           /\ pgdir' = [pgdir EXCEPT ![who] = dir] /\ phase' = "load"
           /\ UNCHANGED <<kpgdir, cr3, op, dir, old, who, r, i>>
  <2>1. who \in Procs /\ op \in {"fork", "execv"} /\ pgdir \in [Procs -> Page \cup {NONE}]
    BY <1>1, <1>9 DEF Book, Shape, ScalarTypes
  <2>2. pgdir'[who] = dir /\ \A p \in Procs : p # who => pgdir'[p] = pgdir[p]
    BY <1>9, <2>1
  <2>3. ScalarTypes'
    BY <1>1, <1>9, <2>1 DEF Book, ScalarTypes
  <2>4. Shape'
    BY <1>1, <1>9 DEF Book, Shape
  <2>5. Processor'
    BY <1>1, <1>4, <1>9, <2>1, <2>2 DEF Book, Shape, Processor, TaskDirs, ScalarTypes
  <2>6. TaskDirs'
    BY <1>1, <1>4, <1>9, <2>1, <2>2 DEF Book, Shape, TaskDirs
  <2>7. Dirs' = Dirs
    <3>1. pgdir[who] \in {NONE, old}
      BY <1>1, <2>1 DEF Book, TaskDirs
    <3> QED
      BY <1>9, <2>1, <2>2, <3>1 DEF Dirs
  <2> QED
    BY <1>1, <1>4, <1>9, <2>3, <2>4, <2>5, <2>6, <2>7 DEF Book
<1> QED
  BY <1>2, <1>6, <1>7, <1>8, <1>9

(* fork and execv go on when the program's page is mapped. *)
LEMMA AllocBook ==
  ASSUME Book, alloc_map_memory
  PROVE  /\ Book' /\ Dirs' = Dirs /\ dir \in Dirs /\ dir # kpgdir /\ UNCHANGED <<kpgdir, kstack, nfailed>>
         /\ phase = "load" /\ phase' \in {"idle", "args"} /\ op' # "fail" /\ dir' \in {dir, NONE}
<1> USE PageIs
<1>1. phase = "load" /\ UNCHANGED <<kpgdir, pgdir, kstack, cr3, cur, ncalls, nfailed, panicked>>
  BY DEF alloc_map_memory
<1>2. \/ op = "fork" /\ Idle
      \/ op = "execv" /\ phase' = "args" /\ UNCHANGED <<op, dir, old, who, r, i>>
  BY DEF alloc_map_memory
<1>a. 0 \in 0 .. VSPACE
  BY Sizes
<1> HIDE DEF NONE
<1>3. dir \in Dirs /\ dir # NONE /\ dir # kpgdir /\ who \in Procs /\ pgdir[who] = dir
  BY <1>1, <1>2 DEF Book, Shape, Dirs, TaskDirs, ScalarTypes
<1>4. CASE op = "fork" /\ Idle
  <2>1. /\ phase' = "idle" /\ op' = "none" /\ dir' = NONE /\ old' = NONE /\ who' = NONE
        /\ r' = 1 /\ i' = 0
    BY <1>4 DEF Idle
  <2>2. ScalarTypes'
    BY <1>1, <1>a, <2>1 DEF Book, ScalarTypes
  <2>3. Shape' /\ Processor'
    BY <1>1, <1>4, <2>1 DEF Book, Shape, Processor
  <2>4. TaskDirs'
    BY <1>1, <1>3, <1>4, <2>1 DEF Book, Shape, Processor, TaskDirs
  <2>5. Dirs' = Dirs
    BY <1>1, <1>3, <1>4, <2>1 DEF Book, Shape, Dirs
  <2> QED
    BY <1>1, <1>3, <2>1, <2>2, <2>3, <2>4, <2>5 DEF Book
<1>5. CASE op = "execv" /\ phase' = "args" /\ UNCHANGED <<op, dir, old, who, r, i>>
  <2>1. ScalarTypes'
    BY <1>1, <1>5 DEF Book, ScalarTypes
  <2>2. Shape' /\ Processor' /\ TaskDirs'
    BY <1>1, <1>5 DEF Book, Shape, Processor, TaskDirs
  <2>3. Dirs' = Dirs
    BY <1>1, <1>5 DEF Dirs
  <2> QED
    BY <1>1, <1>3, <1>5, <2>1, <2>2, <2>3 DEF Book
<1> QED
  BY <1>2, <1>4, <1>5

(* execv gives up. *)
LEMMA FailsBook ==
  ASSUME Book, execv_fails
  PROVE  /\ Book' /\ Dirs' = Dirs /\ dir \in Dirs /\ op = "execv" /\ op' = "fail" /\ phase' = "unmap"
         /\ phase \in {"load", "args"} /\ dir' = dir /\ kpgdir' = kpgdir
         /\ \/ phase = "load" /\ nfailed < MAX_FAILED /\ nfailed' = nfailed + 1
            \/ phase = "args" /\ nfailed' = nfailed
<1> USE PageIs
<1>1. /\ op = "execv" /\ op' = "fail" /\ phase' = "unmap" /\ phase \in {"load", "args"}
      /\ UNCHANGED <<kpgdir, pgdir, kstack, cr3, cur, dir, old, who, r, i, ncalls, panicked>>
      /\ \/ phase = "load" /\ nfailed < MAX_FAILED /\ nfailed' = nfailed + 1
         \/ phase = "args" /\ nfailed' = nfailed
  BY DEF execv_fails
<1>2. nfailed' \in 0 .. MAX_FAILED
  BY <1>1 DEF Book, ScalarTypes
<1> HIDE DEF NONE
<1>3. ScalarTypes'
  BY <1>1, <1>2 DEF Book, ScalarTypes
<1>4. Shape' /\ Processor' /\ TaskDirs'
  BY <1>1 DEF Book, Shape, Processor, TaskDirs
<1>5. Dirs' = Dirs /\ dir \in Dirs
  BY <1>1 DEF Book, Shape, Dirs
<1> QED
  BY <1>1, <1>3, <1>4, <1>5 DEF Book

(* execv turns to the old directory. *)
LEMMA UstackBook ==
  ASSUME Book, prepare_ustack
  PROVE  /\ Book' /\ Dirs' = Dirs /\ dir' \in Dirs /\ dir' = old /\ op = "execv" /\ op' = "execv"
         /\ phase = "args" /\ phase' = "unmap" /\ dir # old /\ dir \in Dirs
<1> USE PageIs
<1>1. /\ phase = "args" /\ phase' = "unmap" /\ dir' = old
      /\ UNCHANGED <<kpgdir, pgdir, kstack, cr3, cur, op, old, who, r, i, ncalls, nfailed, panicked>>
  BY DEF prepare_ustack
<1> HIDE DEF NONE
<1>2. /\ op = "execv" /\ old # NONE /\ dir # NONE /\ who \in Procs /\ pgdir[who] = dir /\ dir # old
      /\ kpgdir # old
  BY <1>1 DEF Book, Shape, ScalarTypes, TaskDirs
<1>3. ScalarTypes'
  BY <1>1 DEF Book, ScalarTypes
<1>4. Shape' /\ Processor'
  BY <1>1, <1>2 DEF Book, Shape, Processor
<1>5. TaskDirs'
  BY <1>1, <1>2 DEF Book, Shape, TaskDirs
<1>6. Dirs' = Dirs /\ dir' \in Dirs /\ dir \in Dirs
  BY <1>1, <1>2 DEF Dirs
<1> QED
  BY <1>1, <1>2, <1>3, <1>4, <1>5, <1>6 DEF Book

(* A zombie's directory is about to be destroyed. *)
LEMMA ZombieBook ==
  ASSUME Book, kill_off_zombies
  PROVE  /\ Book' /\ Dirs' = Dirs /\ dir' \in Dirs /\ phase = "idle" /\ phase' = "unmap"
         /\ op' = "reap" /\ dir = NONE /\ kpgdir' = kpgdir
<1> USE PageIs
<1>1. PICK p \in Procs :
        /\ phase = "idle" /\ ncalls < MAX_CALLS /\ ncalls' = ncalls + 1
        /\ cur \notin {NONE, p} /\ pgdir[p] # NONE
        /\ op' = "reap" /\ phase' = "unmap" /\ who' = p /\ dir' = pgdir[p]
        /\ UNCHANGED <<kpgdir, pgdir, kstack, cr3, cur, old, r, i, nfailed, panicked>>
  BY DEF kill_off_zombies
<1>2. ncalls' \in 0 .. MAX_CALLS
  BY <1>1 DEF Book, ScalarTypes
<1> HIDE DEF NONE
<1>3. ScalarTypes'
  BY <1>1, <1>2 DEF Book, ScalarTypes
<1>4. Shape' /\ Processor'
  BY <1>1 DEF Book, Shape, Processor
<1>5. TaskDirs'
  BY <1>1 DEF Book, Shape, TaskDirs
<1>6. Dirs' = Dirs /\ dir' \in Dirs /\ dir = NONE
  BY <1>1 DEF Book, Shape, Dirs
<1> QED
  BY <1>1, <1>3, <1>4, <1>5, <1>6 DEF Book

(* The program's page is unmapped. *)
LEMMA UnmapBook ==
  ASSUME Book, unmap_page
  PROVE  /\ Book' /\ Dirs' = Dirs /\ dir \in Dirs /\ dir # kpgdir
         /\ phase = "unmap" /\ phase' = "tables"
         /\ i' = 0 /\ UNCHANGED <<kpgdir, dir, op, kstack, nfailed>>
<1> USE PageIs
<1>1. /\ phase = "unmap" /\ phase' = "tables" /\ i' = 0
      /\ UNCHANGED <<kpgdir, pgdir, kstack, cr3, cur, op, dir, old, who, r, ncalls, nfailed, panicked>>
  BY DEF unmap_page
<1>2. 0 \in 0 .. VSPACE /\ 0 <= PDE_SIZE
  BY Sizes
<1> HIDE DEF NONE
<1>3. ScalarTypes'
  BY <1>1, <1>2 DEF Book, ScalarTypes
<1>4. Shape' /\ Processor' /\ TaskDirs'
  BY <1>1, <1>2 DEF Book, Shape, Processor, TaskDirs
<1>5. Dirs' = Dirs /\ dir \in Dirs /\ dir # kpgdir
  BY <1>1 DEF Book, Shape, Dirs, TaskDirs
<1> QED
  BY <1>1, <1>3, <1>4, <1>5 DEF Book

(* The next table. *)
LEMMA TableBook ==
  ASSUME Book, destroy_table
  PROVE  /\ Book' /\ Dirs' = Dirs /\ dir \in Dirs /\ dir # kpgdir
         /\ phase = "tables" /\ phase' = "tables"
         /\ i \in DirWords /\ i' = i + 1 /\ UNCHANGED <<kpgdir, dir, op, kstack, nfailed>>
<1> USE PageIs
<1>1. /\ phase = "tables" /\ phase' = phase /\ i' = i + 1 /\ i < PDE_SIZE
      /\ UNCHANGED <<kpgdir, pgdir, kstack, cr3, cur, op, dir, old, who, r, ncalls, nfailed, panicked>>
  BY DEF destroy_table, MoreTables
<1>2. i \in DirWords /\ i' \in 0 .. VSPACE /\ i' <= PDE_SIZE
  <2>1. i \in 0 .. VSPACE
    BY DEF Book, ScalarTypes
  <2> QED
    BY <1>1, <2>1, Sizes DEF DirWords
<1> HIDE DEF NONE
<1>3. ScalarTypes'
  BY <1>1, <1>2 DEF Book, ScalarTypes
<1>4. Shape' /\ Processor' /\ TaskDirs'
  BY <1>1, <1>2 DEF Book, Shape, Processor, TaskDirs
<1>5. Dirs' = Dirs /\ dir \in Dirs /\ dir # kpgdir
  BY <1>1 DEF Book, Shape, Dirs, TaskDirs
<1> QED
  BY <1>1, <1>2, <1>3, <1>4, <1>5 DEF Book

(* The directory is gone, and the handler returns. *)
LEMMA DestroyBook ==
  ASSUME Book, destroy_address_space
  PROVE  /\ Book' /\ Dirs' = Dirs \ {dir} /\ dir \in Dirs
         /\ phase = "tables" /\ i = PDE_SIZE /\ phase' = "idle" /\ dir' = NONE
         /\ op \in {"execv", "fail", "reap"} /\ UNCHANGED <<kpgdir, nfailed>>
         /\ op = "reap" => /\ who \in Procs /\ kstack[who] # NONE
                           /\ kstack' = [kstack EXCEPT ![who] = NONE]
         /\ op # "reap" => kstack' = kstack
<1> USE PageIs
<1>1. /\ phase = "tables" /\ ~(i < PDE_SIZE)
      /\ cr3' = IF op = "execv" THEN pgdir[who] ELSE cr3
      /\ pgdir' = [pgdir EXCEPT ![who] = IF op = "reap" THEN NONE
                                         ELSE IF op = "fail" THEN old ELSE @]
      /\ kstack' = IF op = "reap" THEN [kstack EXCEPT ![who] = NONE] ELSE kstack
      /\ phase' = "idle" /\ op' = "none" /\ dir' = NONE /\ old' = NONE /\ who' = NONE
      /\ r' = 1 /\ i' = 0
      /\ UNCHANGED <<kpgdir, cur, ncalls, nfailed, panicked>>
  BY DEF destroy_address_space, MoreTables, Reload, Idle
<1>2. i = PDE_SIZE /\ 0 \in 0 .. VSPACE
  <2>1. i \in 0 .. VSPACE /\ i <= PDE_SIZE
    BY <1>1 DEF Book, ScalarTypes, Shape
  <2> QED
    BY <1>1, <2>1, Sizes
<1> HIDE DEF NONE
<1>3. /\ op \in {"execv", "fail", "reap"} /\ who \in Procs /\ dir \in Dirs /\ dir # NONE
      /\ dir # kpgdir /\ kpgdir # NONE
      /\ op \in {"fail", "reap"} => pgdir[who] = dir
      /\ op = "execv" => dir = old /\ pgdir[who] \notin {old, NONE}
      /\ old # NONE => kpgdir # old
      /\ \A p \in Procs : pgdir[p] = dir => p = who
      /\ pgdir \in [Procs -> Page \cup {NONE}] /\ kstack \in [Procs -> Page \cup {NONE}]
  BY <1>1 DEF Book, Shape, Dirs, TaskDirs, ScalarTypes
<1>4. /\ \A p \in Procs : p # who => pgdir'[p] = pgdir[p]
      /\ op = "reap" => pgdir'[who] = NONE
      /\ op = "fail" => pgdir'[who] = old
      /\ op = "execv" => pgdir'[who] = pgdir[who]
      /\ pgdir' \in [Procs -> Page \cup {NONE}]
  <2>1. old \in Page \cup {NONE}
    BY DEF Book, ScalarTypes
  <2> QED
    BY <1>1, <1>3, <2>1
<1>5. /\ op = "reap" => kstack[who] # NONE /\ kstack'[who] = NONE
      /\ \A p \in Procs : (op = "reap" => p # who) => kstack'[p] = kstack[p]
      /\ kstack' \in [Procs -> Page \cup {NONE}]
  BY <1>1, <1>3 DEF Book, TaskDirs
<1>6. ScalarTypes'
  BY <1>1, <1>2, <1>3, <1>4, <1>5 DEF Book, ScalarTypes
<1>7. Shape'
  BY <1>1, <1>3 DEF Book, Shape
<1>8. Processor'
  BY <1>1, <1>3, <1>4 DEF Book, Shape, Processor, ScalarTypes
<1>9. TaskDirs'
  BY <1>1, <1>3, <1>4, <1>5 DEF Book, Shape, TaskDirs
<1>10. Dirs' = Dirs \ {dir}
  <2>1. /\ op = "reap" => old = NONE
        /\ op = "fail" => old # NONE /\ old # dir
    BY <1>1, <1>3 DEF Book, Shape, TaskDirs
  <2>2. CASE op = "reap"
    BY <1>1, <1>3, <1>4, <2>1, <2>2 DEF Dirs
  <2>3. CASE op = "fail"
    BY <1>1, <1>3, <1>4, <2>1, <2>3 DEF Dirs
  <2>4. CASE op = "execv"
    BY <1>1, <1>3, <1>4, <2>4 DEF Dirs
  <2> QED
    BY <1>3, <2>2, <2>3, <2>4
<1> QED
  BY <1>1, <1>2, <1>3, <1>5, <1>6, <1>7, <1>8, <1>9, <1>10 DEF Book

(* switch_to. *)
LEMMA SwitchBook ==
  ASSUME Book, switch_to
  PROVE  Book' /\ Dirs' = Dirs /\ phase = "idle" /\ UNCHANGED <<kpgdir, dir, phase, op, nfailed>>
<1> USE PageIs
<1>1. /\ phase = "idle"
      /\ \/ /\ cur # NONE /\ cur' = NONE /\ cr3' = kpgdir
         \/ /\ cur = NONE
            /\ \E p \in Procs : pgdir[p] # NONE /\ cur' = p /\ cr3' = pgdir[p]
      /\ UNCHANGED <<kpgdir, pgdir, kstack, op, phase, dir, old, who, r, i, ncalls, nfailed, panicked>>
  BY DEF switch_to
<1> HIDE DEF NONE
<1>2. ScalarTypes'
  BY <1>1 DEF Book, ScalarTypes
<1>3. Shape'
  BY <1>1 DEF Book, Shape
<1>4. Processor'
  BY <1>1 DEF Book, Shape, Processor
<1>5. TaskDirs'
  BY <1>1 DEF Book, TaskDirs
<1>6. Dirs' = Dirs
  BY <1>1 DEF Dirs
<1> QED
  BY <1>1, <1>2, <1>3, <1>4, <1>5, <1>6 DEF Book

-----------------------------------------------------------------------------
(* The parts of the invariant that are about memory, in terms of memory.   *)

(* An entry that is not present is not for programs. *)
LEMMA AbsentIs == NotPresent.us = FALSE /\ ~(NotPresent.us = TRUE) /\ NotPresent \in Entry
<1>1. NotPresent.us = FALSE
  BY DEF NotPresent
<1>2. NotPresent \in Entry
  BY DEF Entry
<1> QED
  BY <1>1, <1>2

(* The user pages of the directories in D, in memory m. *)
UserPagesIn(m, D) == [d \in {d \in D : Walk(m, d, 0).us = TRUE} |-> Walk(m, d, 0).pa]

(* What a directory contains that nobody builds or destroys, k being the   *)
(* scheduler's.                                                            *)
Complete(m, d, k) ==
  /\ \A va \in VPages : va # 0 \/ d = k => Walk(m, d, va) = KernelEntry(va)
  /\ d # k => Walk(m, d, 0).us = TRUE

AllUses == free \cup Dirs \cup Image(TablePages) \cup Image(UserPages) \cup Image(StackPages)

(* Tables and user pages before and after a step. *)
LEMMA UsesAre ==
  /\ phase # "tables" => TablePages = TablePagesIn(mem, Dirs)
  /\ phase' # "tables" => TablePages' = TablePagesIn(mem', Dirs')
  /\ UserPages = UserPagesIn(mem, Dirs)
  /\ UserPages' = UserPagesIn(mem', Dirs')
<1>1. ASSUME phase # "tables" PROVE TablePages = TablePagesIn(mem, Dirs)
  <2>1. HeldTables = TablesIn(mem, Dirs)
    BY <1>1 DEF HeldTables, TablesIn
  <2> QED
    BY <2>1 DEF TablePages, TablePagesIn
<1>2. ASSUME phase' # "tables" PROVE TablePages' = TablePagesIn(mem', Dirs')
  <2>1. HeldTables' = TablesIn(mem', Dirs')
    BY <1>2 DEF HeldTables, TablesIn
  <2> QED
    BY <2>1 DEF TablePages, TablePagesIn
<1>3. UserPages = UserPagesIn(mem, Dirs) /\ UserPages' = UserPagesIn(mem', Dirs')
  BY DEF UserPages, UserPagesIn, Loaded
<1> QED
  BY <1>1, <1>2, <1>3

(* The same walks at 0 give the same user pages. *)
LEMMA FrameUsers ==
  ASSUME NEW m, NEW m2, NEW D, \A d \in D : Walk(m2, d, 0) = Walk(m, d, 0)
  PROVE  UserPagesIn(m2, D) = UserPagesIn(m, D)
<1> DEFINE U == {d \in D : Walk(m, d, 0).us = TRUE}
<1>1. {d \in D : Walk(m2, d, 0).us = TRUE} = U
  OBVIOUS
<1>2. \A d \in U : Walk(m2, d, 0).pa = Walk(m, d, 0).pa
  OBVIOUS
<1> HIDE DEF U
<1>3. [d \in U |-> Walk(m2, d, 0).pa] = [d \in U |-> Walk(m, d, 0).pa]
  BY <1>2
<1> QED
  BY <1>1, <1>3 DEF UserPagesIn, U

(* Contents, for the directory in hand and for the others. *)
LEMMA ContentsParts ==
  /\ Contents <=> /\ \A d \in Dirs \ {dir} : Complete(mem, d, kpgdir)
                  /\ dir \in Dirs => \A va \in VPages : Expected(dir, va)
  /\ Contents' <=> /\ \A d \in Dirs' \ {dir'} : Complete(mem', d, kpgdir')
                   /\ dir' \in Dirs' => \A va \in VPages : Expected(dir, va)'
<1>0. 0 \in VPages
  BY IndexZero
<1>1. \A d \in Dirs \ {dir} : Complete(mem, d, kpgdir) <=> \A va \in VPages : Expected(d, va)
  BY <1>0 DEF Complete, Expected, Loaded
<1>2. \A d \in Dirs' \ {dir'} :
        Complete(mem', d, kpgdir') <=> \A va \in VPages : Expected(d, va)'
  BY <1>0 DEF Complete, Expected, Loaded
<1>3. Contents <=> \A d \in Dirs, va \in VPages : Expected(d, va)
  BY DEF Contents
<1>4. Contents' <=> \A d \in Dirs', va \in VPages : Expected(d, va)'
  BY DEF Contents
<1>5. dir' \in Dirs' => \A va \in VPages : (\A d \in Dirs' : Expected(d, va)') => Expected(dir, va)'
  BY DEF Expected
<1>6. ASSUME dir' \in Dirs', \A va \in VPages : Expected(dir, va)', NEW va \in VPages
      PROVE  \A d \in Dirs' : d = dir' => Expected(d, va)'
  BY <1>6 DEF Expected
<1>7. Contents <=> /\ \A d \in Dirs \ {dir} : Complete(mem, d, kpgdir)
                   /\ dir \in Dirs => \A va \in VPages : Expected(dir, va)
  BY <1>1, <1>3
<1>8. Contents' <=> /\ \A d \in Dirs' \ {dir'} : Complete(mem', d, kpgdir')
                    /\ dir' \in Dirs' => \A va \in VPages : Expected(dir, va)'
  BY <1>2, <1>4, <1>5, <1>6
<1> QED
  BY <1>7, <1>8

(* A directory that is walked as before is as complete as before. *)
LEMMA CompleteSame ==
  ASSUME NEW m, NEW m2, NEW d, NEW k, NEW k2, (d = k2) <=> (d = k), Complete(m, d, k),
         \A va \in VPages : Walk(m2, d, va) = Walk(m, d, va)
  PROVE  Complete(m2, d, k2)
  BY IndexZero DEF Complete

(* Page 0 stays nobody's if nothing that was not in use gets into use. *)
LEMMA ZeroStep ==
  ASSUME PageZero, AllUses' \subseteq AllUses, nfailed' = nfailed, ~NothingLoaded'
  PROVE  PageZero'
  BY DEF PageZero, AllUses

(* What OneUse says of single pages. *)
LEMMA UseFacts ==
  ASSUME TypeOK, OneUse
  PROVE  /\ Dirs \subseteq Page /\ free \subseteq Page /\ free \cap Dirs = {}
         /\ Image(TablePages) \subseteq Page /\ Image(TablePages) \cap (free \cup Dirs) = {}
         /\ Image(UserPages) \subseteq Page /\ Image(StackPages) \subseteq Page
         /\ Image(UserPages) \cap (free \cup Dirs \cup Image(TablePages)) = {}
         /\ Image(StackPages) \cap (free \cup Dirs \cup Image(TablePages)) = {}
         /\ Injective(TablePages)
<1>1. Layout(Dirs, TablePages, UserPages, StackPages, free)
  BY DEF OneUse
<1> HIDE DEF OneUse
<1>2. /\ Dirs \subseteq Page /\ free \subseteq Page /\ Image(TablePages) \subseteq Page
      /\ Image(UserPages) \subseteq Page /\ Image(StackPages) \subseteq Page
  BY <1>1, LayoutPages
<1> QED
  BY <1>1, <1>2 DEF Layout

(* Directories and tables that are not written stay what they are: W are   *)
(* the pages that a step writes.                                           *)
LEMMA FrameStep ==
  ASSUME TypeOK, OneUse, phase # "tables", NEW W,
         W \cap (Dirs \cup Image(TablePages)) = {}, \A p \in Page \ W : mem'[p] = mem[p]
  PROVE  /\ \A d \in Dirs : mem'[d] = mem[d]
         /\ \A d \in Dirs : \A va \in VPages : Walk(mem', d, va) = Walk(mem, d, va)
         /\ TablePagesIn(mem', Dirs) = TablePages
         /\ UserPagesIn(mem', Dirs) = UserPages
<1>1. TablePages = TablePagesIn(mem, Dirs) /\ UserPages = UserPagesIn(mem, Dirs)
  BY UsesAre
<1>2. Dirs \subseteq Page /\ Image(TablePages) \subseteq Page
  BY UseFacts
<1>3. \A d \in Dirs : mem'[d] = mem[d]
  BY <1>2
<1>4. ASSUME NEW d \in Dirs PROVE \A va \in VPages : Walk(mem', d, va) = Walk(mem, d, va)
  <2>1. ASSUME NEW k \in DirWords, mem[d][k] # NotPresent
        PROVE  mem'[mem[d][k].pa] = mem[mem[d][k].pa]
    <3>1. mem[d][k].pa \in Image(TablePagesIn(mem, Dirs))
      BY <2>1, TablePageIs
    <3> QED
      BY <1>1, <1>2, <3>1
  <2>2. Untouched(mem, mem', d)
    BY <1>3, <2>1 DEF Untouched
  <2> QED
    BY <2>2, WalkSame
<1>5. TablePagesIn(mem', Dirs) = TablePages
  BY <1>1, <1>3, FrameTables
<1>6. UserPagesIn(mem', Dirs) = UserPages
  <2>1. \A d \in Dirs : Walk(mem', d, 0) = Walk(mem, d, 0)
    BY <1>4, IndexZero
  <2> QED
    BY <1>1, <2>1, FrameUsers
<1> QED
  BY <1>3, <1>4, <1>5, <1>6

(* The invariant in its parts. *)
LEMMA InvParts ==
  /\ ASInv <=> TypeOK /\ Book /\ OneUse /\ PageZero /\ Contents /\ FreedTables
  /\ ASInv' <=> TypeOK' /\ Book' /\ OneUse' /\ PageZero' /\ Contents' /\ FreedTables'
  /\ phase' # "tables" => FreedTables'
<1>1. ASInv <=> TypeOK /\ Book /\ OneUse /\ PageZero /\ Contents /\ FreedTables
  BY TypeParts DEF ASInv, Book
<1>2. ASInv' <=> TypeOK' /\ Book' /\ OneUse' /\ PageZero' /\ Contents' /\ FreedTables'
  BY TypeParts DEF ASInv, Book
<1>3. phase' # "tables" => FreedTables'
  BY DEF FreedTables
<1> QED
  BY <1>1, <1>2, <1>3

(* A step that leaves the memory alone. *)
LEMMA QuietStep ==
  ASSUME ASInv, Book', UNCHANGED <<mem, free, kstack>>, Dirs' = Dirs,
         phase # "tables", phase' # "tables"
  PROVE  TypeOK' /\ OneUse' /\ AllUses' = AllUses
<1>1. TypeOK'
  BY TypeParts DEF ASInv, Book
<1>2. TablePages' = TablePages /\ UserPages' = UserPages
  BY UsesAre
<1>3. StackPages' = StackPages
  BY DEF StackPages
<1>4. OneUse'
  BY <1>2, <1>3 DEF ASInv, OneUse
<1>5. AllUses' = AllUses
  BY <1>2, <1>3 DEF AllUses
<1> QED
  BY <1>1, <1>4, <1>5

(* A handler that has nothing in hand before or after, or only starts. *)
LEMMA QuietOthers ==
  ASSUME ASInv, Book', UNCHANGED <<mem, free, kstack, kpgdir, nfailed>>, Dirs' = Dirs,
         phase \in {"idle", "dir"}, phase' \in {"idle", "dir"}
  PROVE  ASInv'
<1>1. TypeOK' /\ OneUse' /\ AllUses' = AllUses
  BY QuietStep
<1>2. dir = NONE /\ dir' = NONE /\ NONE \notin Dirs
  BY DEF ASInv, Book, Shape, Dirs
<1>3. Contents'
  <2>1. \A d \in Dirs : Complete(mem, d, kpgdir)
    BY <1>2, ContentsParts DEF ASInv
  <2> QED
    BY <1>2, <2>1, ContentsParts
<1>4. ~NothingLoaded'
  BY DEF NothingLoaded
<1>5. PageZero'
  BY <1>1, <1>4, ZeroStep DEF ASInv
<1> QED
  BY <1>1, <1>3, <1>5, InvParts

(* execv starts: no memory is touched. *)
LEMMA ExecvStep == ASSUME ASInv, execv PROVE ASInv'
<1>1. Book
  BY InvParts
<1>2. Book' /\ Dirs' = Dirs
  BY <1>1, ExecvBook
<1>3. /\ UNCHANGED <<mem, free, kstack, kpgdir, nfailed>>
      /\ phase \in {"idle", "dir"} /\ phase' \in {"idle", "dir"}
  BY DEF execv
<1> QED
  BY <1>2, <1>3, QuietOthers

(* switch_to loads a finished directory. *)
LEMMA SwitchStep == ASSUME ASInv, switch_to PROVE ASInv'
<1>1. Book
  BY InvParts
<1>2. Book' /\ Dirs' = Dirs
  BY <1>1, SwitchBook
<1>3. /\ UNCHANGED <<mem, free, kstack, kpgdir, nfailed>>
      /\ phase \in {"idle", "dir"} /\ phase' \in {"idle", "dir"}
  BY DEF switch_to
<1> QED
  BY <1>2, <1>3, QuietOthers

(* execv gives up: before a program is loaded only once. *)
LEMMA FailsStep ==
  ASSUME MAX_FAILED <= 1, ASInv, execv_fails
  PROVE  ASInv'
<1>1. Book
  BY InvParts
<1>2. /\ Book' /\ Dirs' = Dirs /\ dir \in Dirs /\ op = "execv" /\ op' = "fail" /\ phase' = "unmap"
      /\ phase \in {"load", "args"} /\ dir' = dir /\ kpgdir' = kpgdir
      /\ \/ phase = "load" /\ nfailed < MAX_FAILED /\ nfailed' = nfailed + 1
         \/ phase = "args" /\ nfailed' = nfailed
  BY <1>1, FailsBook
<1>3. UNCHANGED <<mem, free, kstack>>
  BY DEF execv_fails
<1>4. TypeOK' /\ OneUse' /\ AllUses' = AllUses
  BY <1>2, <1>3, QuietStep
<1>5. \A va \in VPages : Expected(dir, va)
  BY <1>2, ContentsParts DEF ASInv
<1>a. dir # kpgdir
  BY <1>1, <1>2 DEF Book, Shape, TaskDirs, Dirs
<1>b. 0 \in VPages
  BY IndexZero
<1>6. \A va \in VPages : Expected(dir, va)'
  <2> SUFFICES ASSUME NEW va \in VPages PROVE Expected(dir, va)'
    OBVIOUS
  <2>1. Expected(dir, va) /\ Expected(dir, 0)
    BY <1>5, <1>b
  <2> QED
    BY <1>2, <1>3, <1>a, <2>1 DEF Expected, Loaded
<1>7. Contents'
  <2>1. \A d \in Dirs \ {dir} : Complete(mem, d, kpgdir)
    BY ContentsParts DEF ASInv
  <2> QED
    BY <1>2, <1>3, <1>6, <2>1, ContentsParts
<1>8. PageZero'
  <2>1. CASE phase = "load" /\ nfailed < MAX_FAILED /\ nfailed' = nfailed + 1
    <3>1. nfailed \in Nat
      BY <1>1 DEF Book, ScalarTypes
    <3>2. nfailed = 0 /\ nfailed' = 1
      BY <2>1, <3>1
    <3>3. 0 \notin AllUses
      BY <3>2 DEF ASInv, PageZero, AllUses
    <3> QED
      BY <1>4, <3>2, <3>3 DEF PageZero, AllUses
  <2>2. CASE phase = "args" /\ nfailed' = nfailed
    <3>1. Loaded(dir)
      <4>1. Expected(dir, 0)
        BY <1>5, <1>b
      <4> QED
        BY <1>2, <1>a, <2>2, <4>1 DEF Expected
    <3>2. ~NothingLoaded'
      BY <1>2, <1>3, <3>1 DEF NothingLoaded, Loaded
    <3> QED
      BY <1>4, <2>2, <3>2, ZeroStep DEF ASInv
  <2> QED
    BY <1>2, <2>1, <2>2
<1> QED
  BY <1>2, <1>4, <1>7, <1>8, InvParts

(* The old space is as complete as the new one when execv turns to it. *)
LEMMA UstackStep == ASSUME ASInv, prepare_ustack PROVE ASInv'
<1>1. Book
  BY InvParts
<1>2. /\ Book' /\ Dirs' = Dirs /\ dir' \in Dirs /\ dir' = old /\ op = "execv" /\ op' = "execv"
      /\ phase = "args" /\ phase' = "unmap" /\ dir # old /\ dir \in Dirs
  BY <1>1, UstackBook
<1>3. UNCHANGED <<mem, free, kstack, kpgdir, nfailed>>
  BY DEF prepare_ustack
<1>4. TypeOK' /\ OneUse' /\ AllUses' = AllUses
  BY <1>2, <1>3, QuietStep
<1>5. \A d \in Dirs \ {dir} : Complete(mem, d, kpgdir)
  BY ContentsParts DEF ASInv
<1>6. Complete(mem, dir, kpgdir)
  <2>1. \A va \in VPages : Expected(dir, va)
    BY <1>2, ContentsParts DEF ASInv
  <2>2. dir # kpgdir
    BY <1>1, <1>2 DEF Book, Shape, TaskDirs, Dirs
  <2> QED
    BY <1>2, <2>1, <2>2, IndexZero DEF Expected, Complete, Loaded
<1>7. \A va \in VPages : Expected(dir, va)'
  <2>1. Complete(mem, old, kpgdir) /\ old # kpgdir
    BY <1>1, <1>2, <1>5 DEF Book, Shape, TaskDirs, Dirs
  <2> QED
    BY <1>2, <1>3, <2>1 DEF Expected, Complete, Loaded
<1>8. Contents'
  BY <1>2, <1>3, <1>5, <1>6, <1>7, ContentsParts
<1>9. ~NothingLoaded'
  BY <1>2 DEF NothingLoaded
<1>10. PageZero'
  BY <1>3, <1>4, <1>9, ZeroStep DEF ASInv
<1> QED
  BY <1>2, <1>4, <1>8, <1>10, InvParts

(* kill_off_zombies turns to a space that is complete. *)
LEMMA ZombieStep == ASSUME ASInv, kill_off_zombies PROVE ASInv'
<1>1. Book
  BY InvParts
<1>2. /\ Book' /\ Dirs' = Dirs /\ dir' \in Dirs /\ phase = "idle" /\ phase' = "unmap"
      /\ op' = "reap" /\ dir = NONE /\ kpgdir' = kpgdir
  BY <1>1, ZombieBook
<1>3. UNCHANGED <<mem, free, kstack, kpgdir, nfailed>>
  BY DEF kill_off_zombies
<1>4. TypeOK' /\ OneUse' /\ AllUses' = AllUses
  BY <1>2, <1>3, QuietStep
<1>5. \A d \in Dirs : Complete(mem, d, kpgdir)
  <2>1. dir \notin Dirs
    BY <1>2 DEF Dirs
  <2> QED
    BY <2>1, ContentsParts DEF ASInv
<1>6. dir' # kpgdir
  BY <1>2 DEF Book, Shape, TaskDirs, Dirs
<1>7. \A va \in VPages : Expected(dir, va)'
  <2>1. Complete(mem, dir', kpgdir)
    BY <1>2, <1>5
  <2> QED
    BY <1>2, <1>3, <1>6, <2>1 DEF Expected, Complete, Loaded
<1>8. Contents'
  BY <1>2, <1>3, <1>5, <1>7, ContentsParts
<1>9. ~NothingLoaded'
  BY <1>2 DEF NothingLoaded
<1>10. PageZero'
  BY <1>3, <1>4, <1>9, ZeroStep DEF ASInv
<1> QED
  BY <1>2, <1>4, <1>8, <1>10, InvParts

(* Nothing changes, or the kernel has panicked. *)
LEMMA SameStep ==
  ASSUME ASInv, panicked' \in {0, 1},
         UNCHANGED <<mem, free, kpgdir, pgdir, kstack, cr3, cur, op, phase, dir, old, who, r, i,
                     ncalls, nfailed>>
  PROVE  ASInv'
<1>1. Dirs' = Dirs /\ HeldTables' = HeldTables /\ TablePages' = TablePages
  BY DEF Dirs, HeldTables, TablePages
<1>2. UserPages' = UserPages /\ StackPages' = StackPages
  BY DEF Dirs, UserPages, StackPages, Loaded
<1>3. TypeOK'
  BY DEF ASInv, TypeOK
<1>4. Shape' /\ Processor' /\ TaskDirs'
  BY DEF ASInv, Shape, Processor, TaskDirs
<1>5. OneUse'
  BY <1>1, <1>2 DEF ASInv, OneUse
<1>6. PageZero'
  BY <1>1, <1>2 DEF ASInv, PageZero, NothingLoaded, Loaded
<1>7. Contents'
  BY <1>1 DEF ASInv, Contents, Expected, Loaded, Frontier
<1>8. FreedTables'
  BY DEF ASInv, FreedTables
<1> QED
  BY <1>3, <1>4, <1>5, <1>6, <1>7, <1>8 DEF ASInv

(* fork gives the task a kernel stack: it was free, so no space uses it. *)
LEMMA ForkStep == ASSUME ASInv, fork PROVE ASInv'
<1>1. TypeOK /\ Book /\ OneUse /\ PageZero /\ Contents
  BY InvParts
<1>2. PICK p \in Procs, k \in free :
        /\ phase = "idle" /\ pgdir[p] = NONE
        /\ free' = free \ {k} /\ mem' = [mem EXCEPT ![k] = Scribbled]
        /\ kstack' = [kstack EXCEPT ![p] = k] /\ op' = "fork" /\ phase' = "dir"
        /\ UNCHANGED <<kpgdir, dir, nfailed>>
  BY DEF fork
<1>3. /\ Dirs \subseteq Page /\ free \subseteq Page /\ free \cap Dirs = {}
      /\ Image(TablePages) \cap free = {}
  BY <1>1, UseFacts
<1>4. Book' /\ Dirs' = Dirs
  BY <1>1, <1>3, ForkBook
<1>5. mem \in MemType /\ k \in Page /\ k # NONE
  BY <1>1, <1>3, TypeParts, PageIs
<1>6. mem' \in MemType /\ \A q \in Page \ {k} : mem'[q] = mem[q]
  <2>1. [pa |-> 0, us |-> TRUE] \in Entry
    BY Sizes DEF Entry
  <2>2. Scribbled \in [Words -> Entry]
    BY <2>1 DEF Scribbled
  <2> QED
    BY <1>2, <1>5, <2>2 DEF MemType
<1>7. TypeOK'
  BY <1>2, <1>3, <1>4, <1>6, TypeParts DEF Book
<1>8. /\ \A d \in Dirs : \A va \in VPages : Walk(mem', d, va) = Walk(mem, d, va)
      /\ TablePagesIn(mem', Dirs) = TablePages /\ UserPagesIn(mem', Dirs) = UserPages
  <2>1. {k} \cap (Dirs \cup Image(TablePages)) = {} /\ phase # "tables"
    BY <1>2, <1>3
  <2> QED
    BY <1>1, <1>6, <2>1, FrameStep
<1>9. TablePages' = TablePages /\ UserPages' = UserPages
  BY <1>2, <1>4, <1>8, UsesAre
<1>10. /\ p \notin DOMAIN StackPages /\ DOMAIN StackPages' = DOMAIN StackPages \cup {p}
       /\ StackPages'[p] = k /\ \A q \in DOMAIN StackPages : StackPages'[q] = StackPages[q]
  <2>1. kstack[p] = NONE /\ kstack \in [Procs -> Page \cup {NONE}]
    BY <1>1, <1>2 DEF Book, Shape, TaskDirs, ScalarTypes
  <2>2. kstack'[p] = k /\ \A q \in Procs : q # p => kstack'[q] = kstack[q]
    BY <1>2, <2>1
  <2> HIDE DEF NONE
  <2> QED
    BY <1>5, <2>1, <2>2 DEF StackPages
<1>11. OneUse'
  <2>1. Layout(Dirs, TablePages, UserPages, StackPages, free)
    BY <1>1 DEF OneUse
  <2>2. Layout(Dirs, TablePages, UserPages, StackPages', free \ {k})
    BY <1>10, <2>1, AddStack
  <2> QED
    BY <1>2, <1>4, <1>9, <2>2 DEF OneUse
<1>12. PageZero'
  <2>1. Image(StackPages') \subseteq Image(StackPages) \cup {k}
    BY <1>10 DEF Image
  <2>2. AllUses' \subseteq AllUses
    BY <1>2, <1>4, <1>9, <2>1 DEF AllUses
  <2>3. ~NothingLoaded'
    BY <1>2 DEF NothingLoaded
  <2> QED
    BY <1>1, <1>2, <2>2, <2>3, ZeroStep
<1>13. Contents'
  <2>1. dir = NONE /\ dir' = NONE /\ NONE \notin Dirs
    BY <1>1, <1>2 DEF Book, Shape, Dirs
  <2>2. \A d \in Dirs : Complete(mem, d, kpgdir)
    BY <1>1, <2>1, ContentsParts
  <2>3. \A d \in Dirs : Complete(mem', d, kpgdir)
    BY <1>8, <2>2, CompleteSame
  <2> QED
    BY <1>2, <1>4, <2>1, <2>3, ContentsParts
<1> QED
  BY <1>2, <1>4, <1>7, <1>11, <1>12, <1>13, InvParts

(* map_kernel's directory starts empty. *)
LEMMA KernelStep == ASSUME ASInv, map_kernel PROVE ASInv'
<1>1. TypeOK /\ Book /\ OneUse /\ PageZero /\ Contents
  BY InvParts
<1>2. PICK a \in free :
        /\ phase = "dir" /\ free' = free \ {a} /\ mem' = [mem EXCEPT ![a] = Zeroed]
        /\ dir' = a /\ phase' = "map" /\ r' = 1 /\ i' = 0
        /\ UNCHANGED <<kpgdir, kstack, op, nfailed>>
  BY DEF map_kernel, NewDirectory
<1>3. /\ Dirs \subseteq Page /\ free \subseteq Page /\ free \cap Dirs = {}
      /\ Image(TablePages) \cap free = {}
  BY <1>1, UseFacts
<1>4. Book' /\ Dirs' = Dirs \cup {a}
  BY <1>1, <1>2, <1>3, KernelBook
<1>5. mem \in MemType /\ a \in Page /\ a \notin Dirs
  BY <1>1, <1>3, TypeParts
<1>6. mem' \in MemType /\ mem'[a] = Zeroed /\ \A q \in Page \ {a} : mem'[q] = mem[q]
  <2>1. Zeroed \in [Words -> Entry]
    BY DEF Zeroed, Entry
  <2> QED
    BY <1>2, <1>5, <2>1 DEF MemType
<1>7. TypeOK'
  BY <1>2, <1>3, <1>4, <1>6, TypeParts DEF Book
<1>8. /\ \A d \in Dirs : mem'[d] = mem[d]
      /\ \A d \in Dirs : \A va \in VPages : Walk(mem', d, va) = Walk(mem, d, va)
      /\ TablePagesIn(mem', Dirs) = TablePages /\ UserPagesIn(mem', Dirs) = UserPages
  <2>1. {a} \cap (Dirs \cup Image(TablePages)) = {} /\ phase # "tables"
    BY <1>2, <1>3
  <2> QED
    BY <1>1, <1>6, <2>1, FrameStep
<1>9. \A k \in DirWords : mem'[a][k] = NotPresent
  BY <1>6, WordsCover DEF Zeroed
<1>10. \A va \in VPages : Walk(mem', a, va) = NotPresent
  BY <1>9, IndexTypes DEF Walk
<1>11. TablePages' = TablePages
  <2>1. TablesIn(mem', Dirs \cup {a}) = TablesIn(mem', Dirs)
    BY <1>9 DEF TablesIn
  <2>2. TablePagesIn(mem', Dirs \cup {a}) = TablePagesIn(mem', Dirs)
    BY <2>1 DEF TablePagesIn
  <2> QED
    BY <1>2, <1>4, <1>8, <2>2, UsesAre
<1>12. UserPages' = UserPages
  <2>1. Walk(mem', a, 0).us # TRUE
    BY <1>10, IndexZero, AbsentIs
  <2>2. {d \in Dirs \cup {a} : Walk(mem', d, 0).us = TRUE} = {d \in Dirs : Walk(mem', d, 0).us = TRUE}
    BY <2>1
  <2>3. UserPagesIn(mem', Dirs \cup {a}) = UserPagesIn(mem', Dirs)
    BY <2>2 DEF UserPagesIn
  <2> QED
    BY <1>4, <1>8, <2>3, UsesAre
<1>13. StackPages' = StackPages
  BY <1>2 DEF StackPages
<1>14. OneUse'
  <2>1. Layout(Dirs \cup {a}, TablePages, UserPages, StackPages, free \ {a})
    BY <1>1, AddDir DEF OneUse
  <2> QED
    BY <1>2, <1>4, <1>11, <1>12, <1>13, <2>1 DEF OneUse
<1>15. PageZero'
  <2>1. AllUses' \subseteq AllUses
    BY <1>2, <1>4, <1>11, <1>12, <1>13 DEF AllUses
  <2>2. ~NothingLoaded'
    BY <1>2 DEF NothingLoaded
  <2> QED
    BY <1>1, <1>2, <2>1, <2>2, ZeroStep
<1>16. Contents'
  <2>1. dir = NONE /\ NONE \notin Dirs
    BY <1>1, <1>2 DEF Book, Shape, Dirs
  <2>2. \A d \in Dirs : Complete(mem, d, kpgdir)
    BY <1>1, <2>1, ContentsParts
  <2>3. \A d \in Dirs : Complete(mem', d, kpgdir)
    BY <1>8, <2>2, CompleteSame
  <2>4. Frontier' = 0
    BY <1>2, Regions DEF Frontier
  <2>5. \A va \in VPages : ~(va < 0)
    BY DEF VPages
  <2>6. \A va \in VPages : Expected(dir, va)'
    BY <1>2, <1>10, <2>4, <2>5 DEF Expected
  <2> QED
    BY <1>2, <1>4, <2>3, <2>6, ContentsParts
<1> QED
  BY <1>2, <1>4, <1>7, <1>14, <1>15, <1>16, InvParts

(* One more page of the kernel map. *)
LEMMA MapStep == ASSUME ASInv, map_memory PROVE ASInv'
<1>1. TypeOK /\ Book /\ OneUse /\ PageZero /\ Contents
  BY InvParts
<1>2. /\ Book' /\ Dirs' = Dirs /\ dir \in Dirs /\ UNCHANGED <<kstack, nfailed>>
      /\ phase = "map" /\ op' \in {op, "none"}
      /\ \/ phase' = "map" /\ dir' = dir /\ i + 1 < kernel_map[r].size /\ r' = r /\ i' = i + 1
            /\ kpgdir' = kpgdir
         \/ phase' = "map" /\ dir' = dir /\ i + 1 >= kernel_map[r].size /\ r < 3
            /\ r' = r + 1 /\ i' = 0 /\ kpgdir' = kpgdir
         \/ phase' = "idle" /\ i + 1 >= kernel_map[r].size /\ r = 3 /\ Dirs = {dir}
            /\ kpgdir' = dir
         \/ phase' = "load" /\ i + 1 >= kernel_map[r].size /\ r = 3 /\ dir' = dir
            /\ kpgdir' = kpgdir
  BY <1>1, MapBook
<1>3. r \in 1 .. 3 /\ i \in Nat /\ i < kernel_map[r].size
  BY <1>1, <1>2, Sizes DEF Book, ScalarTypes, Shape
<1>4. /\ Frontier \in VPages
      /\ (kernel_map[r].va + i) % VSPACE = Frontier
      /\ [pa |-> (kernel_map[r].pa + i) % VSPACE, us |-> kernel_map[r].us] = KernelEntry(Frontier)
  BY <1>3, RegionEntry DEF Frontier
<1>5. map_page(mem, free, Frontier, KernelEntry(Frontier))
  BY <1>4 DEF map_memory
<1>6. mem \in MemType /\ KernelEntry(Frontier) \in Entry
  BY <1>1, <1>4, TypeParts, KernelEntryIs
<1>7. /\ TablePages = TablePagesIn(mem, Dirs)
      /\ Layout(Dirs, TablePagesIn(mem, Dirs), UserPages, StackPages, free)
  BY <1>1, <1>2, UsesAre DEF OneUse
<1>8. /\ Mapped(mem, mem', Dirs, dir, Frontier, KernelEntry(Frontier))
      /\ Layout(Dirs, TablePagesIn(mem', Dirs), UserPages, StackPages, free')
      /\ free' \subseteq free
      /\ Image(TablePagesIn(mem', Dirs)) \subseteq Image(TablePagesIn(mem, Dirs)) \cup free
  BY <1>2, <1>4, <1>5, <1>6, <1>7, MapPage
<1>9. TypeOK'
  BY <1>1, <1>2, <1>8, TypeParts DEF Book, Mapped
<1>10. \A va \in VPages :
         Walk(mem, dir, va) = IF va < Frontier THEN KernelEntry(va) ELSE NotPresent
  <2>1. \A va \in VPages : Expected(dir, va)
    BY <1>1, <1>2, ContentsParts
  <2> QED
    BY <1>2, <2>1 DEF Expected
<1>11. \A va \in VPages :
         Walk(mem', dir, va) = IF va <= Frontier THEN KernelEntry(va) ELSE NotPresent
  <2>1. \A va \in VPages : va \in Int
    BY DEF VPages
  <2>2. \A va \in VPages : (va <= Frontier) <=> (va < Frontier \/ va = Frontier)
    BY <1>4, <2>1
  <2> QED
    BY <1>8, <1>10, <2>2 DEF Mapped
<1>12. UserPages' = UserPages
  <2>1. 0 \in VPages /\ KernelEntry(0).us = FALSE
    BY IndexZero, KernelEntryIs
  <2>2. ~(Walk(mem, dir, 0).us = TRUE) /\ ~(Walk(mem', dir, 0).us = TRUE)
    BY <1>10, <1>11, <2>1, AbsentIs
  <2>3. \A d \in Dirs \ {dir} : Walk(mem', d, 0) = Walk(mem, d, 0)
    BY <1>8, <2>1 DEF Mapped
  <2> DEFINE U == {d \in Dirs : Walk(mem, d, 0).us = TRUE}
  <2>4. {d \in Dirs : Walk(mem', d, 0).us = TRUE} = U /\ dir \notin U
    BY <2>2, <2>3
  <2>5. \A d \in U : Walk(mem', d, 0).pa = Walk(mem, d, 0).pa
    BY <2>3, <2>4
  <2> HIDE DEF U
  <2>6. [d \in U |-> Walk(mem', d, 0).pa] = [d \in U |-> Walk(mem, d, 0).pa]
    BY <2>5
  <2>7. UserPagesIn(mem', Dirs) = UserPagesIn(mem, Dirs)
    BY <2>4, <2>6 DEF UserPagesIn, U
  <2> QED
    BY <1>2, <2>7, UsesAre
<1>13. StackPages' = StackPages /\ TablePages' = TablePagesIn(mem', Dirs)
  <2>1. StackPages' = StackPages
    BY <1>2 DEF StackPages
  <2>2. phase' # "tables"
    BY <1>2
  <2> QED
    BY <1>2, <2>1, <2>2, UsesAre
<1>14. OneUse'
  BY <1>2, <1>8, <1>12, <1>13 DEF OneUse
<1>15. PageZero'
  <2>1. AllUses' \subseteq AllUses
    BY <1>2, <1>7, <1>8, <1>12, <1>13 DEF AllUses
  <2>2. ~NothingLoaded'
    BY <1>2 DEF NothingLoaded
  <2> QED
    BY <1>1, <1>2, <2>1, <2>2, ZeroStep
<1>16. ASSUME kpgdir' = kpgdir PROVE \A d \in Dirs \ {dir} : Complete(mem', d, kpgdir')
  <2>1. \A d \in Dirs \ {dir} : Complete(mem, d, kpgdir)
    BY <1>1, ContentsParts
  <2>2. \A d \in Dirs \ {dir} : \A va \in VPages : Walk(mem', d, va) = Walk(mem, d, va)
    BY <1>8 DEF Mapped
  <2> QED
    BY <1>16, <2>1, <2>2, CompleteSame
<1>17. ASSUME i + 1 >= kernel_map[r].size, r = 3, NEW va \in VPages
       PROVE  Walk(mem', dir, va) = KernelEntry(va)
  <2>1. va <= Frontier
    <3>1. i = VSPACE - MMDEV_BASE - 1 /\ kernel_map[r].va = MMDEV_BASE
      BY <1>3, <1>17, Regions, Sizes
    <3> QED
      BY <3>1, Sizes DEF Frontier, VPages
  <2> QED
    BY <1>11, <2>1
<1>18. CASE phase' = "map" /\ dir' = dir /\ i + 1 < kernel_map[r].size /\ r' = r /\ i' = i + 1
            /\ kpgdir' = kpgdir
  <2>1. Frontier' = Frontier + 1 /\ Frontier \in Int
    <3>1. kernel_map[r].va \in Int
      <4>1. r = 1 \/ r = 2 \/ r = 3
        BY <1>3
      <4> QED
        BY <4>1, Regions, Sizes
    <3>2. Frontier' = kernel_map[r].va + (i + 1) /\ Frontier = kernel_map[r].va + i
      BY <1>18 DEF Frontier
    <3> QED
      BY <1>3, <3>1, <3>2
  <2>2. \A va \in VPages : (va < Frontier') <=> (va <= Frontier)
    BY <2>1 DEF VPages
  <2>3. \A va \in VPages : Expected(dir, va)'
    BY <1>11, <1>18, <2>2 DEF Expected
  <2>4. Contents'
    BY <1>2, <1>16, <1>18, <2>3, ContentsParts
  <2> QED
    BY <1>2, <1>18, <1>9, <1>14, <1>15, <2>4, InvParts
<1>19. CASE phase' = "map" /\ dir' = dir /\ i + 1 >= kernel_map[r].size /\ r < 3
            /\ r' = r + 1 /\ i' = 0 /\ kpgdir' = kpgdir
  <2>1. /\ Frontier' = kernel_map[r + 1].va /\ r \in 1 .. 2 /\ Frontier' \in Int /\ Frontier \in Int
        /\ Frontier + 1 = kernel_map[r].va + kernel_map[r].size
        /\ Frontier < Frontier'
    <3>1. Frontier' = kernel_map[r + 1].va + 0
      BY <1>19 DEF Frontier
    <3>2. r = 1 \/ r = 2
      BY <1>3, <1>19
    <3> QED
      BY <1>3, <1>19, <3>1, <3>2, Regions, Sizes DEF Frontier
  <2>2. ASSUME NEW va \in VPages, Frontier < va, va < Frontier'
        PROVE  KernelEntry(va) = NotPresent
    <3>1. va >= kernel_map[r].va + kernel_map[r].size /\ va < kernel_map[r + 1].va
      BY <2>1, <2>2 DEF VPages
    <3> QED
      BY <2>1, <3>1, NextRegion
  <2>3. ASSUME NEW va \in VPages
        PROVE  Walk(mem', dir, va) = IF va < Frontier' THEN KernelEntry(va) ELSE NotPresent
    <3>1. va \in Int
      BY DEF VPages
    <3>2. CASE va <= Frontier
      BY <1>11, <2>1, <3>1, <3>2
    <3>3. CASE Frontier < va
      <4>1. Walk(mem', dir, va) = NotPresent
        BY <1>11, <2>1, <3>1, <3>3
      <4> QED
        BY <2>2, <3>3, <4>1
    <3> QED
      BY <2>1, <3>1, <3>2, <3>3
  <2>4. \A va \in VPages : Expected(dir, va)'
    BY <1>19, <2>3 DEF Expected
  <2>5. Contents'
    BY <1>2, <1>16, <1>19, <2>4, ContentsParts
  <2> QED
    BY <1>2, <1>19, <1>9, <1>14, <1>15, <2>5, InvParts
<1>20. CASE phase' = "idle" /\ i + 1 >= kernel_map[r].size /\ r = 3 /\ Dirs = {dir}
            /\ kpgdir' = dir
  <2>1. Complete(mem', dir, dir)
    BY <1>17, <1>20 DEF Complete
  <2>2. dir' = NONE /\ NONE \notin Dirs'
    BY <1>2, <1>20 DEF Book, Shape, Dirs
  <2>3. Contents'
    BY <1>2, <1>20, <2>1, <2>2, ContentsParts
  <2> QED
    BY <1>2, <1>20, <1>9, <1>14, <1>15, <2>3, InvParts
<1>21. CASE phase' = "load" /\ i + 1 >= kernel_map[r].size /\ r = 3 /\ dir' = dir
            /\ kpgdir' = kpgdir
  <2>1. \A va \in VPages : Expected(dir, va)'
    BY <1>17, <1>21 DEF Expected
  <2>2. Contents'
    BY <1>2, <1>16, <1>21, <2>1, ContentsParts
  <2> QED
    BY <1>2, <1>21, <1>9, <1>14, <1>15, <2>2, InvParts
<1> QED
  BY <1>2, <1>18, <1>19, <1>20, <1>21

(* The program's page is mapped: fork and execv have a complete space. *)
LEMMA AllocStep == ASSUME ASInv, alloc_map_memory PROVE ASInv'
<1>1. TypeOK /\ Book /\ OneUse /\ PageZero /\ Contents
  BY InvParts
<1>2. /\ Book' /\ Dirs' = Dirs /\ dir \in Dirs /\ dir # kpgdir /\ UNCHANGED <<kpgdir, kstack, nfailed>>
      /\ phase = "load" /\ phase' \in {"idle", "args"} /\ op' # "fail" /\ dir' \in {dir, NONE}
  BY <1>1, AllocBook
<1>3. PICK u \in free :
        map_page([mem EXCEPT ![u] = Scribbled], free \ {u}, 0, [pa |-> u, us |-> TRUE])
  BY DEF alloc_map_memory
<1> DEFINE m == [mem EXCEPT ![u] = Scribbled]
           entry == [pa |-> u, us |-> TRUE]
<1>4. /\ Dirs \subseteq Page /\ free \subseteq Page /\ free \cap Dirs = {}
      /\ Image(TablePages) \subseteq Page /\ Image(TablePages) \cap (free \cup Dirs) = {}
  BY <1>1, UseFacts
<1>5. mem \in MemType /\ u \in Page /\ 0 \in VPages
  BY <1>1, <1>4, TypeParts, IndexZero
<1>6. m \in MemType /\ \A q \in Page \ {u} : m[q] = mem[q]
  <2>1. [pa |-> 0, us |-> TRUE] \in Entry
    BY Sizes DEF Entry
  <2>2. Scribbled \in [Words -> Entry]
    BY <2>1 DEF Scribbled
  <2> QED
    BY <1>5, <2>2 DEF MemType
<1>7. entry \in Entry /\ entry.us = TRUE /\ entry.pa = u
  <2>1. u \in 0 .. VSPACE - 1
    BY <1>5, Sizes DEF Page
  <2> QED
    BY <2>1 DEF Entry
<1>8. map_page(m, free \ {u}, 0, entry)
  BY <1>3
<1> HIDE DEF m, entry
<1>9. TablePages = TablePagesIn(mem, Dirs) /\ UserPages = UserPagesIn(mem, Dirs)
  BY <1>2, UsesAre
<1>10. ASSUME NEW d \in Dirs
       PROVE  m[d] = mem[d] /\ \A va \in VPages : Walk(m, d, va) = Walk(mem, d, va)
  <2>1. m[d] = mem[d]
    BY <1>4, <1>6
  <2>2. ASSUME NEW k \in DirWords, mem[d][k] # NotPresent
        PROVE  m[mem[d][k].pa] = mem[mem[d][k].pa]
    <3>1. mem[d][k].pa \in Image(TablePagesIn(mem, Dirs))
      BY <2>2, TablePageIs
    <3> QED
      BY <1>4, <1>6, <1>9, <3>1
  <2>3. Untouched(mem, m, d)
    BY <2>1, <2>2 DEF Untouched
  <2> QED
    BY <2>1, <2>3, WalkSame
<1>11. TablePagesIn(m, Dirs) = TablePages
  BY <1>9, <1>10, FrameTables
<1>12. \A va \in VPages : Walk(mem, dir, va) = KernelEntry(va)
  <2>1. \A va \in VPages : Expected(dir, va)
    BY <1>1, <1>2, ContentsParts
  <2> QED
    BY <1>2, <2>1 DEF Expected
<1> DEFINE U == {d \in Dirs : Walk(mem, d, 0).us = TRUE}
           g == [d \in U \cup {dir} |-> IF d = dir THEN u ELSE Walk(mem, d, 0).pa]
<1>13. dir \notin U
  BY <1>5, <1>12, KernelEntryIs
<1>14. /\ DOMAIN UserPages = U /\ dir \notin DOMAIN UserPages /\ DOMAIN g = DOMAIN UserPages \cup {dir}
       /\ g[dir] = u /\ \A d \in DOMAIN UserPages : g[d] = UserPages[d]
  BY <1>9, <1>13 DEF UserPagesIn
<1> HIDE DEF g
<1>15. Layout(Dirs, TablePagesIn(m, Dirs), g, StackPages, free \ {u})
  <2>1. Layout(Dirs, TablePages, UserPages, StackPages, free)
    BY <1>1 DEF OneUse
  <2>2. g[dir] \in free
    BY <1>14
  <2>3. Layout(Dirs, TablePages, g, StackPages, free \ {g[dir]})
    BY <1>14, <2>1, <2>2, AddUser
  <2> QED
    BY <1>11, <1>14, <2>3
<1>16. /\ Mapped(m, mem', Dirs, dir, 0, entry)
       /\ Layout(Dirs, TablePagesIn(mem', Dirs), g, StackPages, free')
       /\ free' \subseteq free \ {u}
       /\ Image(TablePagesIn(mem', Dirs)) \subseteq Image(TablePagesIn(m, Dirs)) \cup (free \ {u})
  BY <1>2, <1>5, <1>6, <1>7, <1>8, <1>15, MapPage
<1>17. TypeOK'
  BY <1>1, <1>2, <1>4, <1>16, TypeParts DEF Book, Mapped
<1>18. \A va \in VPages : Walk(mem', dir, va) = IF va = 0 THEN entry ELSE KernelEntry(va)
  BY <1>2, <1>10, <1>12, <1>16 DEF Mapped
<1>19. \A d \in Dirs \ {dir} : \A va \in VPages : Walk(mem', d, va) = Walk(mem, d, va)
  BY <1>10, <1>16 DEF Mapped
<1>20. UserPages' = g
  <2>1. Walk(mem', dir, 0).us = TRUE /\ Walk(mem', dir, 0).pa = u
    BY <1>5, <1>7, <1>18
  <2>2. \A d \in Dirs \ {dir} : Walk(mem', d, 0) = Walk(mem, d, 0)
    BY <1>5, <1>19
  <2>3. {d \in Dirs : Walk(mem', d, 0).us = TRUE} = U \cup {dir}
    BY <1>2, <2>1, <2>2
  <2>4. \A d \in U \cup {dir} : Walk(mem', d, 0).pa = IF d = dir THEN u ELSE Walk(mem, d, 0).pa
    BY <2>1, <2>2
  <2> HIDE DEF U
  <2>5. [d \in U \cup {dir} |-> Walk(mem', d, 0).pa] = g
    BY <2>4 DEF g
  <2>6. UserPagesIn(mem', Dirs) = g
    BY <2>3, <2>5 DEF UserPagesIn
  <2> QED
    BY <1>2, <2>6, UsesAre
<1>21. StackPages' = StackPages /\ TablePages' = TablePagesIn(mem', Dirs)
  <2>1. StackPages' = StackPages
    BY <1>2 DEF StackPages
  <2>2. phase' # "tables"
    BY <1>2
  <2> QED
    BY <1>2, <2>1, <2>2, UsesAre
<1>22. OneUse'
  BY <1>2, <1>16, <1>20, <1>21 DEF OneUse
<1>23. PageZero'
  <2>1. Image(g) \subseteq Image(UserPages) \cup {u}
    BY <1>14 DEF Image
  <2>2. AllUses' \subseteq AllUses
    BY <1>2, <1>11, <1>16, <1>20, <1>21, <2>1 DEF AllUses
  <2>3. ~NothingLoaded'
    BY <1>2 DEF NothingLoaded
  <2> QED
    BY <1>1, <1>2, <2>2, <2>3, ZeroStep
<1>24. Complete(mem', dir, kpgdir)
  BY <1>2, <1>5, <1>7, <1>18 DEF Complete
<1>25. Contents'
  <2>1. \A d \in Dirs \ {dir} : Complete(mem, d, kpgdir)
    BY <1>1, ContentsParts
  <2>2. \A d \in Dirs \ {dir} : Complete(mem', d, kpgdir)
    BY <1>19, <2>1, CompleteSame
  <2>3. dir' = dir => phase' = "args"
    BY <1>2 DEF Book, Shape, Dirs
  <2>4. dir' = dir => \A va \in VPages : Expected(dir, va)'
    BY <1>2, <1>24, <2>3 DEF Expected, Complete, Loaded
  <2>5. NONE \notin Dirs'
    BY DEF Dirs
  <2> QED
    BY <1>2, <1>24, <2>2, <2>4, <2>5, ContentsParts
<1> QED
  BY <1>2, <1>17, <1>22, <1>23, <1>25, InvParts

(* The link that kfree writes. *)
Linked(m, p) == [m EXCEPT ![p][0] = NotPresent]

(* It changes the first word of one page. *)
LEMMA LinkIs ==
  ASSUME NEW m \in MemType, NEW p \in Page
  PROVE  /\ Linked(m, p) \in MemType
         /\ \A q \in Page : q # p => Linked(m, p)[q] = m[q]
         /\ Linked(m, p)[p][0] = NotPresent
         /\ \A q \in Page, w \in Words : w # 0 => Linked(m, p)[q][w] = m[q][w]
<1> DEFINE row == [m[p] EXCEPT ![0] = NotPresent]
<1>1. m[p] \in [Words -> Entry] /\ 0 \in Words /\ NotPresent \in Entry
  BY WordsCover, AbsentIs DEF MemType
<1>2. row \in [Words -> Entry] /\ row[0] = NotPresent /\ \A w \in Words : w # 0 => row[w] = m[p][w]
  BY <1>1
<1>3. Linked(m, p) = [m EXCEPT ![p] = row]
  BY DEF Linked, MemType
<1> HIDE DEF row
<1>4. Linked(m, p) \in MemType
  BY <1>2, <1>3 DEF MemType
<1>5. Linked(m, p)[p] = row /\ \A q \in Page : q # p => Linked(m, p)[q] = m[q]
  BY <1>3 DEF MemType
<1> QED
  BY <1>2, <1>4, <1>5

(* Freeing the program's page unmaps it first; after an execv that found   *)
(* no program it is page 0 that is freed.                                  *)
LEMMA UnmapStep == ASSUME ASInv, unmap_page PROVE ASInv'
<1>1. TypeOK /\ Book /\ OneUse /\ PageZero /\ Contents
  BY InvParts
<1>2. /\ Book' /\ Dirs' = Dirs /\ dir \in Dirs /\ dir # kpgdir
      /\ phase = "unmap" /\ phase' = "tables"
      /\ i' = 0 /\ UNCHANGED <<kpgdir, dir, op, kstack, nfailed>>
  BY <1>1, UnmapBook
<1> DEFINE t0 == mem[dir][0].pa
           x == Walk(mem, dir, 0).pa
           m == Linked(mem, t0)
<1>3. 0 \in VPages /\ PdeIndex(0) = 0 /\ PteIndex(0) = 0 /\ 0 \in DirWords
  BY IndexZero
<1>4. Walk(mem, dir, 0) # NotPresent /\ free' = free \cup {x} /\ mem' = Linked(m, x)
  BY <1>3 DEF unmap_page, kfree, walk_pgdir, Walk, Linked
<1>5. mem[dir][0] # NotPresent
  BY <1>3, <1>4 DEF Walk
<1>6. /\ Dirs \subseteq Page /\ free \subseteq Page /\ free \cap Dirs = {}
      /\ Image(TablePages) \subseteq Page /\ Image(TablePages) \cap (free \cup Dirs) = {}
      /\ Image(UserPages) \subseteq Page /\ Injective(TablePages)
      /\ Image(UserPages) \cap (free \cup Dirs \cup Image(TablePages)) = {}
  BY <1>1, UseFacts
<1>7. TablePages = TablePagesIn(mem, Dirs) /\ UserPages = UserPagesIn(mem, Dirs)
  BY <1>2, UsesAre
<1>8. t0 \in Image(TablePages) /\ t0 \in Page
  BY <1>2, <1>3, <1>5, <1>6, <1>7, TablePageIs
<1>9. \/ Loaded(dir) /\ ~NothingLoaded
      \/ ~Loaded(dir) /\ NothingLoaded /\ x = 0
  <2>1. \A va \in VPages : Expected(dir, va)
    BY <1>1, <1>2, ContentsParts
  <2>2. Loaded(dir) \/ (op = "fail" /\ Walk(mem, dir, 0) = KernelEntry(0))
    BY <1>2, <1>3, <2>1 DEF Expected
  <2>3. KernelEntry(0).pa = 0
    BY KernelEntryIs
  <2> QED
    BY <1>2, <2>2, <2>3 DEF NothingLoaded
<1> DEFINE U == {d \in Dirs : Walk(mem, d, 0).us = TRUE}
<1>10. DOMAIN UserPages = U /\ \A d \in U : UserPages[d] = Walk(mem, d, 0).pa
  BY <1>7 DEF UserPagesIn
<1>11. /\ x \in Page /\ x \notin Dirs /\ x \notin Image(TablePages) /\ x \notin free
       /\ nfailed = 0 => x # 0
  <2>1. CASE Loaded(dir)
    <3>1. dir \in U
      BY <1>2, <2>1 DEF Loaded
    <3>2. x \in Image(UserPages)
      BY <1>10, <3>1 DEF Image
    <3> QED
      BY <1>1, <1>6, <3>2 DEF PageZero
  <2>2. CASE NothingLoaded /\ x = 0
    <3>1. 0 \in Page
      BY Sizes DEF Page
    <3> QED
      BY <1>1, <2>2, <3>1 DEF PageZero
  <2> QED
    BY <1>9, <2>1, <2>2
<1> HIDE DEF t0, x
<1>12. mem \in MemType
  BY <1>1, TypeParts
<1>13. /\ m \in MemType /\ m[t0][0] = NotPresent
       /\ \A q \in Page : q # t0 => m[q] = mem[q]
       /\ \A q \in Page, w \in Words : w # 0 => m[q][w] = mem[q][w]
  BY <1>8, <1>12, LinkIs
<1> HIDE DEF m
<1>14. /\ mem' \in MemType
       /\ \A q \in Page : q # x => mem'[q] = m[q]
       /\ \A q \in Page, w \in Words : w # 0 => mem'[q][w] = m[q][w]
  BY <1>4, <1>11, <1>13, LinkIs
<1>15. /\ mem'[t0][0] = NotPresent
       /\ \A q \in Page : q # t0 /\ q # x => mem'[q] = mem[q]
       /\ \A q \in Page, w \in Words : w # 0 => mem'[q][w] = mem[q][w]
  BY <1>8, <1>11, <1>13, <1>14
<1>16. TypeOK'
  BY <1>2, <1>4, <1>6, <1>11, <1>14, TypeParts DEF Book
<1>17. \A d \in Dirs : mem'[d] = mem[d]
  BY <1>6, <1>8, <1>11, <1>15
<1>18. ASSUME NEW d \in Dirs, NEW k \in DirWords, mem[d][k] # NotPresent
       PROVE  /\ mem[d][k].pa \in Page /\ mem[d][k].pa # x
              /\ mem[d][k].pa = t0 => d = dir
  <2>1. mem[d][k].pa \in Image(TablePages)
    BY <1>7, <1>18, TablePageIs
  <2>2. mem[d][k].pa = mem[dir][0].pa => d = dir
    BY <1>2, <1>3, <1>5, <1>6, <1>7, <1>18, TablesApart
  <2> QED
    BY <1>6, <1>11, <2>1, <2>2 DEF t0
<1>19. ASSUME NEW d \in Dirs \ {dir}
       PROVE  \A va \in VPages : Walk(mem', d, va) = Walk(mem, d, va)
  <2>1. Untouched(mem, mem', d)
    BY <1>15, <1>17, <1>18 DEF Untouched
  <2> QED
    BY <2>1, WalkSame
<1>20. \A va \in VPages : PteIndex(va) # 0 => Walk(mem', dir, va) = Walk(mem, dir, va)
  <2>1. UntouchedButFirst(mem, mem', dir)
    BY <1>2, <1>15, <1>17, <1>18 DEF UntouchedButFirst
  <2> QED
    BY <2>1, WalkSameButFirst
<1>21. Walk(mem', dir, 0) = NotPresent
  BY <1>2, <1>3, <1>5, <1>15, <1>17 DEF Walk, t0
<1>22. TablePages' = TablePages
  <2>1. HeldTables' = TablesIn(mem', Dirs)
    <3>1. \A k \in DirWords : ~(k < i')
      BY <1>2 DEF DirWords
    <3> QED
      BY <1>2, <3>1 DEF HeldTables, TablesIn
  <2>2. TablePages' = TablePagesIn(mem', Dirs)
    BY <2>1 DEF TablePages, TablePagesIn
  <2> QED
    BY <1>7, <1>17, <2>2, FrameTables
<1>23. /\ DOMAIN UserPages' = U \ {dir}
       /\ \A d \in U \ {dir} : UserPages'[d] = UserPages[d]
  <2>1. UserPages' = UserPagesIn(mem', Dirs)
    BY <1>2, UsesAre
  <2>2. ~(Walk(mem', dir, 0).us = TRUE)
    BY <1>21, AbsentIs
  <2>3. \A d \in Dirs \ {dir} : Walk(mem', d, 0) = Walk(mem, d, 0)
    BY <1>3, <1>19
  <2>4. {d \in Dirs : Walk(mem', d, 0).us = TRUE} = U \ {dir}
    BY <2>2, <2>3
  <2> QED
    BY <1>10, <2>1, <2>3, <2>4 DEF UserPagesIn
<1>24. StackPages' = StackPages
  BY <1>2 DEF StackPages
<1>25. Layout(Dirs, TablePages, UserPages, StackPages, free)
  BY <1>1 DEF OneUse
<1>26. OneUse' /\ Image(UserPages') \subseteq Image(UserPages)
  <2>1. CASE Loaded(dir)
    <3>1. dir \in DOMAIN UserPages /\ UserPages[dir] = x
      BY <1>2, <1>10, <2>1 DEF Loaded, x
    <3>2. Layout(Dirs, TablePages, UserPages', StackPages, free \cup {UserPages[dir]})
      BY <1>10, <1>23, <1>25, <3>1, DropUser
    <3>3. Image(UserPages') \subseteq Image(UserPages)
      BY <1>10, <1>23 DEF Image
    <3> QED
      BY <1>2, <1>4, <1>22, <1>24, <3>1, <3>2, <3>3 DEF OneUse
  <2>2. CASE ~Loaded(dir) /\ NothingLoaded /\ x = 0
    <3>1. dir \notin U
      BY <2>2 DEF Loaded
    <3>2. Image(UserPages') = Image(UserPages) /\ Injective(UserPages')
      BY <1>10, <1>23, <1>25, <3>1 DEF Image, Injective, Layout
    <3>3. 0 \notin Dirs \cup Image(TablePages) \cup Image(UserPages) \cup Image(StackPages)
      BY <1>1, <2>2 DEF PageZero
    <3>4. Layout(Dirs, TablePages, UserPages', StackPages, free \cup {0})
      BY <1>25, <3>2, <3>3 DEF Layout
    <3> QED
      BY <1>2, <1>4, <1>22, <1>24, <2>2, <3>2, <3>4 DEF OneUse
  <2> QED
    BY <1>9, <2>1, <2>2
<1>27. PageZero'
  <2>1. ~NothingLoaded'
    BY <1>2 DEF NothingLoaded
  <2>2. nfailed = 0 => 0 \notin AllUses
    BY <1>1 DEF PageZero, AllUses
  <2>3. nfailed = 0 => 0 \notin AllUses'
    BY <1>2, <1>4, <1>11, <1>22, <1>24, <1>26, <2>2 DEF AllUses
  <2> QED
    BY <1>2, <2>1, <2>3 DEF PageZero, AllUses
<1>28. Contents'
  <2>1. \A d \in Dirs \ {dir} : Complete(mem, d, kpgdir)
    BY <1>1, ContentsParts
  <2>2. \A d \in Dirs \ {dir} : Complete(mem', d, kpgdir)
    BY <1>19, <2>1, CompleteSame
  <2>3. \A va \in VPages : Expected(dir, va)
    BY <1>1, <1>2, ContentsParts
  <2>4. \A va \in VPages : PteIndex(va) # 0 => Walk(mem', dir, va) = KernelEntry(va)
    BY <1>2, <1>3, <1>20, <2>3 DEF Expected
  <2>5. ~(Walk(mem', dir, 0).us = TRUE)
    BY <1>21, AbsentIs
  <2>6. \A va \in VPages : Expected(dir, va)'
    BY <1>2, <2>4, <2>5 DEF Expected, Loaded
  <2> QED
    BY <1>2, <2>2, <2>6, ContentsParts
<1>29. FreedTables'
  <2>1. \A k \in DirWords : ~(k < i')
    BY <1>2 DEF DirWords
  <2> QED
    BY <2>1 DEF FreedTables
<1> QED
  BY <1>2, <1>16, <1>26, <1>27, <1>28, <1>29, InvParts

(* Tables that are held, while tables are being freed. *)
LEMMA HeldPages ==
  ASSUME TypeOK, OneUse, NEW d \in Dirs, NEW k \in DirWords, mem[d][k] # NotPresent,
         ~(d = dir /\ phase = "tables" /\ k < i)
  PROVE  /\ <<d, k>> \in HeldTables /\ TablePages[<<d, k>>] = mem[d][k].pa
         /\ mem[d][k].pa \in Image(TablePages) /\ DOMAIN TablePages = HeldTables
<1>1. <<d, k>> \in HeldTables
  BY DEF HeldTables
<1>2. DOMAIN TablePages = HeldTables /\ TablePages[<<d, k>>] = mem[d][k].pa
  BY <1>1 DEF TablePages
<1> QED
  BY <1>1, <1>2 DEF Image

(* A directory that is not being destroyed has only tables that are held,  *)
(* so a step that writes none of these does not change what it maps.       *)
LEMMA FrameOther ==
  ASSUME TypeOK, OneUse, NEW d \in Dirs \ {dir}, NEW W, W \cap (Dirs \ {dir}) = {},
         \A h \in HeldTables : h[1] = d => TablePages[h] \notin W,
         \A p \in Page \ W : mem'[p] = mem[p]
  PROVE  \A va \in VPages : Walk(mem', d, va) = Walk(mem, d, va)
<1>1. Dirs \subseteq Page /\ Image(TablePages) \subseteq Page
  BY UseFacts
<1>2. mem'[d] = mem[d]
  BY <1>1
<1>3. ASSUME NEW k \in DirWords, mem[d][k] # NotPresent
      PROVE  mem'[mem[d][k].pa] = mem[mem[d][k].pa]
  <2>1. /\ <<d, k>> \in HeldTables /\ TablePages[<<d, k>>] = mem[d][k].pa
        /\ mem[d][k].pa \in Image(TablePages)
    BY <1>3, HeldPages
  <2>2. mem[d][k].pa \notin W /\ mem[d][k].pa \in Page
    BY <1>1, <2>1
  <2> QED
    BY <2>2
<1>4. Untouched(mem, mem', d)
  BY <1>2, <1>3 DEF Untouched
<1> QED
  BY <1>4, WalkSame

(* One iteration of destroy_address_space. *)
LEMMA TableStep == ASSUME ASInv, destroy_table PROVE ASInv'
<1>1. TypeOK /\ Book /\ OneUse /\ PageZero /\ Contents /\ FreedTables
  BY InvParts
<1>2. /\ Book' /\ Dirs' = Dirs /\ dir \in Dirs /\ dir # kpgdir
      /\ phase = "tables" /\ phase' = "tables"
      /\ i \in DirWords /\ i' = i + 1 /\ UNCHANGED <<kpgdir, dir, op, kstack, nfailed>>
  BY <1>1, TableBook
<1>3. StackPages' = StackPages /\ ~NothingLoaded'
  BY <1>2 DEF StackPages, NothingLoaded
<1>4. \A k \in DirWords : k < i' <=> k < i \/ k = i
  BY <1>2 DEF DirWords
<1>5. \A va \in VPages : Expected(dir, va)
  BY <1>1, <1>2, ContentsParts
<1>6. /\ \A va \in VPages : PteIndex(va) # 0 => Walk(mem, dir, va) = KernelEntry(va)
      /\ ~(Walk(mem, dir, 0).us = TRUE)
  BY <1>2, <1>5, IndexZero DEF Expected, Loaded
<1>7. \A d \in Dirs \ {dir} : Complete(mem, d, kpgdir)
  BY <1>1, ContentsParts
<1>8. CASE mem[dir][i] = NotPresent
  <2>1. UNCHANGED <<mem, free>>
    BY <1>8 DEF destroy_table
  <2>2. HeldTables' = HeldTables
    BY <1>2, <1>4, <1>8, <2>1 DEF HeldTables
  <2>3. TablePages' = TablePages
    BY <2>1, <2>2 DEF TablePages
  <2>4. UserPages' = UserPages
    BY <1>2, <2>1, UsesAre
  <2>5. TypeOK'
    BY <1>1, <1>2, <2>1, TypeParts DEF Book
  <2>6. OneUse' /\ AllUses' = AllUses
    BY <1>1, <1>2, <1>3, <2>1, <2>3, <2>4 DEF OneUse, AllUses
  <2>7. PageZero'
    BY <1>1, <1>2, <1>3, <2>6, ZeroStep
  <2>8. \A va \in VPages : Expected(dir, va)'
    BY <1>2, <1>6, <2>1 DEF Expected, Loaded
  <2>9. Contents'
    BY <1>2, <1>7, <2>1, <2>8, ContentsParts
  <2>10. FreedTables'
    BY <1>1, <1>2, <1>4, <1>8, <2>1 DEF FreedTables
  <2> QED
    BY <1>2, <2>5, <2>6, <2>7, <2>9, <2>10, InvParts
<1>9. CASE mem[dir][i] # NotPresent
  <2> DEFINE t == mem[dir][i].pa
             x == <<dir, i>>
  <2>1. free' = free \cup {t} /\ mem' = Linked(mem, t)
    BY <1>9 DEF destroy_table, kfree, Linked
  <2>2. ~(i < i)
    BY <1>2 DEF DirWords
  <2>3. x \in HeldTables /\ TablePages[x] = t /\ t \in Image(TablePages) /\ DOMAIN TablePages = HeldTables
    BY <1>1, <1>2, <1>9, <2>2, HeldPages
  <2>4. /\ Dirs \subseteq Page /\ free \subseteq Page /\ free \cap Dirs = {}
        /\ Image(TablePages) \subseteq Page /\ Image(TablePages) \cap (free \cup Dirs) = {}
        /\ Injective(TablePages)
    BY <1>1, UseFacts
  <2>5. t \in Page /\ t \notin Dirs /\ mem \in MemType
    BY <1>1, <2>3, <2>4, TypeParts
  <2> HIDE DEF t
  <2>6. /\ mem' \in MemType /\ mem'[t][0] = NotPresent
        /\ \A q \in Page : q # t => mem'[q] = mem[q]
        /\ \A q \in Page, w \in Words : w # 0 => mem'[q][w] = mem[q][w]
    BY <2>1, <2>5, LinkIs
  <2>7. TypeOK'
    BY <1>2, <2>1, <2>4, <2>5, <2>6, TypeParts DEF Book
  <2>8. \A d \in Dirs : mem'[d] = mem[d]
    BY <2>4, <2>5, <2>6
  <2>9. ASSUME NEW d \in Dirs \ {dir}
        PROVE  \A va \in VPages : Walk(mem', d, va) = Walk(mem, d, va)
    <3>1. \A h \in HeldTables : h[1] = d => TablePages[h] \notin {t}
      BY <2>3, <2>4 DEF Injective
    <3>2. {t} \cap (Dirs \ {dir}) = {} /\ \A q \in Page \ {t} : mem'[q] = mem[q]
      BY <2>5, <2>6
    <3> QED
      BY <1>1, <3>1, <3>2, FrameOther
  <2>10. HeldTables' = HeldTables \ {x}
    BY <1>2, <1>4, <2>8 DEF HeldTables
  <2>11. \A h \in HeldTables' : TablePages'[h] = TablePages[h] /\ DOMAIN TablePages' = HeldTables'
    <3>1. \A h \in HeldTables' : h[1] \in Dirs
      BY <1>2 DEF HeldTables
    <3>2. \A h \in HeldTables' : mem'[h[1]][h[2]].pa = mem[h[1]][h[2]].pa
      BY <2>8, <3>1
    <3> QED
      BY <2>10, <3>2 DEF TablePages
  <2>12. DOMAIN TablePages' = HeldTables'
    BY DEF TablePages
  <2>13. \A k \in DirWords : mem[dir][k] # NotPresent => mem[dir][k].pa \in Page
    <3> SUFFICES ASSUME NEW k \in DirWords, mem[dir][k] # NotPresent PROVE mem[dir][k].pa \in Page
      OBVIOUS
    <3>1. CASE k < i
      BY <1>1, <1>2, <2>4, <3>1 DEF FreedTables
    <3>2. CASE ~(k < i)
      BY <1>1, <1>2, <2>4, <3>2, HeldPages
    <3> QED
      BY <3>1, <3>2
  <2>14. \A va \in VPages : PteIndex(va) # 0 => Walk(mem', dir, va) = KernelEntry(va)
    <3>1. UntouchedButFirst(mem, mem', dir)
      BY <1>2, <2>6, <2>8, <2>13 DEF UntouchedButFirst
    <3> QED
      BY <1>6, <3>1, WalkSameButFirst
  <2>15. ~(Walk(mem', dir, 0).us = TRUE)
    <3>1. PdeIndex(0) = 0 /\ PteIndex(0) = 0 /\ 0 \in DirWords
      BY IndexZero
    <3>2. CASE mem[dir][0] = NotPresent
      BY <1>2, <2>8, <3>1, <3>2, AbsentIs DEF Walk
    <3>3. CASE mem[dir][0] # NotPresent
      <4>1. /\ Walk(mem', dir, 0) = mem'[mem[dir][0].pa][0]
            /\ Walk(mem, dir, 0) = mem[mem[dir][0].pa][0]
        BY <1>2, <2>8, <3>1, <3>3 DEF Walk
      <4>2. mem[dir][0].pa \in Page
        BY <2>13, <3>1, <3>3
      <4> QED
        BY <1>6, <2>6, <4>1, <4>2, AbsentIs
    <3> QED
      BY <3>2, <3>3
  <2>16. UserPages' = UserPages
    <3>1. \A d \in Dirs \ {dir} : Walk(mem', d, 0) = Walk(mem, d, 0)
      BY <2>9, IndexZero
    <3> DEFINE U == {d \in Dirs : Walk(mem, d, 0).us = TRUE}
    <3>2. {d \in Dirs : Walk(mem', d, 0).us = TRUE} = U /\ dir \notin U
      BY <1>6, <2>15, <3>1
    <3>3. \A d \in U : Walk(mem', d, 0).pa = Walk(mem, d, 0).pa
      BY <3>1, <3>2
    <3> HIDE DEF U
    <3>4. [d \in U |-> Walk(mem', d, 0).pa] = [d \in U |-> Walk(mem, d, 0).pa]
      BY <3>3
    <3>5. UserPagesIn(mem', Dirs) = UserPagesIn(mem, Dirs)
      BY <3>2, <3>4 DEF UserPagesIn, U
    <3> QED
      BY <1>2, <3>5, UsesAre
  <2>17. OneUse'
    <3>1. Layout(Dirs, TablePages, UserPages, StackPages, free)
      BY <1>1 DEF OneUse
    <3>2. Layout(Dirs, TablePages', UserPages, StackPages, free \cup {TablePages[x]})
      BY <2>3, <2>10, <2>11, <2>12, <3>1, DropTable
    <3> QED
      BY <1>2, <1>3, <2>1, <2>3, <2>16, <3>2 DEF OneUse
  <2>18. PageZero'
    <3>1. Image(TablePages') \subseteq Image(TablePages)
      BY <2>3, <2>10, <2>11, <2>12 DEF Image
    <3>2. AllUses' \subseteq AllUses
      BY <1>2, <1>3, <2>1, <2>3, <2>16, <3>1 DEF AllUses
    <3> QED
      BY <1>1, <1>2, <1>3, <3>2, ZeroStep
  <2>19. Contents'
    <3>1. \A d \in Dirs \ {dir} : Complete(mem', d, kpgdir)
      BY <1>7, <2>9, CompleteSame
    <3>2. \A va \in VPages : Expected(dir, va)'
      BY <1>2, <2>14, <2>15 DEF Expected, Loaded
    <3> QED
      BY <1>2, <3>1, <3>2, ContentsParts
  <2>20. FreedTables'
    <3>1. ASSUME NEW k \in DirWords, k < i', mem'[dir][k] # NotPresent
          PROVE  mem'[dir][k].pa \in free'
      <4>1. mem'[dir][k] = mem[dir][k]
        BY <1>2, <2>8
      <4>2. CASE k < i
        BY <1>1, <1>2, <2>1, <3>1, <4>1, <4>2 DEF FreedTables
      <4>3. CASE k = i
        BY <2>1, <4>1, <4>3 DEF t
      <4> QED
        BY <1>4, <3>1, <4>2, <4>3
    <3> QED
      BY <1>2, <3>1 DEF FreedTables
  <2> QED
    BY <1>2, <2>7, <2>17, <2>18, <2>19, <2>20, InvParts
<1> QED
  BY <1>8, <1>9

(* The end of destroy_address_space: all tables of dir are free by now, so *)
(* what is freed and scribbled over belongs to no other space.             *)
LEMMA DestroyStep == ASSUME ASInv, destroy_address_space PROVE ASInv'
<1>1. TypeOK /\ Book /\ OneUse /\ PageZero /\ Contents /\ FreedTables
  BY InvParts
<1>2. /\ Book' /\ Dirs' = Dirs \ {dir} /\ dir \in Dirs
      /\ phase = "tables" /\ i = PDE_SIZE /\ phase' = "idle" /\ dir' = NONE
      /\ op \in {"execv", "fail", "reap"} /\ UNCHANGED <<kpgdir, nfailed>>
      /\ op = "reap" => /\ who \in Procs /\ kstack[who] # NONE
                        /\ kstack' = [kstack EXCEPT ![who] = NONE]
      /\ op # "reap" => kstack' = kstack
  BY <1>1, DestroyBook
<1> DEFINE S == IF op = "reap" THEN {kstack[who]} ELSE {}
<1>3. /\ free' = free \cup {dir} \cup S
      /\ mem' = [p \in Page |-> IF p \in free' THEN Scribbled ELSE mem[p]]
  BY DEF destroy_address_space
<1>4. /\ Dirs \subseteq Page /\ free \subseteq Page /\ free \cap Dirs = {}
      /\ Image(TablePages) \subseteq Page /\ Image(TablePages) \cap (free \cup Dirs) = {}
      /\ Image(StackPages) \subseteq Page
      /\ Image(StackPages) \cap (free \cup Dirs \cup Image(TablePages)) = {}
  BY <1>1, UseFacts
<1>5. kstack \in [Procs -> Page \cup {NONE}] /\ mem \in MemType
  BY <1>1, TypeParts DEF Book, ScalarTypes
<1>6. S \subseteq Image(StackPages)
  <2>1. DOMAIN StackPages = {p \in Procs : kstack[p] # NONE}
    BY DEF StackPages
  <2>2. \A p \in Procs : kstack[p] # NONE => kstack[p] \in Image(StackPages)
    BY <2>1 DEF StackPages, Image
  <2> QED
    BY <1>2, <2>2
<1> HIDE DEF S
<1>7. mem' \in MemType /\ \A p \in Page \ free' : mem'[p] = mem[p]
  <2>1. [pa |-> 0, us |-> TRUE] \in Entry
    BY Sizes DEF Entry
  <2>2. Scribbled \in [Words -> Entry]
    BY <2>1 DEF Scribbled
  <2> QED
    BY <1>3, <1>5, <2>2 DEF MemType
<1>8. TypeOK'
  <2>1. free' \subseteq Page
    BY <1>2, <1>3, <1>4, <1>6
  <2> QED
    BY <1>2, <1>7, <2>1, TypeParts DEF Book
<1>9. free' \cap (Dirs \ {dir}) = {} /\ free' \cap Image(TablePages) = {}
  BY <1>2, <1>3, <1>4, <1>6
<1>10. \A d \in Dirs \ {dir} : mem'[d] = mem[d]
  BY <1>4, <1>7, <1>9
<1>11. ASSUME NEW d \in Dirs \ {dir}
       PROVE  \A va \in VPages : Walk(mem', d, va) = Walk(mem, d, va)
  <2>1. \A h \in HeldTables : TablePages[h] \in Image(TablePages)
    BY DEF TablePages, Image
  <2>2. \A h \in HeldTables : h[1] = d => TablePages[h] \notin free'
    BY <1>9, <2>1
  <2> QED
    BY <1>1, <1>7, <1>9, <2>2, FrameOther
<1>12. TablePages' = TablePages
  <2>1. \A k \in DirWords : k < i
    BY <1>2, Sizes DEF DirWords
  <2>2. HeldTables' = HeldTables
    <3>1. HeldTables' = {h \in (Dirs \ {dir}) \X DirWords : mem'[h[1]][h[2]] # NotPresent}
      BY <1>2 DEF HeldTables
    <3>2. HeldTables = {h \in (Dirs \ {dir}) \X DirWords : mem[h[1]][h[2]] # NotPresent}
      BY <1>2, <2>1 DEF HeldTables
    <3> QED
      BY <1>10, <3>1, <3>2
  <2>3. \A h \in HeldTables : h[1] \in Dirs \ {dir}
    BY <1>2, <2>1 DEF HeldTables
  <2>4. \A h \in HeldTables : mem'[h[1]][h[2]].pa = mem[h[1]][h[2]].pa
    BY <1>10, <2>3
  <2> QED
    BY <2>2, <2>4 DEF TablePages
<1>13. UserPages' = UserPages
  <2>1. ~(Walk(mem, dir, 0).us = TRUE)
    <3>1. \A va \in VPages : Expected(dir, va)
      BY <1>1, <1>2, ContentsParts
    <3> QED
      BY <1>2, <3>1, IndexZero DEF Expected, Loaded
  <2>2. \A d \in Dirs \ {dir} : Walk(mem', d, 0) = Walk(mem, d, 0)
    BY <1>11, IndexZero
  <2> DEFINE U == {d \in Dirs : Walk(mem, d, 0).us = TRUE}
  <2>3. {d \in Dirs \ {dir} : Walk(mem', d, 0).us = TRUE} = U /\ dir \notin U
    BY <2>1, <2>2
  <2>4. \A d \in U : Walk(mem', d, 0).pa = Walk(mem, d, 0).pa
    BY <2>2, <2>3
  <2> HIDE DEF U
  <2>5. [d \in U |-> Walk(mem', d, 0).pa] = [d \in U |-> Walk(mem, d, 0).pa]
    BY <2>4
  <2>6. UserPagesIn(mem', Dirs \ {dir}) = UserPagesIn(mem, Dirs)
    BY <2>3, <2>5 DEF UserPagesIn, U
  <2> QED
    BY <1>2, <2>6, UsesAre
<1>14. Layout(Dirs \ {dir}, TablePages, UserPages, StackPages, free \cup {dir})
  BY <1>1, <1>2, DropDir DEF OneUse
<1>15. OneUse' /\ Image(StackPages') \subseteq Image(StackPages)
  <2>1. CASE op = "reap"
    <3>1. kstack'[who] = NONE /\ \A p \in Procs : p # who => kstack'[p] = kstack[p]
      BY <1>2, <1>5, <2>1
    <3>2. {p \in Procs : kstack'[p] # NONE} = {p \in Procs : kstack[p] # NONE} \ {who}
      BY <3>1
    <3>3. /\ DOMAIN StackPages = {p \in Procs : kstack[p] # NONE}
          /\ DOMAIN StackPages' = {p \in Procs : kstack'[p] # NONE}
          /\ \A p \in DOMAIN StackPages : StackPages[p] = kstack[p]
          /\ \A p \in DOMAIN StackPages' : StackPages'[p] = kstack'[p]
      BY DEF StackPages
    <3> HIDE DEF NONE
    <3>4. /\ who \in DOMAIN StackPages /\ DOMAIN StackPages' = DOMAIN StackPages \ {who}
          /\ StackPages[who] = kstack[who]
          /\ \A p \in DOMAIN StackPages' : StackPages'[p] = StackPages[p]
      BY <1>2, <2>1, <3>1, <3>2, <3>3
    <3>5. Layout(Dirs \ {dir}, TablePages, UserPages, StackPages',
                 (free \cup {dir}) \cup {StackPages[who]})
      BY <1>14, <3>4, DropStack
    <3>6. Image(StackPages') \subseteq Image(StackPages)
      BY <3>4 DEF Image
    <3>7. free' = (free \cup {dir}) \cup {StackPages[who]}
      BY <1>3, <2>1, <3>4 DEF S
    <3> QED
      BY <1>2, <1>12, <1>13, <3>5, <3>6, <3>7 DEF OneUse
  <2>2. CASE op # "reap"
    <3>1. StackPages' = StackPages
      BY <1>2, <2>2 DEF StackPages
    <3>2. free' = free \cup {dir}
      BY <1>3, <2>2 DEF S
    <3> QED
      BY <1>2, <1>12, <1>13, <1>14, <3>1, <3>2 DEF OneUse
  <2> QED
    BY <2>1, <2>2
<1>16. PageZero'
  <2>1. AllUses' \subseteq AllUses
    BY <1>2, <1>3, <1>6, <1>12, <1>13, <1>15 DEF AllUses
  <2>2. ~NothingLoaded'
    BY <1>2 DEF NothingLoaded
  <2> QED
    BY <1>1, <1>2, <2>1, <2>2, ZeroStep
<1>17. Contents'
  <2>1. \A d \in Dirs \ {dir} : Complete(mem, d, kpgdir)
    BY <1>1, ContentsParts
  <2>2. \A d \in Dirs \ {dir} : Complete(mem', d, kpgdir)
    BY <1>11, <2>1, CompleteSame
  <2>3. NONE \notin Dirs'
    BY DEF Dirs
  <2> QED
    BY <1>2, <2>2, <2>3, ContentsParts
<1> QED
  BY <1>2, <1>8, <1>15, <1>16, <1>17, InvParts

(* main() enters map_kernel with every page of the pool free. *)
LEMMA InitASInv == Init => ASInv
<1> SUFFICES ASSUME Init PROVE ASInv
  OBVIOUS
<1>1. Dirs = {}
  BY DEF Init, Dirs
<1>2. HeldTables = {} /\ DOMAIN TablePages = {}
  BY <1>1 DEF HeldTables, TablePages
<1>3. DOMAIN UserPages = {}
  BY <1>1 DEF UserPages
<1>4. DOMAIN StackPages = {}
  BY DEF Init, StackPages
<1>5. Image(TablePages) = {} /\ Image(UserPages) = {} /\ Image(StackPages) = {}
  BY <1>2, <1>3, <1>4 DEF Image
<1>6. Injective(TablePages) /\ Injective(UserPages) /\ Injective(StackPages)
  BY <1>2, <1>3, <1>4 DEF Injective
<1>7. free = Pool /\ nfailed = 0
  BY DEF Init
<1>8. OneUse
  BY <1>1, <1>5, <1>6, <1>7 DEF OneUse, Layout
<1>9. PageZero
  <2>1. 0 \notin Pool
    BY DEF Pool
  <2>2. ~NothingLoaded
    BY DEF Init, NothingLoaded
  <2> QED
    BY <1>1, <1>5, <1>7, <2>1, <2>2 DEF PageZero
<1>10. Contents
  BY <1>1 DEF Contents
<1>11. FreedTables
  BY DEF Init, FreedTables
<1>12. TypeOK
  <2>1. [pa |-> 0, us |-> TRUE] \in Entry
    BY Sizes DEF Entry
  <2>2. Scribbled \in [Words -> Entry]
    BY <2>1 DEF Scribbled
  <2>3. mem \in MemType
    BY <2>2 DEF Init, MemType
  <2>4. free \subseteq Page
    BY DEF Init, Pool, Page
  <2>5. ScalarTypes
    BY Sizes DEF Init, ScalarTypes
  <2> QED
    BY <2>3, <2>4, <2>5, TypeParts
<1>13. Shape
  BY Regions, Sizes DEF Init, Shape
<1>14. Processor /\ TaskDirs
  BY DEF Init, Processor, TaskDirs
<1> QED
  BY <1>8, <1>9, <1>10, <1>11, <1>12, <1>13, <1>14 DEF ASInv

-----------------------------------------------------------------------------
(* The theorems.                                                           *)

(* Every step keeps the invariant. *)
LEMMA ASInvStep ==
  ASSUME MAX_FAILED <= 1
  PROVE  ASInv /\ [Next]_vars => ASInv'
<1> SUFFICES ASSUME ASInv, [Next]_vars PROVE ASInv'
  OBVIOUS
<1>1. CASE fork
  BY <1>1, ForkStep
<1>2. CASE execv
  BY <1>2, ExecvStep
<1>3. CASE map_kernel
  BY <1>3, KernelStep
<1>4. CASE map_memory
  BY <1>4, MapStep
<1>5. CASE alloc_map_memory
  BY <1>5, AllocStep
<1>6. CASE execv_fails
  BY <1>6, FailsStep
<1>7. CASE prepare_ustack
  BY <1>7, UstackStep
<1>8. CASE kill_off_zombies
  BY <1>8, ZombieStep
<1>9. CASE unmap_page
  BY <1>9, UnmapStep
<1>10. CASE destroy_table
  BY <1>10, TableStep
<1>11. CASE destroy_address_space
  BY <1>11, DestroyStep
<1>12. CASE switch_to
  BY <1>12, SwitchStep
<1>13. CASE kmalloc_panics
  <2>1. panicked' \in {0, 1}
    BY <1>13 DEF kmalloc_panics
  <2> QED
    BY <1>13, <2>1, SameStep DEF kmalloc_panics
<1>14. CASE stopped \/ UNCHANGED vars
  <2>1. UNCHANGED vars
    BY <1>14 DEF stopped
  <2>2. panicked' \in {0, 1}
    BY <2>1 DEF vars, ASInv, TypeOK
  <2> QED
    BY <2>1, <2>2, SameStep DEF vars
<1> QED
  BY <1>1, <1>2, <1>3, <1>4, <1>5, <1>6, <1>7, <1>8, <1>9, <1>10, <1>11, <1>12, <1>13, <1>14
     DEF Next

(* The inductive invariant of memory.c: while at most one execv finds no    *)
(* program, every page has at most one use, and what each directory maps    *)
(* is given by how far map_kernel or destroy_address_space has come.        *)
THEOREM AddressSpaceSafety ==
  ASSUME MAX_FAILED <= 1
  PROVE  Spec => []ASInv
<1>1. ASInv /\ [Next]_vars => ASInv'
  BY ASInvStep
<1> QED
  BY <1>1, InitASInv, PTL DEF Spec

(* The variables keep their types: in particular each entry that map_page   *)
(* and kfree write is an entry, and cr3 holds a page.                       *)
THEOREM AddressSpaceTypes ==
  ASSUME MAX_FAILED <= 1
  PROVE  Spec => []TypeOK
<1>1. ASInv => TypeOK
  BY DEF ASInv
<1> QED
  BY <1>1, AddressSpaceSafety, PTL

(* A finished address space is complete. *)
LEMMA FinishedComplete ==
  ASSUME ASInv, NEW d \in Finished
  PROVE  d \in Dirs /\ d # dir /\ Complete(mem, d, kpgdir)
<1>1. d \in Dirs /\ d # dir
  BY DEF Finished, Directories, Dirs, ASInv, Shape
<1> QED
  BY <1>1, ContentsParts DEF ASInv

(* walk_pgdir is Walk in the memory there is. *)
LEMMA WalkIs == \A d, va : walk_pgdir(d, va) = Walk(mem, d, va)
  BY DEF walk_pgdir, Walk

(* Every address space that nobody works on has the whole kernel map and   *)
(* nothing else (map_kernel), for every size of memory, directories and    *)
(* tables and whatever the pages were before.                              *)
THEOREM KernelIsMapped ==
  ASSUME MAX_FAILED <= 1
  PROVE  Spec => []KernelMapped
<1>1. ASInv => KernelMapped
  <2> SUFFICES ASSUME ASInv, NEW d \in Finished, NEW va \in 1 .. VSPACE - 1
               PROVE  walk_pgdir(d, va) = KernelEntry(va)
    BY DEF KernelMapped
  <2>1. va \in VPages /\ va # 0
    BY Sizes DEF VPages
  <2>2. Walk(mem, d, va) = KernelEntry(va)
    BY <2>1, FinishedComplete DEF Complete
  <2> QED
    BY <2>2, WalkIs
<1> QED
  BY <1>1, AddressSpaceSafety, PTL

(* A program reaches its own page and no other, and no two programs share  *)
(* one (alloc_map_memory, PTE_US).                                         *)
THEOREM ProgramsAreIsolated ==
  ASSUME MAX_FAILED <= 1
  PROVE  Spec => []UserIsolation
<1>1. ASInv => UserIsolation
  <2> SUFFICES ASSUME ASInv PROVE UserIsolation
    OBVIOUS
  <2>1. ASSUME NEW d \in Finished, NEW va \in 0 .. VSPACE - 1
        PROVE  walk_pgdir(d, va).us <=> va = 0 /\ d # kpgdir
    <3>1. va \in VPages /\ 0 \in VPages
      BY IndexZero DEF VPages
    <3>2. Complete(mem, d, kpgdir)
      BY FinishedComplete
    <3>3. CASE va # 0 \/ d = kpgdir
      <4>1. Walk(mem, d, va).us = FALSE
        BY <3>1, <3>2, <3>3, KernelEntryIs DEF Complete
      <4> QED
        BY <3>3, <4>1, WalkIs
    <3>4. CASE va = 0 /\ d # kpgdir
      <4>1. Walk(mem, d, va).us = TRUE
        BY <3>2, <3>4 DEF Complete
      <4> QED
        BY <3>4, <4>1, WalkIs
    <3> QED
      BY <3>3, <3>4
  <2>2. ASSUME NEW d \in Finished \ {kpgdir}, NEW e \in Finished \ {kpgdir}, d # e
        PROVE  UserPage(d) # UserPage(e)
    <3>1. /\ d \in Dirs /\ Walk(mem, d, 0).us = TRUE
          /\ e \in Dirs /\ Walk(mem, e, 0).us = TRUE
      BY FinishedComplete DEF Complete
    <3>2. Injective(UserPages)
      BY DEF ASInv, OneUse, Layout
    <3>3. /\ d \in DOMAIN UserPages /\ UserPages[d] = Walk(mem, d, 0).pa
          /\ e \in DOMAIN UserPages /\ UserPages[e] = Walk(mem, e, 0).pa
      BY <3>1 DEF UserPages, Loaded
    <3> QED
      BY <2>2, <3>2, <3>3, WalkIs DEF Injective, UserPage
  <2> QED
    BY <2>1, <2>2 DEF UserIsolation
<1> QED
  BY <1>1, AddressSpaceSafety, PTL

(* The directory in cr3 maps all of physical memory at every step of every *)
(* handler, but for the holes that kfree's links leave while execv frees   *)
(* the directory it runs on (sys_execv, destroy_address_space).            *)
THEOREM KernelStaysReachable ==
  ASSUME MAX_FAILED <= 1
  PROVE  Spec => []KernelReachable
<1>1. ASInv => KernelReachable
  <2> SUFFICES ASSUME ASInv, cr3 # NONE, NEW p \in Page
               PROVE  \/ walk_pgdir(cr3, KERN_BASE + p) = [pa |-> p, us |-> FALSE]
                      \/ op = "execv" /\ phase = "tables" /\ PteIndex(KERN_BASE + p) = 0
    BY DEF KernelReachable
  <2> DEFINE va == KERN_BASE + p
  <2>1. va \in VPages /\ va # 0 /\ KernelEntry(va) = [pa |-> p, us |-> FALSE]
    BY KernelEntryIs
  <2> HIDE DEF va
  <2>2. cr3 \in Dirs
    BY DEF ASInv, TypeOK, Processor, Dirs
  <2>3. CASE cr3 # dir
    <3>1. Complete(mem, cr3, kpgdir)
      BY <2>2, <2>3, ContentsParts DEF ASInv
    <3>2. Walk(mem, cr3, va) = KernelEntry(va)
      BY <2>1, <3>1 DEF Complete
    <3> QED
      BY <2>1, <3>2, WalkIs DEF va
  <2>4. CASE cr3 = dir
    <3>1. Expected(dir, va)
      BY <2>1, <2>2, <2>4 DEF ASInv, Contents
    <3>2. phase # "map" /\ (phase = "tables" => op = "execv")
      BY <2>4 DEF ASInv, Shape, Processor, TaskDirs, TypeOK
    <3>3. Walk(mem, dir, va) = KernelEntry(va) \/ (phase = "tables" /\ PteIndex(va) = 0)
      BY <2>1, <3>1, <3>2 DEF Expected
    <3> QED
      BY <2>1, <2>4, <3>2, <3>3, WalkIs DEF va
  <2> QED
    BY <2>3, <2>4
<1> QED
  BY <1>1, AddressSpaceSafety, PTL

(* The pages of one address space are of no other. *)
LEMMA SpacesApart ==
  ASSUME ASInv, phase = "idle", NEW d \in Dirs
  PROVE  /\ SpacePages(d) \subseteq Dirs \cup Image(TablePages) \cup Image(UserPages)
         /\ \A e \in Dirs : d # e => SpacePages(d) \cap SpacePages(e) = {}
<1>1. Layout(Dirs, TablePages, UserPages, StackPages, free)
  BY DEF ASInv, OneUse
<1>2. dir = NONE /\ NONE \notin Dirs
  BY DEF ASInv, Shape, Dirs
<1>3. TablePages = TablePagesIn(mem, Dirs) /\ UserPages = UserPagesIn(mem, Dirs)
  BY UsesAre
<1>4. \A e \in Dirs : Complete(mem, e, kpgdir)
  BY <1>2, ContentsParts DEF ASInv
<1>5. \A e \in Dirs \ {kpgdir} : /\ e \in DOMAIN UserPages /\ UserPages[e] = UserPage(e)
                                 /\ UserPage(e) \in Image(UserPages)
  <2> SUFFICES ASSUME NEW e \in Dirs \ {kpgdir}
               PROVE  /\ e \in DOMAIN UserPages /\ UserPages[e] = UserPage(e)
                      /\ UserPage(e) \in Image(UserPages)
    OBVIOUS
  <2>1. Walk(mem, e, 0).us = TRUE
    BY <1>4 DEF Complete
  <2>2. e \in DOMAIN UserPages /\ UserPages[e] = UserPage(e)
    BY <2>1, WalkIs DEF UserPages, Loaded, UserPage
  <2> QED
    BY <2>2 DEF Image
<1>6. \A e \in Dirs : \A t \in Tables(e) :
        \E k \in DirWords : mem[e][k] # NotPresent /\ t = mem[e][k].pa
  BY DEF Tables, DirWords
<1>7. \A e \in Dirs : Tables(e) \subseteq Image(TablePages)
  <2> SUFFICES ASSUME NEW e \in Dirs, NEW t \in Tables(e) PROVE t \in Image(TablePages)
    OBVIOUS
  <2>1. PICK k \in DirWords : mem[e][k] # NotPresent /\ t = mem[e][k].pa
    BY <1>6
  <2> QED
    BY <1>3, <2>1, TablePageIs
<1>8. ASSUME NEW e \in Dirs, d # e PROVE Tables(d) \cap Tables(e) = {}
  <2>1. Injective(TablePagesIn(mem, Dirs))
    BY <1>1, <1>3 DEF Layout
  <2>2. ASSUME NEW t \in Tables(d), t \in Tables(e) PROVE FALSE
    <3>1. PICK k \in DirWords : mem[d][k] # NotPresent /\ t = mem[d][k].pa
      BY <1>6, <2>2
    <3>2. PICK l \in DirWords : mem[e][l] # NotPresent /\ t = mem[e][l].pa
      BY <1>6, <2>2
    <3>3. mem[d][k].pa = mem[e][l].pa
      BY <3>1, <3>2
    <3> QED
      BY <1>8, <2>1, <3>1, <3>2, <3>3, TablesApart
  <2> QED
    BY <2>2
<1>9. \A e \in Dirs : SpacePages(e) \subseteq {e} \cup Tables(e) \cup
                        (IF e = kpgdir THEN {} ELSE {UserPage(e)})
  BY DEF SpacePages
<1>10. SpacePages(d) \subseteq Dirs \cup Image(TablePages) \cup Image(UserPages)
  BY <1>5, <1>7, <1>9
<1>11. ASSUME NEW e \in Dirs, d # e PROVE SpacePages(d) \cap SpacePages(e) = {}
  <2>1. d # kpgdir /\ e # kpgdir => UserPage(d) # UserPage(e)
    BY <1>1, <1>5, <1>11 DEF Layout, Injective
  <2>2. /\ Dirs \cap (Image(TablePages) \cup Image(UserPages)) = {}
        /\ Image(TablePages) \cap Image(UserPages) = {}
    BY <1>1 DEF Layout
  <2> QED
    BY <1>5, <1>7, <1>8, <1>9, <1>11, <2>1, <2>2
<1> QED
  BY <1>10, <1>11

(* Between two handlers each page of the pool is free or has one use:      *)
(* destroy_address_space gives back what map_kernel and alloc_map_memory   *)
(* took, however fork, execv and reaping follow each other.                *)
THEOREM PagesAreAccounted ==
  ASSUME MAX_FAILED <= 1
  PROVE  Spec => []PagesAccounted
<1>1. ASInv => PagesAccounted
  <2> DEFINE Live == {p \in Procs : pgdir[p] # NONE}
             Uses == {SpacePages(kpgdir)} \cup {TaskPages(p) : p \in Live}
  <2> SUFFICES ASSUME ASInv, phase = "idle"
               PROVE  /\ Pool \subseteq free \cup UNION Uses
                      /\ free \cap UNION Uses = {}
                      /\ \A p \in Live : /\ TaskPages(p) \cap SpacePages(kpgdir) = {}
                                         /\ kstack[p] \notin SpacePages(pgdir[p])
                      /\ \A p, q \in Live : p # q => TaskPages(p) \cap TaskPages(q) = {}
    BY DEF PagesAccounted
  <2>1. /\ dir = NONE /\ old = NONE /\ kpgdir # NONE /\ kpgdir \in Dirs
        /\ \A p \in Live : pgdir[p] \in Dirs /\ pgdir[p] # kpgdir
        /\ \A p, q \in Live : pgdir[p] = pgdir[q] => p = q
        /\ \A d \in Dirs : d = kpgdir \/ \E p \in Live : d = pgdir[p]
        /\ \A p \in Procs : kstack[p] # NONE <=> p \in Live
    BY DEF ASInv, Shape, TaskDirs, Dirs
  <2>2. Layout(Dirs, TablePages, UserPages, StackPages, free)
    BY DEF ASInv, OneUse
  <2>3. \A d \in Dirs : SpacePages(d) \subseteq Dirs \cup Image(TablePages) \cup Image(UserPages)
    BY SpacesApart
  <2>4. \A d, e \in Dirs : d # e => SpacePages(d) \cap SpacePages(e) = {}
    BY SpacesApart
  <2>5. /\ \A p \in Live : p \in DOMAIN StackPages /\ StackPages[p] = kstack[p]
        /\ DOMAIN StackPages = Live
    BY <2>1 DEF StackPages
  <2>6. /\ \A p \in Live : kstack[p] \in Image(StackPages)
        /\ \A x \in Image(StackPages) : \E p \in Live : x = kstack[p]
        /\ \A p, q \in Live : kstack[p] = kstack[q] => p = q
    BY <2>2, <2>5 DEF Image, Injective, Layout
  <2>7. /\ Image(StackPages) \cap (Dirs \cup Image(TablePages) \cup Image(UserPages)) = {}
        /\ free \cap (Dirs \cup Image(TablePages) \cup Image(UserPages) \cup Image(StackPages)) = {}
    BY <2>2 DEF Layout
  <2>8. \A p \in Live : TaskPages(p) = SpacePages(pgdir[p]) \cup {kstack[p]}
    BY DEF TaskPages
  <2>9. \A d \in Dirs : SpacePages(d) \subseteq UNION Uses
    <3> SUFFICES ASSUME NEW d \in Dirs PROVE SpacePages(d) \subseteq UNION Uses
      OBVIOUS
    <3>1. CASE d = kpgdir
      BY <3>1
    <3>2. CASE \E p \in Live : d = pgdir[p]
      <4>1. PICK p \in Live : d = pgdir[p]
        BY <3>2
      <4>2. SpacePages(d) \subseteq TaskPages(p) /\ TaskPages(p) \in Uses
        BY <2>8, <4>1
      <4> QED
        BY <4>2
    <3> QED
      BY <2>1, <3>1, <3>2
  <2>10. Pool \subseteq free \cup UNION Uses
    <3> SUFFICES ASSUME NEW x \in Pool, x \notin free PROVE x \in UNION Uses
      OBVIOUS
    <3>1. x \in Dirs \cup Image(TablePages) \cup Image(UserPages) \cup Image(StackPages)
      BY <2>2 DEF Layout
    <3>2. CASE x \in Dirs
      <4>1. x \in SpacePages(x)
        BY DEF SpacePages
      <4> QED
        BY <2>9, <3>2, <4>1
    <3>3. CASE x \in Image(TablePages)
      <4>1. PICK h \in HeldTables : x = mem[h[1]][h[2]].pa
        BY <3>3 DEF Image, TablePages
      <4>2. h[1] \in Dirs /\ h[2] \in DirWords /\ mem[h[1]][h[2]] # NotPresent
        BY <4>1 DEF HeldTables
      <4>3. x \in SpacePages(h[1])
        BY <4>1, <4>2 DEF SpacePages, Tables, DirWords
      <4> QED
        BY <2>9, <4>2, <4>3
    <3>4. CASE x \in Image(UserPages)
      <4>1. PICK d \in Dirs : Loaded(d) /\ x = Walk(mem, d, 0).pa
        BY <3>4 DEF Image, UserPages
      <4>2. d # kpgdir
        <5>1. Complete(mem, kpgdir, kpgdir)
          BY <2>1, ContentsParts DEF ASInv
        <5>2. Walk(mem, kpgdir, 0).us = FALSE
          BY <5>1, IndexZero, KernelEntryIs DEF Complete
        <5> QED
          BY <4>1, <5>2 DEF Loaded
      <4>3. x \in SpacePages(d)
        BY <4>1, <4>2, WalkIs DEF SpacePages, UserPage
      <4> QED
        BY <2>9, <4>3
    <3>5. CASE x \in Image(StackPages)
      <4>1. PICK p \in Live : x = kstack[p]
        BY <2>6, <3>5
      <4>2. x \in TaskPages(p) /\ TaskPages(p) \in Uses
        BY <2>8, <4>1
      <4> QED
        BY <4>2
    <3> QED
      BY <3>1, <3>2, <3>3, <3>4, <3>5
  <2>11. free \cap UNION Uses = {}
    BY <2>1, <2>3, <2>6, <2>7, <2>8
  <2> HIDE DEF Live, Uses
  <2>12. \A p \in Live : /\ TaskPages(p) \cap SpacePages(kpgdir) = {}
                         /\ kstack[p] \notin SpacePages(pgdir[p])
    BY <2>1, <2>3, <2>4, <2>6, <2>7, <2>8
  <2>13. \A p, q \in Live : p # q => TaskPages(p) \cap TaskPages(q) = {}
    BY <2>1, <2>3, <2>4, <2>6, <2>7, <2>8
  <2> QED
    BY <2>10, <2>11, <2>12, <2>13
<1> QED
  BY <1>1, AddressSpaceSafety, PTL

=============================================================================
