---------------------------- MODULE AddressSpace ----------------------------
(***************************************************************************)
(* Page directories and page tables, entry by entry (memory.c): map_kernel *)
(* and alloc_map_memory build an address space, destroy_address_space      *)
(* takes it apart, and fork, execv and the reaping of a task use them.     *)
(*                                                                         *)
(* Kernel code is not interrupted, but the CPU itself translates every     *)
(* address it uses through the directory that cr3 holds, so what the       *)
(* directories look like between two steps of a handler matters: a step is *)
(* one page mapped or one page freed.                                      *)
(*                                                                         *)
(* Addresses are page numbers.  kfree writes its link, an aligned pointer, *)
(* into the first word of the page: read as an entry, it is not present.   *)
(* kmalloc returns the lowest free page here; no property depends on which *)
(* one it is.  Pages that main() takes for ever are not part of the pool.  *)
(***************************************************************************)
EXTENDS Integers, Sequences, FiniteSetsExt

CONSTANTS
  PDE_SIZE,      \* entries of a page directory (1024)
  PTE_SIZE,      \* entries of a page table (1024)
  LOW_PAGES,     \* pages of the identity map at 0 (4 MB)
  KERN_BASE,     \* first virtual page of the direct map
  MMDEV_BASE,    \* first virtual page of the devices
  KERNEL_PAGES,  \* physical pages below kernel_end
  Procs,         \* tasks other than the scheduler
  MAX_CALLS,     \* bound: calls of fork and execv, and tasks reaped
  MAX_FAILED     \* bound: how often execv finds no program

VSPACE == PDE_SIZE * PTE_SIZE

NONE == -1

ASSUME AddressSpaceAssumption ==
  /\ {PDE_SIZE, PTE_SIZE, LOW_PAGES, KERN_BASE, MMDEV_BASE, KERNEL_PAGES, MAX_CALLS,
      MAX_FAILED} \subseteq Nat
  /\ 0 < LOW_PAGES /\ LOW_PAGES <= KERN_BASE
  /\ KERN_BASE + KERNEL_PAGES < MMDEV_BASE /\ MMDEV_BASE < VSPACE
  /\ 0 < KERNEL_PAGES
  /\ NONE \notin Procs

(* Physical memory is as large as the direct map. *)
Page == 0 .. MMDEV_BASE - KERN_BASE - 1

Pool == KERNEL_PAGES .. MMDEV_BASE - KERN_BASE - 1

(* An entry: P clear, or a page and whether PTE_US is set. *)
NotPresent == [pa |-> NONE, us |-> FALSE]

Words == 0 .. Max({PDE_SIZE, PTE_SIZE}) - 1

Zeroed == [w \in Words |-> NotPresent]

(* A page with data in it, at its worst when read as entries.               *)
Scribbled == [w \in Words |-> [pa |-> 0, us |-> TRUE]]

VARIABLES
  mem,      \* mem[p][w]: word w of page p, read as an entry
  free,     \* the pages in the free list
  kpgdir,   \* the scheduler's directory
  pgdir,    \* tasks[p].pgdir
  kstack,   \* tasks[p].kstack
  cr3,
  cur,      \* curr_task, NONE for the scheduler
  op,       \* what the kernel is doing: none, boot, fork, execv, fail or reap
  phase,    \* where it is: idle, dir, map, load, args, unmap or tables
  dir,      \* the directory being built or taken apart
  old,      \* old_pgdir of execv
  who,      \* the task that this is for
  r, i,     \* loop variables: entry of kernel_map, page or table
  ncalls, nfailed,
  panicked

vars == <<mem, free, kpgdir, pgdir, kstack, cr3, cur, op, phase, dir, old, who, r, i,
          ncalls, nfailed, panicked>>

-----------------------------------------------------------------------------
(* Mutant: programs may use the identity map. *)
kernel_map_user ==
  <<[va |-> 0, pa |-> 0, size |-> LOW_PAGES, us |-> TRUE],
    [va |-> KERN_BASE, pa |-> 0, size |-> MMDEV_BASE - KERN_BASE, us |-> FALSE],
    [va |-> MMDEV_BASE, pa |-> MMDEV_BASE, size |-> (0 - MMDEV_BASE) % VSPACE, us |-> FALSE]>>

kernel_map ==
  <<[va |-> 0, pa |-> 0, size |-> LOW_PAGES, us |-> FALSE],
    [va |-> KERN_BASE, pa |-> 0, size |-> MMDEV_BASE - KERN_BASE, us |-> FALSE],
    [va |-> MMDEV_BASE, pa |-> MMDEV_BASE, size |-> (0 - MMDEV_BASE) % VSPACE, us |-> FALSE]>>

PdeIndex(va) == (va \div PTE_SIZE) % PDE_SIZE

PteIndex(va) == va % PTE_SIZE

(* The entry for va; walk_pgdir stops at a missing table. *)
walk_pgdir(d, va) ==
  LET pde == mem[d][PdeIndex(va)] IN
  IF pde = NotPresent THEN NotPresent ELSE mem[pde.pa][PteIndex(va)]

kmalloc(p, F) == p \in F /\ p = Min(F)

(* Mutant: the directory is not cleared. *)
NewDirectory_dirty(d) == mem[d]

(* What map_kernel's directory holds before anything is mapped. *)
NewDirectory(d) == Zeroed

(* map_page(dir, va, pa, perm), the pages F being free and m the memory.    *)
(* A directory entry without a table gets one.                              *)
map_page(m, F, va, entry) ==
  \/ /\ m[dir][PdeIndex(va)] # NotPresent
     /\ mem' = [m EXCEPT ![m[dir][PdeIndex(va)].pa][PteIndex(va)] = entry]
     /\ free' = F
  \/ /\ m[dir][PdeIndex(va)] = NotPresent
     /\ \E t \in F :
          /\ kmalloc(t, F)
          /\ mem' = [m EXCEPT ![t] = [Zeroed EXCEPT ![PteIndex(va)] = entry],
                              ![dir][PdeIndex(va)] = [pa |-> t, us |-> TRUE]]
          /\ free' = F \ {t}

(* Mutant: kfree is given a physical address where it wants a virtual one. *)
kfree_phys(m, p) ==
  /\ free' = free \cup {(p - KERN_BASE) % VSPACE}
  /\ mem' = [m EXCEPT ![p][0] = NotPresent]

(* kfree puts the page in the list and its link into the first word. *)
kfree(m, p) ==
  /\ free' = free \cup {p}
  /\ mem' = [m EXCEPT ![p][0] = NotPresent]

(* The kernel has nothing in hand: the locals of its functions are gone. *)
Idle == phase' = "idle" /\ op' = "none" /\ dir' = NONE /\ old' = NONE /\ who' = NONE
        /\ r' = 1 /\ i' = 0

-----------------------------------------------------------------------------
(* main() has registered the pool and enters map_kernel for the first time. *)
Init ==
  /\ mem = [p \in Page |-> Scribbled]
  /\ free = Pool
  /\ kpgdir = NONE
  /\ pgdir = [p \in Procs |-> NONE] /\ kstack = [p \in Procs |-> NONE]
  /\ cr3 = NONE /\ cur = NONE
  /\ op = "boot" /\ phase = "dir"
  /\ dir = NONE /\ old = NONE /\ who = NONE
  /\ r = 1 /\ i = 0
  /\ ncalls = 0 /\ nfailed = 0 /\ panicked = 0

(* fork and create_init_task: alloc_task gives the task a kernel stack, and *)
(* then calls map_kernel.                                                   *)
fork == \E p \in Procs, k \in free :
  /\ panicked = 0 /\ phase = "idle"
  /\ ncalls < MAX_CALLS /\ ncalls' = ncalls + 1
  /\ pgdir[p] = NONE
  /\ cur # NONE \/ \A q \in Procs : pgdir[q] = NONE
  /\ kmalloc(k, free)
  /\ free' = free \ {k}
  /\ mem' = [mem EXCEPT ![k] = Scribbled]
  /\ kstack' = [kstack EXCEPT ![p] = k]
  /\ op' = "fork" /\ phase' = "dir" /\ who' = p
  /\ UNCHANGED <<kpgdir, pgdir, cr3, cur, dir, old, r, i, nfailed, panicked>>

execv ==
  /\ panicked = 0 /\ phase = "idle"
  /\ ncalls < MAX_CALLS /\ ncalls' = ncalls + 1
  /\ cur # NONE
  /\ op' = "execv" /\ phase' = "dir" /\ who' = cur /\ old' = pgdir[cur]
  /\ UNCHANGED <<mem, free, kpgdir, pgdir, kstack, cr3, cur, dir, r, i, nfailed, panicked>>

map_kernel ==
  /\ panicked = 0 /\ phase = "dir"
  /\ \E d \in free :
       /\ kmalloc(d, free)
       /\ mem' = [mem EXCEPT ![d] = NewDirectory(d)]
       /\ free' = free \ {d}
       /\ dir' = d
  /\ phase' = "map" /\ r' = 1 /\ i' = 0
  /\ UNCHANGED <<kpgdir, pgdir, kstack, cr3, cur, op, old, who, ncalls, nfailed, panicked>>

(* init_kernel_memory, when map_kernel has returned. *)
init_kernel_memory == kpgdir' = dir /\ cr3' = dir /\ Idle /\ UNCHANGED pgdir

(* One iteration of the loop of map_memory, called for each entry of        *)
(* kernel_map.  After the last one map_kernel returns: its caller stores    *)
(* the directory, and init_kernel_memory also loads it.                     *)
map_memory ==
  /\ panicked = 0 /\ phase = "map"
  /\ map_page(mem, free, (kernel_map[r].va + i) % VSPACE,
              [pa |-> (kernel_map[r].pa + i) % VSPACE, us |-> kernel_map[r].us])
  /\ \/ /\ i + 1 < kernel_map[r].size
        /\ i' = i + 1
        /\ UNCHANGED <<phase, kpgdir, pgdir, cr3, op, dir, old, who, r>>
     \/ /\ i + 1 >= kernel_map[r].size /\ r < Len(kernel_map)
        /\ i' = 0 /\ r' = r + 1
        /\ UNCHANGED <<phase, kpgdir, pgdir, cr3, op, dir, old, who>>
     \/ /\ i + 1 >= kernel_map[r].size /\ r = Len(kernel_map) /\ op = "boot"
        /\ init_kernel_memory
     \/ /\ i + 1 >= kernel_map[r].size /\ r = Len(kernel_map) /\ op # "boot"
        /\ pgdir' = [pgdir EXCEPT ![who] = dir] /\ phase' = "load"
        /\ UNCHANGED <<kpgdir, cr3, op, dir, old, who, r, i>>
  /\ UNCHANGED <<kstack, cur, ncalls, nfailed, panicked>>

(* alloc_map_memory(pgdir, 0, PGSIZE): the page of the program, which fork  *)
(* copies and load_elf fills.                                               *)
alloc_map_memory ==
  /\ panicked = 0 /\ phase = "load"
  /\ \E u \in free :
       /\ kmalloc(u, free)
       /\ map_page([mem EXCEPT ![u] = Scribbled], free \ {u}, 0, [pa |-> u, us |-> TRUE])
  /\ \/ op = "fork" /\ Idle
     \/ op = "execv" /\ phase' = "args" /\ UNCHANGED <<op, dir, old, who, r, i>>
  /\ UNCHANGED <<kpgdir, pgdir, kstack, cr3, cur, ncalls, nfailed, panicked>>

(* execv gives up and takes the new space apart: there is no such file or   *)
(* it is not an ELF file, which is counted, or prepare_ustack cannot read   *)
(* the arguments.                                                           *)
execv_fails ==
  /\ panicked = 0 /\ op = "execv"
  /\ \/ phase = "load" /\ nfailed < MAX_FAILED /\ nfailed' = nfailed + 1
     \/ phase = "args" /\ UNCHANGED nfailed
  /\ op' = "fail" /\ phase' = "unmap"
  /\ UNCHANGED <<mem, free, kpgdir, pgdir, kstack, cr3, cur, dir, old, who, r, i, ncalls, panicked>>

(* The arguments are on the new stack; execv destroys old_pgdir. *)
prepare_ustack ==
  /\ panicked = 0 /\ phase = "args"
  /\ phase' = "unmap" /\ dir' = old
  /\ UNCHANGED <<mem, free, kpgdir, pgdir, kstack, cr3, cur, op, old, who, r, i, ncalls, nfailed, panicked>>

(* kill_off_zombies takes the space of another task apart.  Proc says which *)
(* tasks it may be.                                                         *)
kill_off_zombies == \E p \in Procs :
  /\ panicked = 0 /\ phase = "idle"
  /\ ncalls < MAX_CALLS /\ ncalls' = ncalls + 1
  /\ cur \notin {NONE, p} /\ pgdir[p] # NONE
  /\ op' = "reap" /\ phase' = "unmap" /\ who' = p /\ dir' = pgdir[p]
  /\ UNCHANGED <<mem, free, kpgdir, pgdir, kstack, cr3, cur, old, r, i, nfailed, panicked>>

(* destroy_user_address_space: unmap_page at 0.  Its panics, for a missing  *)
(* table or page, would be a deadlock here.                                 *)
unmap_page ==
  /\ panicked = 0 /\ phase = "unmap"
  /\ walk_pgdir(dir, 0) # NotPresent
  /\ kfree([mem EXCEPT ![mem[dir][PdeIndex(0)].pa][PteIndex(0)] = NotPresent],
           walk_pgdir(dir, 0).pa)
  /\ phase' = "tables" /\ i' = 0
  /\ UNCHANGED <<kpgdir, pgdir, kstack, cr3, cur, op, dir, old, who, r, ncalls, nfailed, panicked>>

(* Mutant: the loop ends one table early. *)
MoreTables_short == i < PDE_SIZE - 1

MoreTables == i < PDE_SIZE

(* One iteration of the loop of destroy_address_space. *)
destroy_table ==
  /\ panicked = 0 /\ phase = "tables" /\ MoreTables
  /\ IF mem[dir][i] = NotPresent THEN UNCHANGED <<mem, free>>
     ELSE kfree(mem, mem[dir][i].pa)
  /\ i' = i + 1
  /\ UNCHANGED <<kpgdir, pgdir, kstack, cr3, cur, op, phase, dir, old, who, r, ncalls, nfailed, panicked>>

(* Mutant: execv does not load the new directory. *)
Reload_not == cr3

(* What cr3 holds when destroy_address_space has returned to its caller. *)
Reload == IF op = "execv" THEN pgdir[who] ELSE cr3

(* The directory itself goes last.  Then execv loads the new one, or puts   *)
(* the old one back; destroy_task frees the kernel stack.  From here on     *)
(* nobody reads the free pages, so it does not matter what they hold.       *)
destroy_address_space ==
  /\ panicked = 0 /\ phase = "tables" /\ ~MoreTables
  /\ free' = free \cup (IF op = "reap" THEN {dir, kstack[who]} ELSE {dir})
  /\ mem' = [p \in Page |-> IF p \in free' THEN Scribbled ELSE mem[p]]
  /\ cr3' = Reload
  /\ pgdir' = [pgdir EXCEPT ![who] = IF op = "reap" THEN NONE
                                     ELSE IF op = "fail" THEN old ELSE @]
  /\ kstack' = IF op = "reap" THEN [kstack EXCEPT ![who] = NONE] ELSE kstack
  /\ Idle
  /\ UNCHANGED <<kpgdir, cur, ncalls, nfailed, panicked>>

(* switch_to, between the scheduler and a task. *)
switch_to ==
  /\ panicked = 0 /\ phase = "idle"
  /\ \/ /\ cur # NONE /\ cur' = NONE /\ cr3' = kpgdir
     \/ /\ cur = NONE
        /\ \E p \in Procs : pgdir[p] # NONE /\ cur' = p /\ cr3' = pgdir[p]
  /\ UNCHANGED <<mem, free, kpgdir, pgdir, kstack, op, phase, dir, old, who, r, i, ncalls, nfailed, panicked>>

(* The next call is a kmalloc: of alloc_task, map_kernel, map_page or       *)
(* alloc_map_memory.                                                        *)
NeedsPage ==
  \/ phase = "idle" /\ cur # NONE /\ \E p \in Procs : pgdir[p] = NONE
  \/ phase = "map" /\ mem[dir][PdeIndex((kernel_map[r].va + i) % VSPACE)] = NotPresent
  \/ phase \in {"dir", "load"}

kmalloc_panics ==
  /\ panicked = 0
  /\ NeedsPage /\ free = {}
  /\ panicked' = 1
  /\ UNCHANGED <<mem, free, kpgdir, pgdir, kstack, cr3, cur, op, phase, dir, old, who, r, i, ncalls, nfailed>>

stopped == panicked = 1 /\ UNCHANGED vars

Next ==
  \/ fork \/ execv \/ map_kernel \/ map_memory \/ alloc_map_memory
  \/ execv_fails \/ prepare_ustack
  \/ kill_off_zombies \/ unmap_page \/ destroy_table \/ destroy_address_space
  \/ switch_to \/ kmalloc_panics \/ stopped

Spec == Init /\ [][Next]_vars
-----------------------------------------------------------------------------
Entry == [pa : 0 .. VSPACE - 1, us : BOOLEAN] \cup {NotPresent}

(* The variables have their types. *)
TypeOK ==
  /\ mem \in [Page -> [Words -> Entry]]
  /\ free \subseteq Page
  /\ {kpgdir, cr3, dir, old} \subseteq Page \cup {NONE}
  /\ pgdir \in [Procs -> Page \cup {NONE}] /\ kstack \in [Procs -> Page \cup {NONE}]
  /\ {cur, who} \subseteq Procs \cup {NONE}
  /\ op \in {"none", "boot", "fork", "execv", "fail", "reap"}
  /\ phase \in {"idle", "dir", "map", "load", "args", "unmap", "tables"}
  /\ r \in 1 .. Len(kernel_map) /\ i \in 0 .. VSPACE
  /\ ncalls \in 0 .. MAX_CALLS /\ nfailed \in 0 .. MAX_FAILED
  /\ panicked \in {0, 1}

Directories == ({kpgdir} \cup {pgdir[p] : p \in Procs}) \ {NONE}

(* Address spaces that no handler is working on. *)
Finished == {d \in Directories : phase = "idle" \/ d # dir}

(* What the hardware must find at va in a finished directory, the user page *)
(* at 0 apart.                                                              *)
KernelEntry(va) ==
  IF va \in 0 .. LOW_PAGES - 1 THEN [pa |-> va, us |-> FALSE]
  ELSE IF va \in KERN_BASE .. MMDEV_BASE - 1 THEN [pa |-> va - KERN_BASE, us |-> FALSE]
  ELSE IF va >= MMDEV_BASE THEN [pa |-> va, us |-> FALSE]
  ELSE NotPresent

(* Whatever pages it was built from and whatever they held before, every    *)
(* finished address space has the whole kernel map, with nothing else in it *)
(* and no entry that building or destroying another one has damaged.        *)
KernelMapped ==
  \A d \in Finished, va \in 1 .. VSPACE - 1 : walk_pgdir(d, va) = KernelEntry(va)

(* A user program can reach one page, its own: the only entry with PTE_US   *)
(* is the one at 0 of a task, and two tasks do not share it.                *)
UserPage(d) == walk_pgdir(d, 0).pa

UserIsolation ==
  /\ \A d \in Finished, va \in 0 .. VSPACE - 1 :
       walk_pgdir(d, va).us <=> va = 0 /\ d # kpgdir
  /\ \A d, e \in Finished \ {kpgdir} : d # e => UserPage(d) # UserPage(e)

(* The pages an address space is made of. *)
Tables(d) == {mem[d][k].pa : k \in {k \in 0 .. PDE_SIZE - 1 : mem[d][k] # NotPresent}}

SpacePages(d) ==
  {d} \cup Tables(d) \cup (IF d = kpgdir THEN {} ELSE {UserPage(d)})

TaskPages(p) == SpacePages(pgdir[p]) \cup {kstack[p]}

(* Between two handlers each page of the pool is free or in one use: the    *)
(* loops of destroy_address_space give back exactly what map_kernel and     *)
(* alloc_map_memory took.  (Page 0, which a failing execv frees, is not of  *)
(* the pool.)                                                               *)
PagesAccounted ==
  LET Live == {p \in Procs : pgdir[p] # NONE}
      Uses == {SpacePages(kpgdir)} \cup {TaskPages(p) : p \in Live} IN
  phase = "idle" =>
    /\ Pool \subseteq free \cup UNION Uses
    /\ free \cap UNION Uses = {}
    /\ \A p \in Live : /\ TaskPages(p) \cap SpacePages(kpgdir) = {}
                       /\ kstack[p] \notin SpacePages(pgdir[p])
    /\ \A p, q \in Live : p # q => TaskPages(p) \cap TaskPages(q) = {}

(* The directory the CPU is using maps the kernel's window onto all of      *)
(* physical memory, at each step of every handler.  Only while execv frees  *)
(* the directory that is still in cr3 do kfree's links punch holes, and     *)
(* only in the first page that a table maps; the kernel itself is not       *)
(* linked at such a page.                                                   *)
KernelReachable ==
  cr3 # NONE =>
    \A p \in Page :
      \/ walk_pgdir(cr3, KERN_BASE + p) = [pa |-> p, us |-> FALSE]
      \/ op = "execv" /\ phase = "tables" /\ PteIndex(KERN_BASE + p) = 0
=============================================================================
