------------------------------ MODULE PageAlloc ------------------------------
(***************************************************************************)
(* The page allocator of memory.c.  A free page is a node of a singly      *)
(* linked list: its own first word is the pointer to the next free page.   *)
(* Once handed out, that word belongs to the caller, who writes whatever   *)
(* it likes into it.                                                       *)
(*                                                                         *)
(* The callers modelled here give back only pages they hold; TaskMemory    *)
(* asks whether the kernel does.                                           *)
(***************************************************************************)
EXTENDS Integers

CONSTANTS
  PGSIZE,      \* bytes of a page (0x1000)
  KERNEL_END,  \* kernel_end: the first byte behind the kernel image
  BOOT_TOP,    \* the end of what entry_pgdir maps (4 MB)
  KERN_TOP     \* the end of memory

ASSUME PageAllocAssumption ==
  /\ PGSIZE \in Nat \ {0} /\ KERNEL_END \in Nat /\ BOOT_TOP \in Nat /\ KERN_TOP \in Nat
  /\ 0 < KERNEL_END /\ KERNEL_END < BOOT_TOP /\ BOOT_TOP < KERN_TOP
  /\ BOOT_TOP % PGSIZE = 0 /\ KERN_TOP % PGSIZE = 0

NULL == 0

PG_ROUNDDOWN(addr) == addr - (addr % PGSIZE)

(* Mutant: rounds down to the page the kernel image ends in. *)
PG_ROUNDUP_truncates(addr) == PG_ROUNDDOWN(addr)

PG_ROUNDUP(addr) == PG_ROUNDDOWN(addr + PGSIZE - 1)

(* The addresses of the pages of memory, the ones of the kernel included. *)
Page == {a \in 1 .. KERN_TOP : a % PGSIZE = 0}

VARIABLES
  free_pages,  \* the head of the list
  word,        \* word[p]: the first word of page p, ->next while p is free
  calls,       \* how many calls of register_free_mem main() has made
  now,         \* the loop variable of the last one
  held,        \* history: the pages kmalloc returned and kfree did not get back
  nheld,       \* history: kmallocs that returned minus kfrees of their pages
  depth,       \* history: how many free pages are in the list from p on, or 0
  nfree,       \* history: how many pages are in the list
  panicked

vars == <<free_pages, word, calls, now, held, nheld, depth, nfree, panicked>>

(* The arguments of the calls.                                               *)
start(n) == IF n = 1 THEN KERNEL_END ELSE BOOT_TOP

end(n) == IF n = 1 THEN BOOT_TOP ELSE KERN_TOP

(* Mutant: one page too many. *)
MoreToRegister_inclusive == calls > 0 /\ now <= PG_ROUNDDOWN(end(calls))

(* The loop of the last call goes on. *)
MoreToRegister == calls > 0 /\ now < PG_ROUNDDOWN(end(calls))

(* Before the first call and inside the loops nobody allocates.              *)
Ready == panicked = 0 /\ calls > 0 /\ ~MoreToRegister

FreeSet == {p \in Page : depth[p] > 0}

Init ==
  /\ free_pages = NULL
  /\ word = [p \in Page |-> NULL]
  /\ calls = 0
  /\ now = NULL
  /\ held = {}
  /\ nheld = 0
  /\ depth = [p \in Page |-> 0]
  /\ nfree = 0
  /\ panicked = 0

(* Mutant: moves the head before it saves it, and the page links to itself. *)
kfree_swapped(p) ==
  /\ free_pages' = p
  /\ word' = [word EXCEPT ![p] = p]
  /\ depth' = [depth EXCEPT ![p] = nfree + 1]
  /\ nfree' = nfree + 1

(* kfree pushes the page on the list; next of the first one is NULL. *)
kfree(p) ==
  /\ word' = [word EXCEPT ![p] = free_pages]
  /\ free_pages' = p
  /\ depth' = [depth EXCEPT ![p] = nfree + 1]
  /\ nfree' = nfree + 1

(* main() calls register_free_mem: first for what entry_pgdir maps, then,    *)
(* with pages allocated in between, for the rest.                            *)
register_free_mem ==
  /\ panicked = 0
  /\ calls < 2 /\ ~MoreToRegister
  /\ calls' = calls + 1
  /\ panicked' = IF PG_ROUNDDOWN(start(calls + 1)) >= PG_ROUNDDOWN(end(calls + 1)) THEN 1 ELSE 0
  /\ now' = PG_ROUNDUP(start(calls + 1))
  /\ UNCHANGED <<free_pages, word, held, nheld, depth, nfree>>

(* One iteration of its loop. *)
register_page ==
  /\ panicked = 0
  /\ MoreToRegister
  /\ kfree(now)
  /\ now' = now + PGSIZE
  /\ UNCHANGED <<calls, held, nheld, panicked>>

(* Mutant: the page stays in the list. *)
Unlinked_not == free_pages

(* What kmalloc leaves as the head. *)
Unlinked == word[free_pages]

(* kmalloc unlinks the head and trusts its first word. *)
kmalloc ==
  /\ Ready
  /\ free_pages # NULL
  /\ free_pages' = Unlinked
  /\ held' = held \cup {free_pages}
  /\ nheld' = nheld + 1
  /\ depth' = [depth EXCEPT ![free_pages] = 0]
  /\ nfree' = nfree - 1
  /\ UNCHANGED <<word, calls, now, panicked>>

kmalloc_panics ==
  /\ Ready
  /\ free_pages = NULL
  /\ panicked' = 1
  /\ UNCHANGED <<free_pages, word, calls, now, held, nheld, depth, nfree>>

(* A caller gives back a page it holds. *)
release ==
  /\ Ready
  /\ \E p \in held :
       /\ kfree(p)
       /\ held' = held \ {p}
       /\ nheld' = nheld - 1
  /\ UNCHANGED <<calls, now, panicked>>

(* A caller uses its page: memset, page table entries, a program's data. *)
use ==
  /\ Ready
  /\ \E p \in held, v \in Page \cup {NULL} : word' = [word EXCEPT ![p] = v]
  /\ UNCHANGED <<free_pages, calls, now, held, nheld, depth, nfree, panicked>>

stopped == panicked = 1 /\ UNCHANGED vars

Next ==
  \/ register_free_mem \/ register_page
  \/ kmalloc \/ kmalloc_panics \/ release \/ use \/ stopped

Spec == Init /\ [][Next]_vars
-----------------------------------------------------------------------------
(* The variables have their types. *)
TypeOK ==
  /\ free_pages \in Page \cup {NULL}
  /\ word \in [Page -> Page \cup {NULL}]
  /\ calls \in 0 .. 2
  /\ IF calls = 0 THEN now = NULL
     ELSE now \in Page /\ start(calls) <= now /\ now <= end(calls)
  /\ held \subseteq Page /\ nheld \in Int
  /\ depth \in [Page -> Nat]
  /\ nfree \in Nat
  /\ panicked \in {0, 1}

(* The list is intact whatever callers write into the pages they hold:      *)
(* free_pages is its longest suffix, the first word of a free page leads to *)
(* the free page below it, and the last one ends the list.  In particular   *)
(* the list is finite and visits no page twice.                             *)
ListIntact ==
  /\ IF nfree = 0 THEN free_pages = NULL
     ELSE free_pages \in Page /\ depth[free_pages] = nfree
  /\ \A p \in FreeSet :
       /\ depth[p] <= nfree
       /\ IF depth[p] = 1 THEN word[p] = NULL
          ELSE word[p] \in Page /\ depth[word[p]] = depth[p] - 1
  /\ \A p, q \in FreeSet : depth[p] = depth[q] => p = q

(* No page is lost and none is both free and in use: every page that the    *)
(* calls of register_free_mem have reached is in the list or held, and no   *)
(* other page is.  Where one call ends and the next starts no page is left  *)
(* out and none is registered by both, and no page reaches into the kernel  *)
(* image.                                                                   *)
Conservation ==
  /\ FreeSet \cup held = {p \in Page : p >= KERNEL_END /\ p < now}
  /\ FreeSet \cap held = {}

(* The allocator implements a pool of pages. *)
Pool == INSTANCE PagePool WITH Page <- Page, free <- FreeSet, held <- held, nheld <- nheld

PoolSpec == Pool!Spec
=============================================================================
