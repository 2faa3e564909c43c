----------------------------- MODULE TaskMemory -----------------------------
(***************************************************************************)
(* The pages behind the task table: who allocates them, who frees them and *)
(* what the CPU is running on.  Every action is an action of Proc together *)
(* with what the same handler does to memory.                              *)
(*                                                                         *)
(* A task owns a kernel stack, an address space and one user page, the one *)
(* mapped at [0, PGSIZE).  An address space is one page here: the page     *)
(* directory stands for itself and the page tables that map_kernel         *)
(* allocates with it and destroy_address_space frees with it.              *)
(*                                                                         *)
(* The free list is the set that PageAlloc shows it to be as long as       *)
(* callers free what they hold.  No property depends on which free page    *)
(* kmalloc returns; the lowest one stands for it.                          *)
(***************************************************************************)
EXTENDS Proc, FiniteSets

CONSTANTS
  NPAGES,      \* pages of the pool when the scheduler starts, init's included
  MAX_FILES,   \* free slots of filesystem: a new file takes a page for ever
  MAX_FAILED   \* bound: how often execv is given a file it cannot load

ASSUME TaskMemoryAssumption ==
  /\ NPAGES \in Nat /\ NPAGES >= 4
  /\ MAX_FILES \in Nat /\ MAX_FAILED \in Nat

(* Physical page 0.  map_kernel identity-maps it at virtual address 0 and   *)
(* register_free_mem never sees it.                                         *)
LowPage == 0

Page == LowPage .. NPAGES

NONE == -1

VARIABLES
  free,     \* the pages in the free list
  kstack,   \* tasks[i].kstack
  pgdir,    \* tasks[i].pgdir
  upage,    \* the page that *walk_pgdir(tasks[i].pgdir, 0) leads to
  fpages,   \* the data pages of files that open() created
  cr3,      \* the page directory loaded by lcr3
  esp0,     \* the kernel stack in task_state, for the next trap from user mode
  nfailed,  \* execv calls that found no program
  corrupt   \* 1 once kfree was given a page that is in the list already

mem == <<free, kstack, pgdir, upage, fpages, cr3, esp0, nfailed, corrupt>>

allvars == <<vars, mem>>

Held(t) == {kstack[t], pgdir[t], upage[t]} \ {NONE}

(* Boot leaves kpgdir to the scheduler and the pages of alloc_task and      *)
(* load_elf to init.                                                        *)
MemInit ==
  /\ init_tasks
  /\ kstack = [t \in Tasks |-> IF t = init_task THEN 2 ELSE NONE]
  /\ pgdir = [t \in Tasks |-> IF t = scheduler_task THEN 1
                              ELSE IF t = init_task THEN 3 ELSE NONE]
  /\ upage = [t \in Tasks |-> IF t = init_task THEN 4 ELSE NONE]
  /\ free = 5 .. NPAGES
  /\ fpages = {}
  /\ cr3 = 1
  /\ esp0 = NONE
  /\ nfailed = 0
  /\ corrupt = 0

(* kmalloc finds p at the head of the list F. *)
kmalloc(p, F) == p \in F /\ \A q \in F : p <= q

(* The slots that kill_off_zombies has just destroyed. *)
Dead == {t \in Tasks : state[t] = "ZOMBIE" /\ state'[t] = "UNUSED"}

(* Mutant: destroy_task clears task->pgdir before it destroys it. *)
destroy_pages_cleared(F, ks, pd, up) ==
  /\ corrupt = 0
  /\ free'   = F \cup UNION {{kstack[t], NONE} : t \in Dead}
  /\ kstack' = [t \in Tasks |-> IF t \in Dead THEN NONE ELSE ks[t]]
  /\ pgdir'  = [t \in Tasks |-> IF t \in Dead THEN NONE ELSE pd[t]]
  /\ upage'  = [t \in Tasks |-> IF t \in Dead THEN NONE ELSE up[t]]

(* The memory side of destroy_task on every slot of Dead, with F in the     *)
(* free list and the tasks' pages as given.  Like every action it is only   *)
(* described while the free list is a list: nothing is known of a machine   *)
(* whose list has become cyclic.                                            *)
destroy_pages(F, ks, pd, up) ==
  /\ corrupt = 0
  /\ free'   = F \cup UNION {Held(t) : t \in Dead}
  /\ kstack' = [t \in Tasks |-> IF t \in Dead THEN NONE ELSE ks[t]]
  /\ pgdir'  = [t \in Tasks |-> IF t \in Dead THEN NONE ELSE pd[t]]
  /\ upage'  = [t \in Tasks |-> IF t \in Dead THEN NONE ELSE up[t]]

(* Mutant: switch_to does not load the page directory. *)
switch_pages_no_lcr3 ==
  /\ corrupt = 0
  /\ esp0' = kstack[curr_task']
  /\ UNCHANGED <<free, kstack, pgdir, upage, fpages, cr3, nfailed, corrupt>>

(* switch_to loads the page directory and the kernel stack of the next task. *)
switch_pages ==
  /\ corrupt = 0
  /\ cr3' = pgdir[curr_task']
  /\ esp0' = kstack[curr_task']
  /\ UNCHANGED <<free, kstack, pgdir, upage, fpages, nfailed, corrupt>>

mem_schedule == schedule /\ switch_pages

mem_timer == timer_irq /\ switch_pages

mem_sleep == sleep /\ switch_pages

(* exit frees nothing: the zombie's stack is still in use.  The panic of a  *)
(* task without a parent comes before the switch.                           *)
mem_exit ==
  /\ sys_exit
  /\ \/ machine' = "up" /\ switch_pages
     \/ machine' # "up" /\ corrupt = 0 /\ UNCHANGED mem

(* fork allocates the child's kernel stack, address space and user page;    *)
(* with too few pages kmalloc panics instead.                               *)
mem_fork ==
  /\ sys_fork
  /\ \E k, d, u \in Page, c \in Tasks :
       /\ state[c] = "UNUSED" /\ state'[c] = "RUNNABLE"
       /\ kmalloc(k, free)
       /\ kmalloc(d, free \ {k})
       /\ kmalloc(u, free \ {k, d})
       /\ destroy_pages(free \ {k, d, u}, [kstack EXCEPT ![c] = k],
                        [pgdir EXCEPT ![c] = d], [upage EXCEPT ![c] = u])
  /\ UNCHANGED <<fpages, cr3, esp0, nfailed, corrupt>>

(* Mutant: the user page of the old program is not unmapped. *)
OldSpace_dir_only == {pgdir[curr_task]}

(* Mutant: the kernel stack goes with the old program. *)
OldSpace_and_stack == {pgdir[curr_task], upage[curr_task], kstack[curr_task]}

(* What destroy_address_space(old_pgdir) frees. *)
OldSpace == {pgdir[curr_task], upage[curr_task]}

(* A successful execv builds the new address space first, then destroys the *)
(* old one, then loads the new one.                                         *)
mem_execv ==
  /\ sys_execv
  /\ \E d, u \in Page :
       /\ kmalloc(d, free)
       /\ kmalloc(u, free \ {d})
       /\ destroy_pages((free \ {d, u}) \cup OldSpace, kstack,
                        [pgdir EXCEPT ![curr_task] = d], [upage EXCEPT ![curr_task] = u])
       /\ cr3' = d
  /\ UNCHANGED <<fpages, esp0, nfailed, corrupt>>

(* execv of a path that does not exist or is no ELF file: the new address   *)
(* space is destroyed before anything was loaded at 0, where it still has   *)
(* the identity mapping of LowPage.                                         *)
mem_execv_fails ==
  /\ sys_other
  /\ nfailed < MAX_FAILED
  /\ free # {}
  /\ nfailed' = nfailed + 1
  /\ corrupt' = IF LowPage \in free THEN 1 ELSE corrupt
  /\ destroy_pages(free \cup {LowPage}, kstack, pgdir, upage)
  /\ UNCHANGED <<fpages, cr3, esp0>>

(* open that creates a file takes a page for its data. *)
mem_open ==
  /\ sys_open
  /\ \/ /\ destroy_pages(free, kstack, pgdir, upage)
        /\ UNCHANGED fpages
     \/ \E p \in Page :
          /\ Cardinality(fpages) < MAX_FILES
          /\ kmalloc(p, free)
          /\ fpages' = fpages \cup {p}
          /\ destroy_pages(free \ {p}, kstack, pgdir, upage)
  /\ UNCHANGED <<cr3, esp0, nfailed, corrupt>>

(* The system calls that only reap.  An execv whose arguments cannot be     *)
(* read is one of them: it frees the pages it took.                         *)
mem_reap ==
  /\ sys_wait \/ sys_wait_return \/ sys_close \/ sys_other
  /\ destroy_pages(free, kstack, pgdir, upage)
  /\ UNCHANGED <<fpages, cr3, esp0, nfailed, corrupt>>

mem_panic ==
  /\ panic \/ sys_fork_full \/ stopped
  /\ corrupt = 0
  /\ UNCHANGED mem

MemNext ==
  \/ mem_schedule \/ mem_timer \/ mem_sleep \/ mem_exit
  \/ mem_fork \/ mem_execv \/ mem_execv_fails
  \/ mem_open \/ mem_reap \/ mem_panic

MemSpec == MemInit /\ [][MemNext]_allvars
-----------------------------------------------------------------------------
(* The variables have their types. *)
MemTypeOK ==
  /\ free \subseteq Page /\ fpages \subseteq Page
  /\ kstack \in [Tasks -> Page \cup {NONE}]
  /\ pgdir \in [Tasks -> Page \cup {NONE}]
  /\ upage \in [Tasks -> Page \cup {NONE}]
  /\ cr3 \in Page /\ esp0 \in Page \cup {NONE}
  /\ nfailed \in 0 .. MAX_FAILED
  /\ corrupt \in {0, 1}

(* No page has two owners: what a task holds is not in the free list, not   *)
(* held by another task and not the data of a file; a task's kernel stack,  *)
(* page directory and user page are three different pages.                  *)
PagesDisjoint ==
  /\ \A t \in Tasks :
       /\ Held(t) \cap (free \cup fpages) = {}
       /\ \A u \in Tasks \ {t} : Held(t) \cap Held(u) = {}
       /\ kstack[t] # NONE => kstack[t] # pgdir[t] /\ kstack[t] # upage[t]
       /\ pgdir[t] # NONE => pgdir[t] # upage[t]
  /\ free \cap fpages = {}

(* No page is lost: whatever sequence of fork, execv, exit and wait, each   *)
(* page is in the free list, held by a task that is not UNUSED, or file     *)
(* data.                                                                    *)
NoLeak ==
  1 .. NPAGES \subseteq
    free \cup fpages \cup UNION {Held(t) : t \in {u \in Tasks : state[u] # "UNUSED"}}

(* The CPU runs on the pages of the current task, and they are not free: no *)
(* reaping and no execv pulls a page directory or a kernel stack from under *)
(* the processor.                                                           *)
CpuOnOwnPages ==
  machine = "up" =>
    /\ cr3 = pgdir[curr_task] /\ cr3 \notin free
    /\ curr_task # scheduler_task => esp0 = kstack[curr_task] /\ esp0 \in Page \ free

(* What destroy_user_address_space assumes: when it unmaps [0, PGSIZE) a    *)
(* program is loaded there, so kfree gets a page that is in use, never one  *)
(* that is free already.                                                    *)
NoDoubleFree == corrupt = 0
=============================================================================
