-------------------------- MODULE TaskMemoryProofs --------------------------
(***************************************************************************)
(* Proofs about the pages behind the task table, for any number of slots   *)
(* and pages, and for programs that overrun open_files as well.            *)
(*                                                                         *)
(* A handler that returns first changes the pages of the caller or of a    *)
(* new child and then reaps.  Layout says of any such intermediate table   *)
(* what has to hold of it, so that each action is one small change of a    *)
(* Layout followed by the same lemma about reaping.                        *)
(***************************************************************************)
EXTENDS TaskMemory, ProcProofs

HeldIn(ks, pd, up, t) == {ks[t], pd[t], up[t]} \ {NONE}

(* Which tasks have which pages: the scheduler a page directory, a free     *)
(* slot nothing, every other task all three.                                *)
OwnersIn(st, ks, pd, up) ==
  \A t \in Tasks :
    /\ t = scheduler_task => ks[t] = NONE /\ pd[t] \in Page /\ up[t] = NONE
    /\ t # scheduler_task /\ st[t] = "UNUSED" => ks[t] = NONE /\ pd[t] = NONE /\ up[t] = NONE
    /\ t # scheduler_task /\ st[t] # "UNUSED" => ks[t] \in Page /\ pd[t] \in Page /\ up[t] \in Page

(* PagesDisjoint of given tables. *)
ApartIn(F, fp, ks, pd, up) ==
  /\ \A t \in Tasks :
       /\ HeldIn(ks, pd, up, t) \cap (F \cup fp) = {}
       /\ \A u \in Tasks \ {t} : HeldIn(ks, pd, up, t) \cap HeldIn(ks, pd, up, u) = {}
       /\ ks[t] # NONE => ks[t] # pd[t] /\ ks[t] # up[t]
       /\ pd[t] # NONE => pd[t] # up[t]
  /\ F \cap fp = {}

(* NoLeak of given tables. *)
AccountedIn(st, F, fp, ks, pd, up) ==
  \A p \in 1 .. NPAGES :
    p \in F \cup fp \/ \E t \in Tasks : st[t] # "UNUSED" /\ p \in HeldIn(ks, pd, up, t)

TypesIn(F, fp, ks, pd, up) ==
  /\ F \subseteq Page /\ fp \subseteq Page
  /\ ks \in [Tasks -> Page \cup {NONE}]
  /\ pd \in [Tasks -> Page \cup {NONE}]
  /\ up \in [Tasks -> Page \cup {NONE}]

Layout(st, F, fp, ks, pd, up) ==
  /\ TypesIn(F, fp, ks, pd, up)
  /\ OwnersIn(st, ks, pd, up)
  /\ ApartIn(F, fp, ks, pd, up)
  /\ AccountedIn(st, F, fp, ks, pd, up)

(* As long as no execv has failed, physical page 0 is nobody's. *)
LowPageUnseen ==
  nfailed = 0 => /\ LowPage \notin free \cup fpages
                 /\ \A t \in Tasks : LowPage \notin Held(t)

MemInv ==
  /\ Core
  /\ Layout(state, free, fpages, kstack, pgdir, upage)
  /\ LowPageUnseen
  /\ CpuOnOwnPages
  /\ cr3 \in Page /\ esp0 \in Page \cup {NONE}
  /\ nfailed \in 0 .. MAX_FAILED
  /\ corrupt = 0

USE ProcAssumption, TaskMemoryAssumption
    DEF Tasks, scheduler_task, init_task, NULL, FILE, procstate, Page, LowPage, NONE

(* The invariant is as strong as the properties that the runs check. *)
LEMMA MemInvImplies ==
  MemInv => MemTypeOK /\ PagesDisjoint /\ NoLeak /\ CpuOnOwnPages /\ NoDoubleFree
<1> SUFFICES ASSUME MemInv
             PROVE  MemTypeOK /\ PagesDisjoint /\ NoLeak /\ CpuOnOwnPages /\ NoDoubleFree
  OBVIOUS
<1>1. MemTypeOK
  BY DEF MemInv, Layout, TypesIn, MemTypeOK
<1>2. PagesDisjoint
  BY DEF MemInv, Layout, ApartIn, HeldIn, PagesDisjoint, Held
<1>3. NoLeak
  <2>1. \A p \in 1 .. NPAGES :
          \/ p \in free \cup fpages
          \/ \E t \in {u \in Tasks : state[u] # "UNUSED"} : p \in Held(t)
    BY DEF MemInv, Layout, AccountedIn, HeldIn, Held
  <2> QED
    BY <2>1 DEF NoLeak
<1> QED
  BY <1>1, <1>2, <1>3 DEF MemInv, NoDoubleFree

(* Boot leaves a sound layout. *)
LEMMA MemInitInv == MemInit => MemInv
<1> SUFFICES ASSUME MemInit PROVE MemInv
  OBVIOUS
<1> USE DEF MemInit
<1>1. Core
  BY DEF init_tasks, Core, TypeOK, OneRunning
<1>2. TypesIn(free, fpages, kstack, pgdir, upage)
  BY DEF TypesIn
<1>3. OwnersIn(state, kstack, pgdir, upage)
  BY DEF OwnersIn, init_tasks
<1>4. ApartIn(free, fpages, kstack, pgdir, upage)
  BY DEF ApartIn, HeldIn
<1>5. AccountedIn(state, free, fpages, kstack, pgdir, upage)
  <2> SUFFICES ASSUME NEW p \in 1 .. NPAGES
               PROVE  p \in free \/ \E t \in Tasks : state[t] # "UNUSED" /\ p \in HeldIn(kstack, pgdir, upage, t)
    BY DEF AccountedIn
  <2>1. CASE p = 1
    <3>1. 1 \in HeldIn(kstack, pgdir, upage, scheduler_task) /\ state[scheduler_task] # "UNUSED"
      BY DEF HeldIn, init_tasks
    <3> HIDE DEF MemInit
    <3> QED
      BY <2>1, <3>1
  <2>2. CASE p \in {2, 3, 4}
    <3>1. p \in HeldIn(kstack, pgdir, upage, init_task) /\ state[init_task] # "UNUSED"
      BY <2>2 DEF HeldIn, init_tasks
    <3> HIDE DEF MemInit
    <3> QED
      BY <3>1
  <2>3. CASE p \in 5 .. NPAGES
    BY <2>3
  <2> HIDE DEF MemInit
  <2> QED
    BY <2>1, <2>2, <2>3
<1>6. LowPageUnseen /\ CpuOnOwnPages
  BY DEF LowPageUnseen, CpuOnOwnPages, Held, init_tasks
<1> QED
  BY <1>1, <1>2, <1>3, <1>4, <1>5, <1>6 DEF MemInv, Layout

-----------------------------------------------------------------------------
(* Reaping returns the pages of the dead and keeps the layout.  The dead    *)
(* are tasks other than the scheduler whose pages the handler has not       *)
(* touched.                                                                 *)
LEMMA ReapKeepsLayout ==
  ASSUME NEW st, NEW F, NEW ks, NEW pd, NEW up,
         Layout(st, F, fpages', ks, pd, up),
         destroy_pages(F, ks, pd, up),
         \A t \in Tasks : state'[t] = IF t \in Dead THEN "UNUSED" ELSE st[t],
         \A t \in Dead : /\ t # scheduler_task
                         /\ ks[t] = kstack[t] /\ pd[t] = pgdir[t] /\ up[t] = upage[t]
  PROVE  Layout(state, free, fpages, kstack, pgdir, upage)'
<1>0. Dead \subseteq Tasks
  BY DEF Dead
<1>1. /\ kstack' = [t \in Tasks |-> IF t \in Dead THEN NONE ELSE ks[t]]
      /\ pgdir'  = [t \in Tasks |-> IF t \in Dead THEN NONE ELSE pd[t]]
      /\ upage'  = [t \in Tasks |-> IF t \in Dead THEN NONE ELSE up[t]]
  BY DEF destroy_pages
<1>2. \A p : p \in free' <=> p \in F \/ \E t \in Dead : p \in HeldIn(ks, pd, up, t)
  <2>1. free' = F \cup UNION {Held(t) : t \in Dead}
    BY DEF destroy_pages
  <2>2. \A t \in Dead : Held(t) = HeldIn(ks, pd, up, t)
    BY DEF Held, HeldIn
  <2> QED
    BY <2>1, <2>2
<1>3. \A t \in Tasks : HeldIn(kstack', pgdir', upage', t) =
                         IF t \in Dead THEN {} ELSE HeldIn(ks, pd, up, t)
  BY <1>1 DEF HeldIn
<1>4. TypesIn(free', fpages', kstack', pgdir', upage')
  <2>1. free' \subseteq Page
    <3>1. TypesIn(F, fpages', ks, pd, up)
      BY DEF Layout
    <3>2. \A t \in Dead : HeldIn(ks, pd, up, t) \subseteq Page
      BY <1>0, <3>1 DEF HeldIn, TypesIn
    <3>3. F \subseteq Page
      BY <3>1 DEF TypesIn
    <3> QED
      BY <1>2, <3>2, <3>3
  <2> QED
    BY <1>1, <2>1 DEF Layout, TypesIn
<1>5. OwnersIn(state', kstack', pgdir', upage')
  BY <1>1 DEF Layout, OwnersIn
<1>6. ApartIn(free', fpages', kstack', pgdir', upage')
  <2>0. ApartIn(F, fpages', ks, pd, up)
    BY DEF Layout
  <2>1. ASSUME NEW t \in Tasks
        PROVE  /\ kstack'[t] # NONE => kstack'[t] # pgdir'[t] /\ kstack'[t] # upage'[t]
               /\ pgdir'[t] # NONE => pgdir'[t] # upage'[t]
    BY <1>1, <2>0 DEF ApartIn
  <2>2. ASSUME NEW t \in Tasks, NEW u \in Tasks \ {t}
        PROVE  HeldIn(kstack', pgdir', upage', t) \cap HeldIn(kstack', pgdir', upage', u) = {}
    BY <1>3, <2>0 DEF ApartIn
  <2>3. ASSUME NEW t \in Tasks, NEW p \in HeldIn(kstack', pgdir', upage', t), p \in free' \cup fpages'
        PROVE  FALSE
    <3>1. t \notin Dead /\ p \in HeldIn(ks, pd, up, t)
      BY <1>3, <2>3
    <3>2. p \notin F \cup fpages'
      BY <2>0, <3>1 DEF ApartIn
    <3>3. PICK d \in Dead : p \in HeldIn(ks, pd, up, d)
      BY <1>2, <2>3, <3>2
    <3>4. d \in Tasks \ {t}
      BY <1>0, <3>1
    <3>5. HeldIn(ks, pd, up, t) \cap HeldIn(ks, pd, up, d) = {}
      BY <2>0, <3>4 DEF ApartIn
    <3> QED
      BY <3>1, <3>3, <3>5
  <2>4. ASSUME NEW p \in free', p \in fpages'
        PROVE  FALSE
    <3>1. p \notin F
      BY <2>0, <2>4 DEF ApartIn
    <3>2. PICK d \in Dead : p \in HeldIn(ks, pd, up, d)
      BY <1>2, <2>4, <3>1
    <3> QED
      BY <1>0, <2>0, <2>4, <3>2 DEF ApartIn
  <2> QED
    BY <2>1, <2>2, <2>3, <2>4 DEF ApartIn
<1>7. AccountedIn(state', free', fpages', kstack', pgdir', upage')
  <2> SUFFICES ASSUME NEW p \in 1 .. NPAGES, p \notin free' \cup fpages'
               PROVE  \E t \in Tasks : state'[t] # "UNUSED" /\ p \in HeldIn(kstack', pgdir', upage', t)
    BY DEF AccountedIn
  <2>1. p \notin F
    BY <1>2
  <2>2. PICK t \in Tasks : st[t] # "UNUSED" /\ p \in HeldIn(ks, pd, up, t)
    BY <2>1 DEF Layout, AccountedIn
  <2>3. t \notin Dead
    BY <1>2, <2>2
  <2> QED
    BY <1>3, <2>2, <2>3
<1> QED
  BY <1>4, <1>5, <1>6, <1>7 DEF Layout

(* What kill_off_zombies does to states, told by Dead. *)
LEMMA ReapTable ==
  ASSUME Core, NEW st, NEW par, NEW nf, kill_off_zombies(st, par, nf),
         \A t \in Tasks : st[t] = state[t] \/ (state[t] = "UNUSED" /\ st[t] = "RUNNABLE")
  PROVE  /\ \A t \in Tasks : state'[t] = IF t \in Dead THEN "UNUSED" ELSE st[t]
         /\ \A t \in Dead : t \in Tasks /\ t # scheduler_task /\ state[t] = "ZOMBIE"
<1>1. \A t \in Dead : t \in Tasks /\ t # scheduler_task /\ state[t] = "ZOMBIE"
  BY DEF Dead, Core
<1>2. ASSUME NEW t \in Tasks
      PROVE  state'[t] = IF t \in Dead THEN "UNUSED" ELSE st[t]
  <2>1. CASE t \in Reaped(st, par)
    BY <2>1 DEF kill_off_zombies, destroy_task, Reaped, Dead
  <2>2. CASE t \notin Reaped(st, par)
    BY <2>2 DEF kill_off_zombies, destroy_task, Dead
  <2> QED
    BY <2>1, <2>2
<1> QED
  BY <1>1, <1>2

(* A system call that returns: the table it leaves to kill_off_zombies is a *)
(* Layout in which the caller runs on its own pages.                        *)
LEMMA ReturnKeepsMem ==
  ASSUME MemInv, Core', machine = "up", curr_task' = curr_task, curr_task # scheduler_task,
         NEW st, NEW par, NEW nf, kill_off_zombies(st, par, nf),
         \A t \in Tasks : st[t] = state[t] \/ (state[t] = "UNUSED" /\ st[t] = "RUNNABLE"),
         NEW F, NEW ks, NEW pd, NEW up,
         destroy_pages(F, ks, pd, up),
         Layout(st, F, fpages', ks, pd, up),
         \A t \in Tasks : state[t] = "ZOMBIE" =>
           ks[t] = kstack[t] /\ pd[t] = pgdir[t] /\ up[t] = upage[t],
         ks[curr_task] = kstack[curr_task],
         cr3' = pd[curr_task], esp0' = esp0,
         nfailed' \in 0 .. MAX_FAILED, corrupt' = 0,
         nfailed' = 0 => /\ LowPage \notin F \cup fpages'
                         /\ \A t \in Tasks : LowPage \notin HeldIn(ks, pd, up, t)
  PROVE  MemInv'
<1>0. Core /\ TypeOK /\ state[curr_task] = "RUNNING" /\ curr_task \in Tasks
  BY DEF MemInv, Core, TypeOK, OneRunning
<1>1. /\ \A t \in Tasks : state'[t] = IF t \in Dead THEN "UNUSED" ELSE st[t]
      /\ \A t \in Dead : t \in Tasks /\ t # scheduler_task /\ state[t] = "ZOMBIE"
  BY <1>0, ReapTable
<1>2. \A t \in Dead : /\ t # scheduler_task
                      /\ ks[t] = kstack[t] /\ pd[t] = pgdir[t] /\ up[t] = upage[t]
  BY <1>1
<1>3. Layout(state, free, fpages, kstack, pgdir, upage)'
  BY <1>1, <1>2, ReapKeepsLayout
<1>4. /\ curr_task \notin Dead
      /\ \A t \in Tasks :
           /\ kstack'[t] = IF t \in Dead THEN NONE ELSE ks[t]
           /\ pgdir'[t] = IF t \in Dead THEN NONE ELSE pd[t]
           /\ upage'[t] = IF t \in Dead THEN NONE ELSE up[t]
  BY <1>0, <1>1 DEF destroy_pages
<1>5. /\ pd[curr_task] \in Page /\ ks[curr_task] \in Page
      /\ st[curr_task] = "RUNNING"
  <2>1. st[curr_task] = "RUNNING"
    BY <1>0
  <2>2. OwnersIn(st, ks, pd, up)
    BY DEF Layout
  <2> QED
    BY <1>0, <2>1, <2>2 DEF OwnersIn
<1>6. /\ cr3' = pgdir'[curr_task'] /\ cr3' \notin free' /\ cr3' \in Page
      /\ kstack'[curr_task'] = kstack[curr_task] /\ kstack'[curr_task'] \in Page \ free'
  <2>1. /\ pgdir'[curr_task] = pd[curr_task]
        /\ kstack'[curr_task] = ks[curr_task]
    BY <1>0, <1>4
  <2>2. HeldIn(kstack', pgdir', upage', curr_task) \cap free' = {}
    BY <1>0, <1>3 DEF Layout, ApartIn
  <2>3. {pd[curr_task], ks[curr_task]} \subseteq HeldIn(kstack', pgdir', upage', curr_task)
    BY <1>5, <2>1 DEF HeldIn
  <2> QED
    BY <1>5, <2>1, <2>2, <2>3
<1>7. CpuOnOwnPages'
  <2>1. esp0 = kstack[curr_task]
    BY DEF MemInv, CpuOnOwnPages
  <2> QED
    BY <1>6, <2>1 DEF CpuOnOwnPages
<1>8. LowPageUnseen'
  <2> SUFFICES ASSUME nfailed' = 0
               PROVE  /\ LowPage \notin free' \cup fpages'
                      /\ \A t \in Tasks : LowPage \notin HeldIn(kstack', pgdir', upage', t)
    BY DEF LowPageUnseen, Held, HeldIn
  <2>1. \A t \in Tasks : LowPage \notin HeldIn(kstack', pgdir', upage', t)
    BY <1>4 DEF HeldIn
  <2>2. \A t \in Dead : Held(t) = HeldIn(ks, pd, up, t)
    BY <1>2 DEF Held, HeldIn
  <2>3. free' = F \cup UNION {Held(t) : t \in Dead}
    BY DEF destroy_pages
  <2>4. LowPage \notin free'
    BY <1>1, <2>2, <2>3
  <2> QED
    BY <2>1, <2>4
<1> QED
  BY <1>3, <1>6, <1>7, <1>8 DEF MemInv

(* A step that switches: only cr3 and esp0 change, and no slot is taken or  *)
(* freed.                                                                   *)
LEMMA SwitchKeepsMem ==
  ASSUME MemInv, Core', switch_pages, machine' = "up",
         \A t \in Tasks : state'[t] = "UNUSED" <=> state[t] = "UNUSED"
  PROVE  MemInv'
<1>1. curr_task' \in Tasks /\ state'[curr_task'] = "RUNNING"
  BY DEF Core, TypeOK, OneRunning
<1>2. UNCHANGED <<free, kstack, pgdir, upage, fpages, nfailed, corrupt>>
  BY DEF switch_pages
<1>3. cr3' = pgdir[curr_task'] /\ esp0' = kstack[curr_task']
  BY DEF switch_pages
<1>4. /\ TypesIn(free, fpages, kstack, pgdir, upage)
      /\ OwnersIn(state, kstack, pgdir, upage)
      /\ ApartIn(free, fpages, kstack, pgdir, upage)
      /\ AccountedIn(state, free, fpages, kstack, pgdir, upage)
  BY DEF MemInv, Layout
<1>5. Layout(state, free, fpages, kstack, pgdir, upage)'
  <2>1. OwnersIn(state', kstack, pgdir, upage)
    BY <1>4 DEF OwnersIn
  <2>2. AccountedIn(state', free, fpages, kstack, pgdir, upage)
    BY <1>4 DEF AccountedIn
  <2> QED
    BY <1>2, <1>4, <2>1, <2>2 DEF Layout
<1>6. /\ pgdir[curr_task'] \in Page
      /\ curr_task' # scheduler_task => kstack[curr_task'] \in Page
      /\ kstack[curr_task'] \in Page \cup {NONE}
  BY <1>1, <1>4 DEF OwnersIn, TypesIn
<1>7. HeldIn(kstack, pgdir, upage, curr_task') \cap free = {}
  BY <1>1, <1>4 DEF ApartIn
<1>8. CpuOnOwnPages'
  BY <1>2, <1>3, <1>6, <1>7 DEF CpuOnOwnPages, HeldIn
<1>9. LowPageUnseen'
  BY <1>2 DEF MemInv, LowPageUnseen, Held
<1> QED
  BY <1>2, <1>3, <1>5, <1>6, <1>8, <1>9 DEF MemInv
-----------------------------------------------------------------------------
(* exit and every other step that switches. *)
LEMMA SwitchStep ==
  ASSUME MemInv, Core', mem_schedule \/ mem_timer \/ mem_sleep \/ mem_exit
  PROVE  MemInv'
<1>0. Core
  BY DEF MemInv
<1>1. \A t \in Tasks : state'[t] = "UNUSED" <=> state[t] = "UNUSED"
  BY <1>0, SwitchStates DEF mem_schedule, mem_timer, mem_sleep, mem_exit
<1>2. CASE mem_schedule \/ mem_timer \/ mem_sleep
  <2>1. machine' = "up" /\ switch_pages
    BY <1>2 DEF mem_schedule, mem_timer, mem_sleep, schedule, timer_irq, sleep, InUser
  <2> QED
    BY <1>1, <2>1, SwitchKeepsMem
<1>3. CASE mem_exit
  <2>1. CASE machine' = "up" /\ switch_pages
    BY <1>1, <2>1, SwitchKeepsMem
  <2>2. CASE machine' # "up" /\ UNCHANGED mem
    <3>1. /\ OwnersIn(state', kstack, pgdir, upage)
          /\ AccountedIn(state', free, fpages, kstack, pgdir, upage)
      BY <1>1 DEF MemInv, Layout, OwnersIn, AccountedIn
    <3>2. Layout(state, free, fpages, kstack, pgdir, upage)'
      BY <2>2, <3>1 DEF MemInv, Layout, mem
    <3> QED
      BY <2>2, <3>2 DEF MemInv, mem, LowPageUnseen, Held, CpuOnOwnPages
  <2> QED
    BY <1>3, <2>1, <2>2 DEF mem_exit
<1> QED
  BY <1>2, <1>3

(* What every system call of an undisturbed table starts from. *)
LEMMA CallerFacts ==
  ASSUME MemInv, machine = "up", curr_task # scheduler_task
  PROVE  /\ curr_task \in Tasks /\ state[curr_task] = "RUNNING"
         /\ cr3 = pgdir[curr_task]
         /\ TypesIn(free, fpages, kstack, pgdir, upage)
         /\ OwnersIn(state, kstack, pgdir, upage)
         /\ ApartIn(free, fpages, kstack, pgdir, upage)
         /\ AccountedIn(state, free, fpages, kstack, pgdir, upage)
         /\ nfailed = 0 => /\ LowPage \notin free \cup fpages
                           /\ \A t \in Tasks : LowPage \notin HeldIn(kstack, pgdir, upage, t)
  BY DEF MemInv, Core, TypeOK, OneRunning, CpuOnOwnPages, Layout, LowPageUnseen, Held, HeldIn

(* The calls that only reap. *)
LEMMA ReapStep == ASSUME MemInv, Core', mem_reap PROVE MemInv'
<1>1. /\ machine = "up" /\ curr_task' = curr_task /\ curr_task # scheduler_task
      /\ \E par, nf : kill_off_zombies(state, par, nf)
  BY DEF mem_reap, sys_wait, sys_wait_return, sys_close, sys_other, InUser
<1>2. destroy_pages(free, kstack, pgdir, upage) /\ UNCHANGED <<fpages, cr3, esp0, nfailed, corrupt>>
  BY DEF mem_reap
<1>3. Layout(state, free, fpages', kstack, pgdir, upage)
  BY <1>2 DEF MemInv
<1> QED
  BY <1>1, <1>2, <1>3, CallerFacts, ReturnKeepsMem DEF MemInv

(* open, which may take a page for a new file. *)
LEMMA OpenStep == ASSUME MemInv, Core', mem_open PROVE MemInv'
<1>1. /\ machine = "up" /\ curr_task' = curr_task /\ curr_task # scheduler_task
      /\ \E par, nf : kill_off_zombies(state, par, nf)
  BY DEF mem_open, sys_open, InUser
<1>2. UNCHANGED <<cr3, esp0, nfailed, corrupt>>
  BY DEF mem_open
<1>3. CASE destroy_pages(free, kstack, pgdir, upage) /\ UNCHANGED fpages
  <2>1. Layout(state, free, fpages', kstack, pgdir, upage)
    BY <1>3 DEF MemInv
  <2> QED
    BY <1>1, <1>2, <1>3, <2>1, CallerFacts, ReturnKeepsMem DEF MemInv
<1>4. ASSUME NEW p \in Page, kmalloc(p, free), fpages' = fpages \cup {p},
             destroy_pages(free \ {p}, kstack, pgdir, upage)
      PROVE  MemInv'
  <2>0. p \in free
    BY <1>4 DEF kmalloc
  <2>1. TypesIn(free \ {p}, fpages', kstack, pgdir, upage)
    BY <1>1, <1>4, CallerFacts DEF TypesIn
  <2>2. ApartIn(free \ {p}, fpages', kstack, pgdir, upage)
    <3>1. ApartIn(free, fpages, kstack, pgdir, upage) /\ (free \ {p}) \cup fpages' = free \cup fpages
      BY <1>1, <1>4, <2>0, CallerFacts
    <3>2. (free \ {p}) \cap fpages' = {}
      BY <1>4, <3>1 DEF ApartIn
    <3> QED
      BY <3>1, <3>2 DEF ApartIn
  <2>3. AccountedIn(state, free \ {p}, fpages', kstack, pgdir, upage)
    BY <1>1, <1>4, CallerFacts DEF AccountedIn
  <2>4. Layout(state, free \ {p}, fpages', kstack, pgdir, upage)
    BY <1>1, <2>1, <2>2, <2>3, CallerFacts DEF Layout
  <2>5. nfailed' = 0 => /\ LowPage \notin (free \ {p}) \cup fpages'
                        /\ \A t \in Tasks : LowPage \notin HeldIn(kstack, pgdir, upage, t)
    BY <1>1, <1>2, <1>4, <2>0, CallerFacts
  <2> QED
    BY <1>1, <1>2, <1>4, <2>4, <2>5, CallerFacts, ReturnKeepsMem DEF MemInv
<1> QED
  BY <1>3, <1>4 DEF mem_open

(* A failing execv puts page 0 on the list, which nobody has as yet. *)
LEMMA ExecvFailsStep ==
  ASSUME MAX_FAILED <= 1, MemInv, Core', mem_execv_fails
  PROVE  MemInv'
<1>1. /\ machine = "up" /\ curr_task' = curr_task /\ curr_task # scheduler_task
      /\ \E par, nf : kill_off_zombies(state, par, nf)
  BY DEF mem_execv_fails, sys_other, InUser
<1>2. /\ nfailed = 0 /\ nfailed' = 1 /\ nfailed' \in 0 .. MAX_FAILED
      /\ UNCHANGED <<fpages, cr3, esp0>>
      /\ destroy_pages(free \cup {LowPage}, kstack, pgdir, upage)
  BY DEF mem_execv_fails, MemInv
<1>3. /\ LowPage \notin free \cup fpages
      /\ \A t \in Tasks : LowPage \notin HeldIn(kstack, pgdir, upage, t)
  BY <1>1, <1>2, CallerFacts
<1>4. corrupt' = 0
  BY <1>3 DEF mem_execv_fails, MemInv
<1>5. TypesIn(free \cup {LowPage}, fpages', kstack, pgdir, upage)
  BY <1>1, <1>2, CallerFacts DEF TypesIn
<1>6. ApartIn(free \cup {LowPage}, fpages', kstack, pgdir, upage)
  <2>1. ApartIn(free, fpages, kstack, pgdir, upage)
    BY <1>1, CallerFacts
  <2> QED
    BY <1>2, <1>3, <2>1 DEF ApartIn
<1>7. AccountedIn(state, free \cup {LowPage}, fpages', kstack, pgdir, upage)
  BY <1>1, <1>2, CallerFacts DEF AccountedIn
<1>8. Layout(state, free \cup {LowPage}, fpages', kstack, pgdir, upage)
  BY <1>1, <1>5, <1>6, <1>7, CallerFacts DEF Layout
<1> QED
  BY <1>1, <1>2, <1>4, <1>8, CallerFacts, ReturnKeepsMem

(* A successful execv exchanges the caller's address space for free pages. *)
LEMMA ExecvStep == ASSUME MemInv, Core', mem_execv PROVE MemInv'
<1>1. /\ machine = "up" /\ curr_task' = curr_task /\ curr_task # scheduler_task
      /\ \E par, nf : kill_off_zombies(state, par, nf)
      /\ UNCHANGED <<fpages, esp0, nfailed, corrupt>>
  BY DEF mem_execv, sys_execv, InUser
<1>2. PICK d \in Page, u \in Page :
        /\ d \in free /\ u \in free /\ d # u
        /\ destroy_pages((free \ {d, u}) \cup OldSpace, kstack,
                         [pgdir EXCEPT ![curr_task] = d], [upage EXCEPT ![curr_task] = u])
        /\ cr3' = d
  BY DEF mem_execv, kmalloc
<1> DEFINE pd == [pgdir EXCEPT ![curr_task] = d]
           up == [upage EXCEPT ![curr_task] = u]
           F == (free \ {d, u}) \cup OldSpace
<1>3. /\ curr_task \in Tasks /\ state[curr_task] = "RUNNING"
      /\ TypesIn(free, fpages, kstack, pgdir, upage)
      /\ OwnersIn(state, kstack, pgdir, upage)
      /\ ApartIn(free, fpages, kstack, pgdir, upage)
      /\ AccountedIn(state, free, fpages, kstack, pgdir, upage)
  BY <1>1, CallerFacts
<1>4. /\ kstack[curr_task] \in Page /\ pgdir[curr_task] \in Page /\ upage[curr_task] \in Page
      /\ HeldIn(kstack, pgdir, upage, curr_task) = {kstack[curr_task], pgdir[curr_task], upage[curr_task]}
  BY <1>1, <1>3 DEF OwnersIn, HeldIn
<1>5. /\ \A t \in Tasks : /\ pd[t] = IF t = curr_task THEN d ELSE pgdir[t]
                          /\ up[t] = IF t = curr_task THEN u ELSE upage[t]
      /\ pd \in [Tasks -> Page \cup {NONE}] /\ up \in [Tasks -> Page \cup {NONE}]
  BY <1>3 DEF TypesIn
<1>6. \A p : p \in F <=> p \in free \ {d, u} \/ p = pgdir[curr_task] \/ p = upage[curr_task]
  BY DEF OldSpace
<1> HIDE DEF pd, up, F
<1>7. /\ \A t \in Tasks \ {curr_task} : HeldIn(kstack, pd, up, t) = HeldIn(kstack, pgdir, upage, t)
      /\ HeldIn(kstack, pd, up, curr_task) = {kstack[curr_task], d, u}
  BY <1>2, <1>3, <1>4, <1>5 DEF HeldIn
<1>8. TypesIn(F, fpages, kstack, pd, up)
  BY <1>3, <1>4, <1>5, <1>6 DEF TypesIn
<1>9. OwnersIn(state, kstack, pd, up)
  BY <1>1, <1>2, <1>3, <1>5 DEF OwnersIn
<1>10. ApartIn(F, fpages, kstack, pd, up)
  <2>0. /\ \A t \in Tasks : HeldIn(kstack, pgdir, upage, t) \cap (free \cup fpages) = {}
        /\ free \cap fpages = {}
        /\ \A t \in Tasks \ {curr_task} :
             HeldIn(kstack, pgdir, upage, t) \cap HeldIn(kstack, pgdir, upage, curr_task) = {}
    BY <1>3 DEF ApartIn
  <2>1. \A t \in Tasks : HeldIn(kstack, pd, up, t) \cap (F \cup fpages) = {}
    <3>1. \A t \in Tasks \ {curr_task} : HeldIn(kstack, pd, up, t) \cap (F \cup fpages) = {}
      BY <1>4, <1>6, <1>7, <2>0
    <3>2. kstack[curr_task] # pgdir[curr_task] /\ kstack[curr_task] # upage[curr_task]
      BY <1>3, <1>4 DEF ApartIn
    <3>3. HeldIn(kstack, pd, up, curr_task) \cap (F \cup fpages) = {}
      BY <1>2, <1>3, <1>4, <1>6, <1>7, <2>0, <3>2
    <3> QED
      BY <3>1, <3>3
  <2>2. \A t \in Tasks \ {curr_task} :
          HeldIn(kstack, pd, up, t) \cap HeldIn(kstack, pd, up, curr_task) = {}
    BY <1>2, <1>4, <1>7, <2>0
  <2>3. \A t \in Tasks : \A v \in Tasks \ {t} :
          HeldIn(kstack, pd, up, t) \cap HeldIn(kstack, pd, up, v) = {}
    <3> TAKE t \in Tasks
    <3> TAKE v \in Tasks \ {t}
    <3>1. CASE t = curr_task \/ v = curr_task
      BY <1>3, <2>2, <3>1
    <3>2. CASE t # curr_task /\ v # curr_task
      BY <1>3, <1>7, <3>2 DEF ApartIn
    <3> QED
      BY <3>1, <3>2
  <2>4. \A t \in Tasks : /\ kstack[t] # NONE => kstack[t] # pd[t] /\ kstack[t] # up[t]
                         /\ pd[t] # NONE => pd[t] # up[t]
    <3>1. kstack[curr_task] # d /\ kstack[curr_task] # u
      BY <1>2, <1>3, <1>4, <2>0
    <3> QED
      BY <1>2, <1>3, <1>5, <3>1 DEF ApartIn
  <2>5. F \cap fpages = {}
    BY <1>3, <1>4, <1>6, <2>0
  <2> QED
    BY <2>1, <2>3, <2>4, <2>5 DEF ApartIn
<1>11. AccountedIn(state, F, fpages, kstack, pd, up)
  <2> SUFFICES ASSUME NEW p \in 1 .. NPAGES, p \notin F \cup fpages
               PROVE  \E t \in Tasks : state[t] # "UNUSED" /\ p \in HeldIn(kstack, pd, up, t)
    BY DEF AccountedIn
  <2>1. CASE p \in {d, u}
    BY <1>3, <1>7, <2>1
  <2>2. CASE p \notin {d, u}
    <3>1. PICK t \in Tasks : state[t] # "UNUSED" /\ p \in HeldIn(kstack, pgdir, upage, t)
      BY <1>3, <1>6, <2>2 DEF AccountedIn
    <3> QED
      BY <1>4, <1>6, <1>7, <3>1
  <2> QED
    BY <2>1, <2>2
<1>12. Layout(state, F, fpages', kstack, pd, up)
  BY <1>1, <1>8, <1>9, <1>10, <1>11 DEF Layout
<1>13. nfailed' = 0 => /\ LowPage \notin F \cup fpages'
                       /\ \A t \in Tasks : LowPage \notin HeldIn(kstack, pd, up, t)
  <2> SUFFICES ASSUME nfailed = 0
               PROVE  /\ LowPage \notin F \cup fpages
                      /\ \A t \in Tasks : LowPage \notin HeldIn(kstack, pd, up, t)
    BY <1>1
  <2>1. /\ LowPage \notin free \cup fpages
        /\ \A t \in Tasks : LowPage \notin HeldIn(kstack, pgdir, upage, t)
    BY <1>1, CallerFacts
  <2> QED
    BY <1>2, <1>3, <1>4, <1>6, <1>7, <2>1
<1>14. /\ destroy_pages(F, kstack, pd, up)
       /\ cr3' = pd[curr_task]
       /\ \A t \in Tasks : state[t] = "ZOMBIE" => pd[t] = pgdir[t] /\ up[t] = upage[t]
  BY <1>2, <1>3, <1>5 DEF pd, up, F
<1> QED
  BY <1>1, <1>12, <1>13, <1>14, ReturnKeepsMem DEF MemInv

(* fork gives three free pages to the slot it takes. *)
LEMMA MemForkStep == ASSUME MemInv, Core', mem_fork PROVE MemInv'
<1>1. /\ machine = "up" /\ curr_task' = curr_task /\ curr_task # scheduler_task
      /\ UNCHANGED <<fpages, cr3, esp0, nfailed, corrupt>>
  BY DEF mem_fork, sys_fork, InUser
<1>3. /\ curr_task \in Tasks /\ state[curr_task] = "RUNNING" /\ cr3 = pgdir[curr_task]
      /\ TypesIn(free, fpages, kstack, pgdir, upage)
      /\ OwnersIn(state, kstack, pgdir, upage)
      /\ ApartIn(free, fpages, kstack, pgdir, upage)
      /\ AccountedIn(state, free, fpages, kstack, pgdir, upage)
      /\ Core /\ TypeOK
  BY <1>1, CallerFacts DEF MemInv, Core
<1>2. PICK k \in Page, d \in Page, u \in Page, c \in Tasks :
        /\ state[c] = "UNUSED" /\ state'[c] = "RUNNABLE"
        /\ k \in free /\ d \in free /\ u \in free /\ k # d /\ k # u /\ d # u
        /\ destroy_pages(free \ {k, d, u}, [kstack EXCEPT ![c] = k],
                         [pgdir EXCEPT ![c] = d], [upage EXCEPT ![c] = u])
  BY DEF mem_fork, kmalloc
<1> DEFINE st == [state EXCEPT ![c] = "RUNNABLE"]
           ks == [kstack EXCEPT ![c] = k]
           pd == [pgdir EXCEPT ![c] = d]
           up == [upage EXCEPT ![c] = u]
           F == free \ {k, d, u}
<1>4. \E par, nf : kill_off_zombies(st, par, nf)
  <2>1. PICK tp \in Tasks :
          kill_off_zombies([state EXCEPT ![tp] = "RUNNABLE"],
                           [parent EXCEPT ![tp] = curr_task],
                           [nopen EXCEPT ![tp] = nopen[curr_task]])
    BY DEF mem_fork, sys_fork
  <2>2. c = tp
    BY <1>2, <1>3, <2>1 DEF kill_off_zombies, destroy_task, TypeOK
  <2> QED
    BY <2>1, <2>2
<1>5. /\ \A t \in Tasks : /\ st[t] = IF t = c THEN "RUNNABLE" ELSE state[t]
                          /\ ks[t] = IF t = c THEN k ELSE kstack[t]
                          /\ pd[t] = IF t = c THEN d ELSE pgdir[t]
                          /\ up[t] = IF t = c THEN u ELSE upage[t]
      /\ ks \in [Tasks -> Page \cup {NONE}]
      /\ pd \in [Tasks -> Page \cup {NONE}] /\ up \in [Tasks -> Page \cup {NONE}]
  BY <1>3 DEF TypesIn, TypeOK
<1>6. c # scheduler_task /\ c # curr_task
  BY <1>2, <1>3 DEF Core
<1>7. destroy_pages(F, ks, pd, up)
  BY <1>2
<1>8. \A p : p \in F <=> p \in free /\ p # k /\ p # d /\ p # u
  OBVIOUS
<1> HIDE DEF st, ks, pd, up, F
<1>9. /\ \A t \in Tasks \ {c} : HeldIn(ks, pd, up, t) = HeldIn(kstack, pgdir, upage, t)
      /\ HeldIn(ks, pd, up, c) = {k, d, u}
  BY <1>2, <1>5 DEF HeldIn
<1>10. TypesIn(F, fpages, ks, pd, up)
  BY <1>3, <1>5, <1>8 DEF TypesIn
<1>11. OwnersIn(st, ks, pd, up)
  BY <1>2, <1>3, <1>5, <1>6 DEF OwnersIn
<1>12. ApartIn(F, fpages, ks, pd, up)
  <2>0. /\ \A t \in Tasks : HeldIn(kstack, pgdir, upage, t) \cap (free \cup fpages) = {}
        /\ free \cap fpages = {}
    BY <1>3 DEF ApartIn
  <2>1. \A t \in Tasks : HeldIn(ks, pd, up, t) \cap (F \cup fpages) = {}
    BY <1>2, <1>8, <1>9, <2>0
  <2>2. \A t \in Tasks : \A v \in Tasks \ {t} : HeldIn(ks, pd, up, t) \cap HeldIn(ks, pd, up, v) = {}
    <3>1. \A t \in Tasks \ {c} : HeldIn(ks, pd, up, t) \cap HeldIn(ks, pd, up, c) = {}
      BY <1>2, <1>9, <2>0
    <3> TAKE t \in Tasks
    <3> TAKE v \in Tasks \ {t}
    <3>2. CASE t = c \/ v = c
      BY <3>1, <3>2
    <3>3. CASE t # c /\ v # c
      BY <1>3, <1>9, <3>3 DEF ApartIn
    <3> QED
      BY <3>2, <3>3
  <2>3. \A t \in Tasks : /\ ks[t] # NONE => ks[t] # pd[t] /\ ks[t] # up[t]
                         /\ pd[t] # NONE => pd[t] # up[t]
    BY <1>2, <1>3, <1>5 DEF ApartIn
  <2>4. F \cap fpages = {}
    BY <1>8, <2>0
  <2> QED
    BY <2>1, <2>2, <2>3, <2>4 DEF ApartIn
<1>13. AccountedIn(st, F, fpages, ks, pd, up)
  <2> SUFFICES ASSUME NEW p \in 1 .. NPAGES, p \notin F \cup fpages
               PROVE  \E t \in Tasks : st[t] # "UNUSED" /\ p \in HeldIn(ks, pd, up, t)
    BY DEF AccountedIn
  <2>1. CASE p \in {k, d, u}
    BY <1>5, <1>9, <2>1
  <2>2. CASE p \notin {k, d, u}
    <3>1. PICK t \in Tasks : state[t] # "UNUSED" /\ p \in HeldIn(kstack, pgdir, upage, t)
      BY <1>3, <1>8, <2>2 DEF AccountedIn
    <3>2. t # c
      BY <1>2, <3>1
    <3> QED
      BY <1>5, <1>9, <3>1, <3>2
  <2> QED
    BY <2>1, <2>2
<1>14. Layout(st, F, fpages', ks, pd, up)
  BY <1>1, <1>10, <1>11, <1>12, <1>13 DEF Layout
<1>15. nfailed' = 0 => /\ LowPage \notin F \cup fpages'
                       /\ \A t \in Tasks : LowPage \notin HeldIn(ks, pd, up, t)
  BY <1>1, <1>2, <1>8, <1>9, CallerFacts
<1>16. /\ \A t \in Tasks : st[t] = state[t] \/ (state[t] = "UNUSED" /\ st[t] = "RUNNABLE")
       /\ \A t \in Tasks : state[t] = "ZOMBIE" =>
            ks[t] = kstack[t] /\ pd[t] = pgdir[t] /\ up[t] = upage[t]
       /\ ks[curr_task] = kstack[curr_task] /\ cr3' = pd[curr_task]
  BY <1>1, <1>2, <1>3, <1>5, <1>6
<1> QED
  BY <1>1, <1>4, <1>7, <1>14, <1>15, <1>16, ReturnKeepsMem DEF MemInv

-----------------------------------------------------------------------------
(* Every behaviour of TaskMemory is a behaviour of the task table: what     *)
(* ProcProofs shows of Proc holds with memory too.                          *)
THEOREM MemImplementsProc == MemSpec => Spec
<1>1. MemInit => init_tasks
  BY DEF MemInit
<1>2. [MemNext]_allvars => [Next]_vars
  BY DEF MemNext, allvars, mem_schedule, mem_timer, mem_sleep, mem_exit, mem_fork, mem_execv,
     mem_execv_fails, mem_open, mem_reap, mem_panic, Next
<1> QED
  BY <1>1, <1>2, PTL DEF MemSpec, Spec

(* The invariant holds as long as execv fails at most once: the second      *)
(* failure frees a page that may be in use by then.                         *)
THEOREM MemSafety ==
  ASSUME MAX_FAILED <= 1
  PROVE  MemSpec => []MemInv
<1>1. MemInv /\ Core' /\ [MemNext]_allvars => MemInv'
  <2> SUFFICES ASSUME MemInv, Core', [MemNext]_allvars PROVE MemInv'
    OBVIOUS
  <2>1. CASE mem_schedule \/ mem_timer \/ mem_sleep \/ mem_exit
    BY <2>1, SwitchStep
  <2>2. CASE mem_fork
    BY <2>2, MemForkStep
  <2>3. CASE mem_execv
    BY <2>3, ExecvStep
  <2>4. CASE mem_execv_fails
    BY <2>4, ExecvFailsStep
  <2>5. CASE mem_open
    BY <2>5, OpenStep
  <2>6. CASE mem_reap
    BY <2>6, ReapStep
  <2>7. CASE mem_panic \/ UNCHANGED allvars
    <3>1. UNCHANGED <<state, mem>> /\ (machine' = "up" => UNCHANGED <<machine, curr_task>>)
      BY <2>7 DEF mem_panic, panic, sys_fork_full, stopped, allvars, vars
    <3> QED
      BY <3>1 DEF mem, MemInv, LowPageUnseen, Held, CpuOnOwnPages
  <2> QED
    BY <2>1, <2>2, <2>3, <2>4, <2>5, <2>6, <2>7 DEF MemNext
<1> QED
  BY <1>1, MemInitInv, MemImplementsProc, CoreAlways, PTL DEF MemSpec

(* Every variable keeps its type. *)
COROLLARY MemTypes ==
  ASSUME MAX_FAILED <= 1
  PROVE  MemSpec => []MemTypeOK
BY MemSafety, MemInvImplies, PTL

(* No page has two owners, whatever fork, execv, exit and wait do. *)
COROLLARY PagesHaveOneOwner ==
  ASSUME MAX_FAILED <= 1
  PROVE  MemSpec => []PagesDisjoint
BY MemSafety, MemInvImplies, PTL

(* No page is lost. *)
COROLLARY NoPageIsLost ==
  ASSUME MAX_FAILED <= 1
  PROVE  MemSpec => []NoLeak
BY MemSafety, MemInvImplies, PTL

(* Nothing frees the page directory or the stack that the CPU is using. *)
COROLLARY CpuKeepsItsPages ==
  ASSUME MAX_FAILED <= 1
  PROVE  MemSpec => []CpuOnOwnPages
BY MemSafety, MemInvImplies, PTL

(* The free list is only broken by a second failing execv: nothing else     *)
(* frees a page twice.                                                      *)
COROLLARY OneFailureIsHarmless ==
  ASSUME MAX_FAILED <= 1
  PROVE  MemSpec => []NoDoubleFree
BY MemSafety, MemInvImplies, PTL

=============================================================================
