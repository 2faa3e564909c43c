------------------------------- MODULE Proc -------------------------------
(***************************************************************************)
(* The task table of quaros and everything that changes the state of a     *)
(* task: the scheduler loop and the context switch (proc.c), the timer     *)
(* interrupt (interrupt.c), fork, exit and wait (sys_proc.c), and the      *)
(* reaping of zombies at the end of every system call.                     *)
(*                                                                         *)
(* There is one CPU.  Kernel code runs with interrupts disabled (every     *)
(* gate of the IDT is an interrupt gate and nothing executes sti), so a    *)
(* handler runs to its end, or to the switch_to in its middle, as one      *)
(* step.  Interrupts arrive only while a user program is executing.  What  *)
(* interleaves is therefore user programs, preempted between any two       *)
(* instructions, which are left free to issue any system call at any time. *)
(*                                                                         *)
(* Memory is not modelled here (see TaskMemory): a kmalloc that finds no   *)
(* page may panic at any system call that allocates.                       *)
(***************************************************************************)
EXTENDS Integers

CONSTANTS
  MAX_TASKS,       \* slots of the array tasks (1024 in proc.h)
  MAX_OPEN_FILES,  \* slots of task_struct.open_files (8 in proc.h)
  OPEN_LIMIT,      \* bound: the most descriptors a program tries to hold
  ORPHANS          \* may a program exit while a child of it still runs?

ASSUME ProcAssumption ==
  /\ MAX_TASKS \in Nat /\ MAX_TASKS >= 2
  /\ MAX_OPEN_FILES \in Nat
  /\ OPEN_LIMIT \in Nat
  /\ ORPHANS \in BOOLEAN

(* A task is named by its slot, which is also its pid (alloc_task). *)
Tasks == 0 .. MAX_TASKS - 1

scheduler_task == 0

(* The first slot alloc_task finds free after init_tasks took slot 0. *)
init_task == 1

NULL == -1

(* A pointer to a struct file where a pointer to a task is expected. *)
FILE == -2

VARIABLES
  state,          \* tasks[i].state
  parent,         \* tasks[i].parent
  nopen,          \* how many entries of tasks[i].open_files are not NULL
  wpid,           \* the local variable pid of a sys_wait that called sleep()
  curr_task,
  sched_i,        \* where the loop of schedule() continues
  zombie_exists,
  machine         \* "up", "panicked" (cli; hlt) or "wild" (see sys_fork_full)

vars == <<state, parent, nopen, wpid, curr_task, sched_i, zombie_exists, machine>>

procstate == {"UNUSED", "SLEEPING", "RUNNABLE", "RUNNING", "ZOMBIE"}

Live(t) == state[t] \in {"SLEEPING", "RUNNABLE", "RUNNING"}

Children(t) == {c \in Tasks : parent[c] = t}

(* The CPU is executing a user program: interrupts are enabled and the     *)
(* program may trap.  A task that slept in sys_wait and was dispatched     *)
(* again is still in the kernel until sys_wait_return.                     *)
InUser ==
  /\ machine = "up"
  /\ curr_task # scheduler_task
  /\ wpid[curr_task] = NULL

---------------------------------------------------------------------------
(* The task table when main() enters schedule(): init_tasks and            *)
(* create_init_task have run.                                              *)
init_tasks ==
  /\ state = [t \in Tasks |-> IF t = scheduler_task THEN "RUNNING"
                              ELSE IF t = init_task THEN "RUNNABLE"
                              ELSE "UNUSED"]
  /\ parent = [t \in Tasks |-> NULL]
  /\ nopen = [t \in Tasks |-> 0]
  /\ wpid = [t \in Tasks |-> NULL]
  /\ curr_task = scheduler_task
  /\ sched_i = 0
  /\ zombie_exists = 0
  /\ machine = "up"

(* Mutant: the task that is switched away from stays RUNNING. *)
switch_to_keeps_curr(st, next) == [st EXCEPT ![next] = "RUNNING"]

(* Mutant: the task that is switched away from becomes RUNNABLE, a zombie   *)
(* included.                                                                *)
switch_to_revives(st, next) == [st EXCEPT ![curr_task] = "RUNNABLE", ![next] = "RUNNING"]

(* switch_to(next): the state of every task after the switch. *)
switch_to(st, next) ==
  [st EXCEPT ![curr_task] = IF @ = "RUNNING" THEN "RUNNABLE" ELSE @,
             ![next] = "RUNNING"]

(* How far the loop of schedule() is from slot j when it stands at i. *)
Ahead(i, j) == (j - i) % MAX_TASKS

(* Mutant: i is not reduced modulo MAX_TASKS. *)
NextSlot_unbounded(i) == i + 1

(* Mutant: every scan starts at slot 0. *)
NextSlot_restarts(i) == 0

(* The increment of the loop in schedule(). *)
NextSlot(i) == (i + 1) % MAX_TASKS

(* The scheduler loop runs to the next RUNNABLE slot, cyclically from where *)
(* it stopped, and switches to it.  With no such slot it spins for ever.    *)
schedule ==
  /\ machine = "up"
  /\ curr_task = scheduler_task
  /\ \E j \in Tasks :
       /\ state[j] = "RUNNABLE"
       /\ \A k \in Tasks : state[k] = "RUNNABLE" => Ahead(sched_i, j) <= Ahead(sched_i, k)
       /\ state' = switch_to(state, j)
       /\ curr_task' = j
       /\ sched_i' = NextSlot(j)
  /\ UNCHANGED <<parent, nopen, wpid, zombie_exists, machine>>

(* The timer interrupt preempts the running program. *)
timer_irq ==
  /\ InUser
  /\ state' = switch_to(state, scheduler_task)
  /\ curr_task' = scheduler_task
  /\ UNCHANGED <<parent, nopen, wpid, sched_i, zombie_exists, machine>>

(* An exception or interrupt trampoline has no case for, or a kmalloc that  *)
(* finds the free list empty: panic().                                      *)
panic ==
  /\ InUser
  /\ machine' = "panicked"
  /\ UNCHANGED <<state, parent, nopen, wpid, curr_task, sched_i, zombie_exists>>

---------------------------------------------------------------------------
(* Mutant: reaps the zombies of every parent. *)
Reaped_of_anyone(st, par) ==
  {z \in Tasks : /\ zombie_exists = 1
                 /\ st[z] = "ZOMBIE"
                 /\ st[curr_task] # "SLEEPING"}

(* Mutant: reaps every child, dead or not. *)
Reaped_alive(st, par) ==
  {z \in Tasks : /\ zombie_exists = 1
                 /\ par[z] = curr_task
                 /\ st[curr_task] # "SLEEPING"}

(* Mutant: only a task that is still asleep reaps. *)
Reaped_asleep(st, par) ==
  {z \in Tasks : /\ zombie_exists = 1
                 /\ par[z] = curr_task
                 /\ st[z] = "ZOMBIE"
                 /\ st[curr_task] = "SLEEPING"}

(* The zombies that the current task reaps: its own, if the flag is up.     *)
Reaped(st, par) ==
  {z \in Tasks : /\ zombie_exists = 1
                 /\ par[z] = curr_task
                 /\ st[z] = "ZOMBIE"
                 /\ st[curr_task] # "SLEEPING"}

(* destroy_task on every slot of dead, starting from the given table. *)
destroy_task(dead, st, par, nf) ==
  /\ state'  = [t \in Tasks |-> IF t \in dead THEN "UNUSED" ELSE st[t]]
  /\ parent' = [t \in Tasks |-> IF t \in dead THEN NULL ELSE par[t]]
  /\ nopen'  = [t \in Tasks |-> IF t \in dead THEN 0 ELSE nf[t]]

(* The end of every system call that returns; st, par and nf are the task   *)
(* table the handler leaves behind.  The flag is lowered even if the        *)
(* zombies it announced belong to someone else.                             *)
kill_off_zombies(st, par, nf) ==
  /\ destroy_task(Reaped(st, par), st, par, nf)
  /\ zombie_exists' = 0

---------------------------------------------------------------------------
(* System calls.  Every one starts in user mode of the current task. *)

(* alloc_task takes the lowest UNUSED slot. *)
alloc_task(tp) ==
  /\ state[tp] = "UNUSED"
  /\ \A i \in Tasks : i < tp => state[i] # "UNUSED"

sys_fork ==
  /\ InUser
  /\ \E tp \in Tasks :
       /\ alloc_task(tp)
       /\ kill_off_zombies([state EXCEPT ![tp] = "RUNNABLE"],
                           [parent EXCEPT ![tp] = curr_task],
                           [nopen EXCEPT ![tp] = nopen[curr_task]])
  /\ UNCHANGED <<wpid, curr_task, sched_i, machine>>

(* With no free slot alloc_task returns NULL and sys_fork writes through    *)
(* it: nothing is known of the machine from then on.                        *)
sys_fork_full ==
  /\ InUser
  /\ \A t \in Tasks : state[t] # "UNUSED"
  /\ machine' = "wild"
  /\ UNCHANGED <<state, parent, nopen, wpid, curr_task, sched_i, zombie_exists>>

(* Mutant: nobody is woken. *)
wakeup_parent_omitted(st) == st

(* Mutant: every sleeper is woken. *)
wakeup_parent_all(st) ==
  [t \in Tasks |-> IF st[t] = "SLEEPING" THEN "RUNNABLE" ELSE st[t]]

(* wakeup_parent, for a parent pointer that leads to a task. *)
wakeup_parent(st) ==
  [t \in Tasks |-> IF t = parent[curr_task] /\ st[t] = "SLEEPING"
                   THEN "RUNNABLE" ELSE st[t]]

(* exit never returns: the zombie is never switched to again.  A task       *)
(* without a parent (init) makes wakeup_parent panic.                       *)
sys_exit ==
  /\ InUser
  /\ ORPHANS \/ \A c \in Children(curr_task) : ~Live(c)
  /\ zombie_exists' = 1
  /\ LET st == [state EXCEPT ![curr_task] = "ZOMBIE"] IN
       \/ /\ parent[curr_task] = NULL
          /\ state' = st
          /\ machine' = "panicked"
          /\ UNCHANGED curr_task
       \/ /\ parent[curr_task] # NULL
          /\ state' = switch_to(wakeup_parent(st), scheduler_task)
          /\ curr_task' = scheduler_task
          /\ UNCHANGED machine
  /\ UNCHANGED <<parent, nopen, wpid, sched_i>>

(* Mutant: wait takes the first task that has any parent. *)
FirstChild_of_anyone(c) ==
  /\ parent[c] # NULL
  /\ \A d \in Tasks : parent[d] # NULL => c <= d

(* wait looks at its child in the lowest slot only. *)
FirstChild(c) ==
  /\ parent[c] = curr_task
  /\ \A d \in Children(curr_task) : c <= d

(* wait with no child, or whose first child is a zombie, returns at once.   *)
sys_wait ==
  /\ InUser
  /\ \/ Children(curr_task) = {}
     \/ \E c \in Tasks : FirstChild(c) /\ state[c] = "ZOMBIE"
  /\ kill_off_zombies(state, parent, nopen)
  /\ UNCHANGED <<wpid, curr_task, sched_i, machine>>

(* Otherwise it remembers that child's pid and sleeps. *)
sleep ==
  /\ InUser
  /\ \E c \in Tasks :
       /\ FirstChild(c)
       /\ state[c] # "ZOMBIE"
       /\ wpid' = [wpid EXCEPT ![curr_task] = c]
  /\ state' = switch_to([state EXCEPT ![curr_task] = "SLEEPING"], scheduler_task)
  /\ curr_task' = scheduler_task
  /\ UNCHANGED <<parent, nopen, sched_i, zombie_exists, machine>>

(* switch_to returned inside sleep(): sys_wait returns the remembered pid,  *)
(* whichever child woke the task, and trampoline reaps.                     *)
sys_wait_return ==
  /\ machine = "up"
  /\ curr_task # scheduler_task
  /\ wpid[curr_task] # NULL
  /\ wpid' = [wpid EXCEPT ![curr_task] = NULL]
  /\ kill_off_zombies(state, parent, nopen)
  /\ UNCHANGED <<curr_task, sched_i, machine>>

(* open that finds the file stores it in the first empty slot.  With none   *)
(* left the store to open_files[MAX_OPEN_FILES] lands in the field behind   *)
(* the array, which is parent.                                              *)
sys_open ==
  /\ InUser
  /\ nopen[curr_task] < OPEN_LIMIT
  /\ \/ /\ nopen[curr_task] < MAX_OPEN_FILES
        /\ kill_off_zombies(state, parent, [nopen EXCEPT ![curr_task] = @ + 1])
     \/ /\ nopen[curr_task] >= MAX_OPEN_FILES
        /\ kill_off_zombies(state, [parent EXCEPT ![curr_task] = FILE], nopen)
  /\ UNCHANGED <<wpid, curr_task, sched_i, machine>>

(* close of a descriptor that open returned, the one past the array included. *)
sys_close ==
  /\ InUser
  /\ \/ /\ nopen[curr_task] > 0
        /\ kill_off_zombies(state, parent, [nopen EXCEPT ![curr_task] = @ - 1])
     \/ /\ parent[curr_task] = FILE
        /\ kill_off_zombies(state, [parent EXCEPT ![curr_task] = NULL], nopen)
  /\ UNCHANGED <<wpid, curr_task, sched_i, machine>>

(* A successful execv forgets the open files and keeps the task. *)
sys_execv ==
  /\ InUser
  /\ kill_off_zombies(state, parent, [nopen EXCEPT ![curr_task] = 0])
  /\ UNCHANGED <<wpid, curr_task, sched_i, machine>>

(* read, write, a number that is no system call, and every call that fails. *)
sys_other ==
  /\ InUser
  /\ kill_off_zombies(state, parent, nopen)
  /\ UNCHANGED <<wpid, curr_task, sched_i, machine>>

(* After hlt nothing happens. *)
stopped == machine # "up" /\ UNCHANGED vars

Next ==
  \/ schedule \/ timer_irq \/ panic
  \/ sys_fork \/ sys_fork_full \/ sys_exit
  \/ sys_wait \/ sleep \/ sys_wait_return
  \/ sys_open \/ sys_close \/ sys_execv \/ sys_other
  \/ stopped

Spec == init_tasks /\ [][Next]_vars

(* The scheduler loop and a woken sys_wait run with interrupts disabled, so *)
(* they cannot stop; the lapic timer is periodic.  User programs promise    *)
(* nothing.                                                                 *)
Fairness == WF_vars(schedule) /\ WF_vars(sys_wait_return) /\ WF_vars(timer_irq)

FairSpec == Spec /\ Fairness
---------------------------------------------------------------------------
(* The variables have the types of the C declarations. *)
TypeOK ==
  /\ state \in [Tasks -> procstate]
  /\ parent \in [Tasks -> Tasks \cup {NULL, FILE}]
  /\ nopen \in [Tasks -> 0 .. MAX_OPEN_FILES]
  /\ wpid \in [Tasks -> Tasks \cup {NULL}]
  /\ curr_task \in Tasks
  /\ sched_i \in Tasks
  /\ zombie_exists \in {0, 1}
  /\ machine \in {"up", "panicked", "wild"}

(* While the machine is up, curr_task is the one and only RUNNING task: no  *)
(* switch_to, from the timer, sleep or exit, leaves two tasks RUNNING or    *)
(* the current one in another state.                                        *)
OneRunning ==
  machine = "up" => \A t \in Tasks : state[t] = "RUNNING" <=> t = curr_task

(* No lost wakeup.  A task asleep in sys_wait is asleep for the child whose *)
(* pid it remembered; that child is still its child and has not exited, so  *)
(* an exit that will call wakeup_parent for this sleeper is still to come.  *)
SleeperAwaitsLiveChild ==
  \A t \in Tasks :
    state[t] = "SLEEPING" => wpid[t] \in Tasks /\ parent[wpid[t]] = t /\ Live(wpid[t])

(* No spurious wakeup.  A task that slept in sys_wait and is to run again   *)
(* has a child that exited and that nobody else has reaped.                 *)
WokenByExit ==
  \A t \in Tasks :
    wpid[t] # NULL /\ state[t] \in {"RUNNABLE", "RUNNING"} =>
      \E z \in Children(t) : state[z] = "ZOMBIE"

(* The pid that sys_wait read before sleep() and returns after it still     *)
(* names that child: the slot was not reaped and reused in between.         *)
WaitPidNotStale ==
  \A t \in Tasks :
    wpid[t] # NULL => parent[wpid[t]] = t /\ state[wpid[t]] # "UNUSED"

(* The scheduler, which runs with interrupts disabled, never loops over a   *)
(* table without a RUNNABLE task: nothing could ever end that loop.         *)
NoHang ==
  machine = "up" /\ curr_task = scheduler_task => \E t \in Tasks : state[t] = "RUNNABLE"

(* Programs that outlive their children (ORPHANS = FALSE) never sleep for   *)
(* each other: among any sleepers one awaits a task that is not of them.    *)
(* Stale parent pointers to a reused slot are what would close a cycle: an  *)
(* orphan keeps the pointer (sys_exit and destroy_task do not touch it) and *)
(* becomes the child of whoever gets the slot next.                         *)
NoWaitCycle ==
  \A S \in SUBSET {t \in Tasks : state[t] = "SLEEPING"} :
    S # {} => \E t \in S : wpid[t] \notin S

(* What the check in wakeup_parent asserts of every task but init and the   *)
(* scheduler: it has a parent task to wake up when it exits.                *)
ParentIsTask ==
  \A t \in Tasks \ {scheduler_task, init_task} : state[t] # "UNUSED" => parent[t] \in Tasks

(* The changes of state that a task may go through in one step. *)
LegalChanges ==
  \A t \in Tasks : state'[t] # state[t] =>
    \/ <<state[t], state'[t]>> \in
          {<<"UNUSED", "RUNNABLE">>, <<"RUNNABLE", "RUNNING">>, <<"SLEEPING", "RUNNABLE">>}
    \/ /\ <<state[t], state'[t]>> \in
          {<<"RUNNING", "RUNNABLE">>, <<"RUNNING", "SLEEPING">>, <<"RUNNING", "ZOMBIE">>}
       /\ t = curr_task
    \/ /\ <<state[t], state'[t]>> = <<"ZOMBIE", "UNUSED">>
       /\ parent[t] = curr_task

(* What a step may do to a task: in particular a ZOMBIE is never made       *)
(* RUNNABLE again (the comment in switch_to) and only its parent frees it.  *)
Lifecycle == [][LegalChanges]_vars

(* The round-robin scan starves nobody: a RUNNABLE task gets the CPU.       *)
RunnableRuns ==
  \A t \in Tasks : state[t] = "RUNNABLE" ~> (state[t] = "RUNNING" \/ machine # "up")
===========================================================================
