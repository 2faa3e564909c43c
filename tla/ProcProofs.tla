----------------------------- MODULE ProcProofs -----------------------------
(***************************************************************************)
(* Proofs about the task table, for any number of slots.                   *)
(*                                                                         *)
(* Inv is the inductive invariant.  Its conjuncts say which tasks exist    *)
(* (the scheduler's slot and init's), what a parent pointer can be, and    *)
(* tie the remembered pid of a sleeping sys_wait to the child it names.    *)
(* NoHang is not inductive: it follows from Inv by counting sleepers.      *)
(***************************************************************************)
EXTENDS Proc, FiniteSetTheorems, TLAPS

(* Slots 0 and 1 are never given up while the machine is up. *)
FixedSlots ==
  /\ state[scheduler_task] \in {"RUNNING", "RUNNABLE"}
  /\ parent[scheduler_task] = NULL
  /\ wpid[scheduler_task] = NULL
  /\ parent[init_task] = NULL
  /\ machine = "up" => Live(init_task)

(* A parent pointer leads to a task, and a free slot has none. *)
ParentPointers ==
  \A t \in Tasks : /\ parent[t] # FILE
                   /\ state[t] = "UNUSED" => parent[t] = NULL

(* A task inside sys_wait is neither free nor a zombie. *)
WaitersLive == \A t \in Tasks : wpid[t] # NULL => Live(t)

Inv ==
  /\ TypeOK
  /\ OneRunning
  /\ FixedSlots
  /\ ParentPointers
  /\ WaitersLive
  /\ SleeperAwaitsLiveChild
  /\ WokenByExit
  /\ WaitPidNotStale

USE ProcAssumption DEF Tasks, scheduler_task, init_task, NULL, FILE, procstate

(* kill_off_zombies leaves a task table behind, whatever table it is given. *)
LEMMA KillOffType ==
  ASSUME NEW st \in [Tasks -> procstate],
         NEW par \in [Tasks -> Tasks \cup {NULL, FILE}],
         NEW nf \in [Tasks -> 0 .. MAX_OPEN_FILES],
         kill_off_zombies(st, par, nf)
  PROVE  /\ state' \in [Tasks -> procstate]
         /\ parent' \in [Tasks -> Tasks \cup {NULL, FILE}]
         /\ nopen' \in [Tasks -> 0 .. MAX_OPEN_FILES]
         /\ zombie_exists' \in {0, 1}
  BY DEF kill_off_zombies, destroy_task

(* The variables keep their types, even when open() overruns open_files. *)
THEOREM TypeCorrect == Spec => []TypeOK
<1>1. init_tasks => TypeOK
  BY DEF init_tasks, TypeOK
<1>2. TypeOK /\ [Next]_vars => TypeOK'
  <2> SUFFICES ASSUME TypeOK, [Next]_vars PROVE TypeOK'
    OBVIOUS
  <2> USE DEF TypeOK
  <2>1. CASE schedule
    BY <2>1, SMTT(30) DEF schedule, switch_to, NextSlot
  <2>2. CASE timer_irq
    BY <2>2 DEF timer_irq, switch_to
  <2>3. CASE panic
    BY <2>3 DEF panic
  <2>4. CASE sys_fork
    <3> PICK tp \in Tasks :
          kill_off_zombies([state EXCEPT ![tp] = "RUNNABLE"],
                           [parent EXCEPT ![tp] = curr_task],
                           [nopen EXCEPT ![tp] = nopen[curr_task]])
      BY <2>4 DEF sys_fork
    <3>1. /\ [state EXCEPT ![tp] = "RUNNABLE"] \in [Tasks -> procstate]
          /\ [parent EXCEPT ![tp] = curr_task] \in [Tasks -> Tasks \cup {NULL, FILE}]
          /\ [nopen EXCEPT ![tp] = nopen[curr_task]] \in [Tasks -> 0 .. MAX_OPEN_FILES]
      OBVIOUS
    <3> QED
      BY <2>4, <3>1, KillOffType DEF sys_fork
  <2>5. CASE sys_fork_full
    BY <2>5 DEF sys_fork_full
  <2>6. CASE sys_exit
    <3> DEFINE st == [state EXCEPT ![curr_task] = "ZOMBIE"]
    <3>1. st \in [Tasks -> procstate]
      OBVIOUS
    <3>2. wakeup_parent(st) \in [Tasks -> procstate]
      BY <3>1 DEF wakeup_parent
    <3> HIDE DEF st
    <3>3. switch_to(wakeup_parent(st), scheduler_task) \in [Tasks -> procstate]
      BY <3>2 DEF switch_to
    <3>4. state' \in [Tasks -> procstate]
      BY <2>6, <3>1, <3>3 DEF sys_exit, st
    <3> QED
      BY <2>6, <3>4 DEF sys_exit
  <2>7. CASE sys_wait
    BY <2>7 DEF sys_wait, kill_off_zombies, destroy_task
  <2>8. CASE sleep
    BY <2>8 DEF sleep, switch_to
  <2>9. CASE sys_wait_return
    BY <2>9 DEF sys_wait_return, kill_off_zombies, destroy_task
  <2>10. CASE sys_open
    <3>1. CASE /\ nopen[curr_task] < MAX_OPEN_FILES
               /\ kill_off_zombies(state, parent, [nopen EXCEPT ![curr_task] = @ + 1])
      <4>1. [nopen EXCEPT ![curr_task] = @ + 1] \in [Tasks -> 0 .. MAX_OPEN_FILES]
        BY <3>1
      <4> QED
        BY <2>10, <3>1, <4>1, KillOffType DEF sys_open
    <3>2. CASE kill_off_zombies(state, [parent EXCEPT ![curr_task] = FILE], nopen)
      <4>1. [parent EXCEPT ![curr_task] = FILE] \in [Tasks -> Tasks \cup {NULL, FILE}]
        OBVIOUS
      <4> QED
        BY <2>10, <3>2, <4>1, KillOffType DEF sys_open
    <3> QED
      BY <2>10, <3>1, <3>2 DEF sys_open
  <2>11. CASE sys_close
    <3>1. CASE nopen[curr_task] > 0 /\ kill_off_zombies(state, parent, [nopen EXCEPT ![curr_task] = @ - 1])
      <4>1. [nopen EXCEPT ![curr_task] = @ - 1] \in [Tasks -> 0 .. MAX_OPEN_FILES]
        BY <3>1
      <4> QED
        BY <2>11, <3>1, <4>1, KillOffType DEF sys_close
    <3>2. CASE kill_off_zombies(state, [parent EXCEPT ![curr_task] = NULL], nopen)
      <4>1. [parent EXCEPT ![curr_task] = NULL] \in [Tasks -> Tasks \cup {NULL, FILE}]
        OBVIOUS
      <4> QED
        BY <2>11, <3>2, <4>1, KillOffType DEF sys_close
    <3> QED
      BY <2>11, <3>1, <3>2 DEF sys_close
  <2>12. CASE sys_execv
    BY <2>12 DEF sys_execv, kill_off_zombies, destroy_task
  <2>13. CASE sys_other
    BY <2>13 DEF sys_other, kill_off_zombies, destroy_task
  <2>14. CASE UNCHANGED vars
    BY <2>14 DEF vars
  <2> QED
    BY <2>1, <2>2, <2>3, <2>4, <2>5, <2>6, <2>7, <2>8, <2>9, <2>10,
       <2>11, <2>12, <2>13, <2>14 DEF Next, stopped
<1> QED
  BY <1>1, <1>2, PTL DEF Spec

-----------------------------------------------------------------------------
(* What holds even of programs that overrun open_files: one task runs, and  *)
(* the scheduler's slot is never given up.                                  *)
Core ==
  /\ TypeOK
  /\ OneRunning
  /\ state[scheduler_task] \in {"RUNNING", "RUNNABLE"}

(* A system call that returns leaves the caller running and nobody else. *)
LEMMA ReturnKeepsCore ==
  ASSUME Core, TypeOK', machine = "up",
         curr_task' = curr_task, machine' = machine,
         NEW st, NEW par, NEW nf, kill_off_zombies(st, par, nf),
         \A t \in Tasks : st[t] = state[t] \/ (state[t] = "UNUSED" /\ st[t] = "RUNNABLE")
  PROVE  Core'
<1>1. \A t \in Tasks : \/ state'[t] = state[t]
                       \/ state[t] = "UNUSED" /\ state'[t] = "RUNNABLE"
                       \/ state[t] = "ZOMBIE" /\ state'[t] = "UNUSED"
  BY DEF kill_off_zombies, destroy_task, Reaped
<1>2. \A t \in Tasks : state[t] = "RUNNING" <=> t = curr_task
  BY DEF Core, OneRunning
<1>3. OneRunning'
  BY <1>1, <1>2 DEF OneRunning
<1> QED
  BY <1>1, <1>3 DEF Core, TypeOK

(* Core is inductive on its own, whatever programs do. *)
LEMMA CoreStep == Core /\ TypeOK' /\ [Next]_vars => Core'
<1> SUFFICES ASSUME Core, TypeOK', [Next]_vars PROVE Core'
  OBVIOUS
<1> USE DEF Core, TypeOK
<1>1. CASE schedule
  <2>1. PICK j \in Tasks : /\ state[j] = "RUNNABLE" /\ curr_task' = j
                           /\ state' = switch_to(state, j)
    BY <1>1 DEF schedule
  <2>2. curr_task = scheduler_task /\ machine' = machine /\ machine = "up"
    BY <1>1 DEF schedule
  <2>3. state[scheduler_task] = "RUNNING"
    BY <2>2 DEF OneRunning
  <2>4. state' = [t \in Tasks |-> IF t = j THEN "RUNNING"
                                  ELSE IF t = scheduler_task THEN "RUNNABLE" ELSE state[t]]
    BY <2>1, <2>2, <2>3 DEF switch_to
  <2> QED
    BY <2>1, <2>2, <2>4 DEF OneRunning
<1>2. ASSUME InUser, curr_task' = scheduler_task, machine' = machine,
             NEW st \in [Tasks -> procstate], state' = switch_to(st, scheduler_task),
             \A t \in Tasks : t # curr_task => (st[t] = "RUNNING" <=> state[t] = "RUNNING")
      PROVE  Core'
  <2>1. state' = [t \in Tasks |-> IF t = scheduler_task THEN "RUNNING"
                                  ELSE IF t = curr_task /\ st[t] = "RUNNING" THEN "RUNNABLE"
                                  ELSE st[t]]
    BY <1>2 DEF switch_to, InUser
  <2>2. \A t \in Tasks : state[t] = "RUNNING" <=> t = curr_task
    BY <1>2 DEF OneRunning, InUser
  <2> QED
    BY <1>2, <2>1, <2>2 DEF OneRunning
<1>3. CASE timer_irq
  BY <1>2, <1>3 DEF timer_irq
<1>4. CASE sleep
  <2>1. [state EXCEPT ![curr_task] = "SLEEPING"] \in [Tasks -> procstate]
    OBVIOUS
  <2> QED
    BY <1>2, <1>4, <2>1 DEF sleep
<1>5. CASE sys_exit
  <2> DEFINE st == [state EXCEPT ![curr_task] = "ZOMBIE"]
  <2>1. CASE machine' = "panicked" /\ state' = st
    <3>1. curr_task # scheduler_task
      BY <1>5 DEF sys_exit, InUser
    <3>2. state'[scheduler_task] = state[scheduler_task]
      BY <2>1, <3>1
    <3>3. OneRunning'
      BY <2>1 DEF OneRunning
    <3> HIDE DEF TypeOK
    <3> QED
      BY <3>2, <3>3
  <2>2. CASE /\ state' = switch_to(wakeup_parent(st), scheduler_task)
             /\ curr_task' = scheduler_task /\ machine' = machine
    <3>1. wakeup_parent(st) \in [Tasks -> procstate]
      BY DEF wakeup_parent
    <3>2. \A t \in Tasks : t # curr_task => (wakeup_parent(st)[t] = "RUNNING" <=> state[t] = "RUNNING")
      BY DEF wakeup_parent
    <3> HIDE DEF st
    <3> QED
      BY <1>2, <1>5, <2>2, <3>1, <3>2 DEF sys_exit
  <2> QED
    BY <1>5, <2>1, <2>2 DEF sys_exit
<1>6. CASE sys_fork
  <2>1. PICK tp \in Tasks :
          /\ state[tp] = "UNUSED"
          /\ kill_off_zombies([state EXCEPT ![tp] = "RUNNABLE"],
                              [parent EXCEPT ![tp] = curr_task],
                              [nopen EXCEPT ![tp] = nopen[curr_task]])
    BY <1>6 DEF sys_fork, alloc_task
  <2>2. \A t \in Tasks : \/ [state EXCEPT ![tp] = "RUNNABLE"][t] = state[t]
                         \/ state[t] = "UNUSED" /\ [state EXCEPT ![tp] = "RUNNABLE"][t] = "RUNNABLE"
    BY <2>1
  <2> HIDE DEF Core, TypeOK
  <2> QED
    BY <1>6, <2>1, <2>2, ReturnKeepsCore DEF sys_fork, InUser
<1>7. CASE sys_wait \/ sys_wait_return \/ sys_open \/ sys_close \/ sys_execv \/ sys_other
  <2>1. /\ machine = "up" /\ curr_task' = curr_task /\ machine' = machine
        /\ \E par, nf : kill_off_zombies(state, par, nf)
    BY <1>7 DEF sys_wait, sys_wait_return, sys_open, sys_close, sys_execv, sys_other, InUser
  <2> HIDE DEF Core, TypeOK
  <2> QED
    BY <2>1, ReturnKeepsCore
<1>8. CASE panic \/ sys_fork_full \/ UNCHANGED vars
  BY <1>8 DEF panic, sys_fork_full, vars, OneRunning
<1> QED
  BY <1>1, <1>3, <1>4, <1>5, <1>6, <1>7, <1>8 DEF Next, stopped

(* Core holds in every state. *)
LEMMA CoreAlways == Spec => []Core
<1>1. init_tasks => Core
  BY DEF init_tasks, Core, TypeOK, OneRunning
<1> QED
  BY <1>1, CoreStep, TypeCorrect, PTL DEF Spec

(* One task runs at a time, whatever switches to whatever. *)
THEOREM OneTaskRuns == Spec => []OneRunning
<1>1. Core => OneRunning
  BY DEF Core
<1> QED
  BY <1>1, CoreAlways, PTL

(* What a system call that returns does to the states of tasks. *)
LEMMA ReturnIsLegal ==
  ASSUME Core, NEW par \in [Tasks -> Tasks \cup {NULL, FILE}], NEW nf,
         \A t \in Tasks : par[t] = parent[t] \/ t = curr_task,
         kill_off_zombies(state, par, nf), curr_task # scheduler_task, machine = "up"
  PROVE  LegalChanges
<1>1. state[curr_task] = "RUNNING"
  BY DEF Core, TypeOK, OneRunning
<1>2. \A t \in Tasks : state'[t] # state[t] =>
        state[t] = "ZOMBIE" /\ state'[t] = "UNUSED" /\ par[t] = curr_task
  BY DEF kill_off_zombies, destroy_task, Reaped
<1>3. \A t \in Tasks : state'[t] # state[t] => parent[t] = curr_task
  BY <1>1, <1>2
<1> QED
  BY <1>2, <1>3 DEF LegalChanges

(* Every step changes the states of tasks in a legal way. *)
LEMMA StepIsLegal == ASSUME Core, Next PROVE LegalChanges
<1> USE DEF Core, TypeOK
<1>1. CASE schedule
  <2>1. PICK j \in Tasks : /\ state[j] = "RUNNABLE"
                           /\ state' = switch_to(state, j)
    BY <1>1 DEF schedule
  <2>2. \A t \in Tasks : t # j /\ t # curr_task => state'[t] = state[t]
    BY <2>1 DEF switch_to
  <2>3. state[curr_task] = "RUNNING"
    BY <1>1 DEF schedule, OneRunning
  <2>4. state'[j] = "RUNNING" /\ state'[curr_task] = "RUNNABLE"
    BY <2>1, <2>3 DEF switch_to
  <2> QED
    BY <2>1, <2>2, <2>3, <2>4 DEF LegalChanges
<1>2. CASE timer_irq
  <2>1. /\ state[curr_task] = "RUNNING" /\ curr_task # scheduler_task
        /\ state[scheduler_task] = "RUNNABLE"
    BY <1>2 DEF timer_irq, InUser, OneRunning
  <2>2. /\ state'[curr_task] = "RUNNABLE" /\ state'[scheduler_task] = "RUNNING"
        /\ \A t \in Tasks \ {curr_task, scheduler_task} : state'[t] = state[t]
    BY <1>2, <2>1 DEF timer_irq, switch_to
  <2> QED
    BY <2>1, <2>2 DEF LegalChanges
<1>3. CASE sleep
  <2>1. /\ state[curr_task] = "RUNNING" /\ curr_task # scheduler_task
        /\ state[scheduler_task] = "RUNNABLE"
    BY <1>3 DEF sleep, InUser, OneRunning
  <2>2. /\ state'[curr_task] = "SLEEPING" /\ state'[scheduler_task] = "RUNNING"
        /\ \A t \in Tasks \ {curr_task, scheduler_task} : state'[t] = state[t]
    BY <1>3, <2>1 DEF sleep, switch_to
  <2> QED
    BY <2>1, <2>2 DEF LegalChanges
<1>4. CASE sys_exit
  <2>1. /\ state[curr_task] = "RUNNING" /\ curr_task # scheduler_task
        /\ state[scheduler_task] = "RUNNABLE"
    BY <1>4 DEF sys_exit, InUser, OneRunning
  <2>2. /\ state'[curr_task] = "ZOMBIE"
        /\ state'[scheduler_task] \in {"RUNNABLE", "RUNNING"}
        /\ \A t \in Tasks \ {curr_task, scheduler_task} :
             \/ state'[t] = state[t]
             \/ state[t] = "SLEEPING" /\ state'[t] = "RUNNABLE"
    <3> DEFINE st == [state EXCEPT ![curr_task] = "ZOMBIE"]
    <3>1. \/ state' = st
          \/ state' = switch_to(wakeup_parent(st), scheduler_task)
      BY <1>4 DEF sys_exit
    <3>2. CASE state' = st
      BY <2>1, <3>2
    <3>3. CASE state' = switch_to(wakeup_parent(st), scheduler_task)
      <4>1. state' = [t \in Tasks |->
                        IF t = scheduler_task THEN "RUNNING"
                        ELSE IF t = curr_task THEN "ZOMBIE"
                        ELSE IF t = parent[curr_task] /\ state[t] = "SLEEPING"
                        THEN "RUNNABLE" ELSE state[t]]
        BY <2>1, <3>3 DEF switch_to, wakeup_parent
      <4> QED
        BY <2>1, <4>1
    <3> QED
      BY <3>1, <3>2, <3>3
  <2> QED
    BY <2>1, <2>2 DEF LegalChanges
<1>5. CASE sys_fork
  <2>1. curr_task # scheduler_task /\ state[curr_task] = "RUNNING"
    BY <1>5 DEF sys_fork, InUser, OneRunning
  <2>2. PICK tp \in Tasks :
          /\ state[tp] = "UNUSED"
          /\ kill_off_zombies([state EXCEPT ![tp] = "RUNNABLE"],
                              [parent EXCEPT ![tp] = curr_task],
                              [nopen EXCEPT ![tp] = nopen[curr_task]])
    BY <1>5 DEF sys_fork, alloc_task
  <2>3. /\ state'[tp] = "RUNNABLE"
        /\ \A t \in Tasks \ {tp} :
             \/ state'[t] = state[t]
             \/ state[t] = "ZOMBIE" /\ state'[t] = "UNUSED" /\ parent[t] = curr_task
    BY <2>2 DEF kill_off_zombies, destroy_task, Reaped
  <2> QED
    BY <2>2, <2>3 DEF LegalChanges
<1>6. CASE sys_wait \/ sys_wait_return \/ sys_execv \/ sys_other
  <2>1. machine = "up" /\ curr_task # scheduler_task /\ \E nf : kill_off_zombies(state, parent, nf)
    BY <1>6 DEF sys_wait, sys_wait_return, sys_execv, sys_other, InUser
  <2> QED
    BY <2>1, ReturnIsLegal
<1>7. CASE sys_open \/ sys_close
  <2>1. /\ machine = "up" /\ curr_task # scheduler_task
        /\ \E f \in {parent[curr_task], NULL, FILE} : \E nf :
             kill_off_zombies(state, [parent EXCEPT ![curr_task] = f], nf)
    <3>1. parent = [parent EXCEPT ![curr_task] = parent[curr_task]]
      OBVIOUS
    <3> QED
      BY <1>7, <3>1 DEF sys_open, sys_close, InUser
  <2>2. PICK f \in {parent[curr_task], NULL, FILE} :
          \E nf : kill_off_zombies(state, [parent EXCEPT ![curr_task] = f], nf)
    BY <2>1
  <2>3. /\ [parent EXCEPT ![curr_task] = f] \in [Tasks -> Tasks \cup {NULL, FILE}]
        /\ \A t \in Tasks : [parent EXCEPT ![curr_task] = f][t] = parent[t] \/ t = curr_task
    OBVIOUS
  <2> QED
    BY <2>1, <2>2, <2>3, ReturnIsLegal
<1>8. CASE panic \/ sys_fork_full \/ stopped
  BY <1>8 DEF panic, sys_fork_full, stopped, vars, LegalChanges
<1> QED
  BY <1>1, <1>2, <1>3, <1>4, <1>5, <1>6, <1>7, <1>8 DEF Next

(* No step revives a zombie or lets anyone but its parent free it; only the *)
(* running task leaves the CPU, sleeps or dies.                             *)
THEOREM LegalLifecycle == Spec => Lifecycle
<1>1. Core /\ [Next]_vars => [LegalChanges]_vars
  BY StepIsLegal
<1> QED
  BY <1>1, CoreAlways, PTL DEF Spec, Lifecycle

(* No step that ends in switch_to takes or frees a slot. *)
LEMMA SwitchStates ==
  ASSUME Core, schedule \/ timer_irq \/ sleep \/ sys_exit
  PROVE  \A t \in Tasks : state'[t] = "UNUSED" <=> state[t] = "UNUSED"
<1> USE DEF Core, TypeOK
<1>0. machine = "up" => state[curr_task] = "RUNNING"
  BY DEF OneRunning
<1>1. CASE schedule
  <2>1. PICK j \in Tasks : state[j] = "RUNNABLE" /\ state' = switch_to(state, j)
    BY <1>1 DEF schedule
  <2> QED
    BY <2>1 DEF switch_to
<1>2. CASE timer_irq
  BY <1>2 DEF timer_irq, switch_to
<1>3. CASE sleep
  BY <1>0, <1>3 DEF sleep, switch_to, InUser
<1>4. CASE sys_exit
  <2>1. \/ state' = [state EXCEPT ![curr_task] = "ZOMBIE"]
        \/ state' = switch_to(wakeup_parent([state EXCEPT ![curr_task] = "ZOMBIE"]), scheduler_task)
    BY <1>4 DEF sys_exit
  <2>2. state[curr_task] = "RUNNING"
    BY <1>0, <1>4 DEF sys_exit, InUser
  <2> QED
    BY <2>1, <2>2 DEF switch_to, wakeup_parent
<1> QED
  BY <1>1, <1>2, <1>3, <1>4

(* Only exit ends a live task, and a task that calls it is not in sys_wait. *)
LEMMA WaitersStep ==
  ASSUME Core, WaitersLive, [Next]_vars
  PROVE  WaitersLive'
<1> SUFFICES ASSUME NEW t \in Tasks, wpid'[t] # NULL
             PROVE  state'[t] \in {"SLEEPING", "RUNNABLE", "RUNNING"}
  BY DEF WaitersLive, Live
<1> USE DEF Core, TypeOK
<1>1. CASE UNCHANGED vars
  BY <1>1 DEF vars, WaitersLive, Live
<1>2. CASE sleep
  <2>1. /\ curr_task # scheduler_task /\ state[curr_task] = "RUNNING"
        /\ state' = switch_to([state EXCEPT ![curr_task] = "SLEEPING"], scheduler_task)
        /\ \A u \in Tasks : u # curr_task => wpid'[u] = wpid[u]
    BY <1>2 DEF sleep, InUser, OneRunning
  <2>2. CASE t = curr_task
    BY <2>1, <2>2 DEF switch_to
  <2>3. CASE t # curr_task
    BY <2>1, <2>3 DEF switch_to, WaitersLive, Live
  <2> QED
    BY <2>2, <2>3
<1>3. CASE Next /\ ~sleep
  <2>1. wpid[t] # NULL
    BY <1>3 DEF Next, schedule, timer_irq, panic, sys_fork, sys_fork_full, sys_exit, sys_wait,
       sys_wait_return, sys_open, sys_close, sys_execv, sys_other, stopped, vars
  <2>2. state[t] \in {"SLEEPING", "RUNNABLE", "RUNNING"}
    BY <2>1 DEF WaitersLive, Live
  <2>3. state'[t] # "ZOMBIE"
    <3>1. CASE sys_exit
      <4>1. t # curr_task
        BY <2>1, <3>1 DEF sys_exit, InUser
      <4>2. \/ state' = [state EXCEPT ![curr_task] = "ZOMBIE"]
            \/ state' = switch_to(wakeup_parent([state EXCEPT ![curr_task] = "ZOMBIE"]), scheduler_task)
        BY <3>1 DEF sys_exit
      <4> QED
        BY <2>2, <4>1, <4>2 DEF switch_to, wakeup_parent
    <3>2. CASE sys_fork
      <4>1. PICK tp \in Tasks :
              kill_off_zombies([state EXCEPT ![tp] = "RUNNABLE"],
                               [parent EXCEPT ![tp] = curr_task],
                               [nopen EXCEPT ![tp] = nopen[curr_task]])
        BY <3>2 DEF sys_fork
      <4> QED
        BY <2>2, <4>1 DEF kill_off_zombies, destroy_task
    <3>3. CASE sys_wait \/ sys_wait_return \/ sys_open \/ sys_close \/ sys_execv \/ sys_other
      <4>1. \E par, nf : kill_off_zombies(state, par, nf)
        BY <3>3 DEF sys_wait, sys_wait_return, sys_open, sys_close, sys_execv, sys_other
      <4> QED
        BY <2>2, <4>1 DEF kill_off_zombies, destroy_task
    <3>4. CASE schedule \/ timer_irq \/ panic \/ sys_fork_full \/ stopped
      BY <2>2, <3>4 DEF schedule, timer_irq, panic, sys_fork_full, stopped, vars, switch_to
    <3> QED
      BY <1>3, <3>1, <3>2, <3>3, <3>4 DEF Next
  <2>4. LegalChanges
    BY <1>3, StepIsLegal DEF Core, TypeOK
  <2> QED
    BY <2>2, <2>3, <2>4 DEF LegalChanges
<1> QED
  BY <1>1, <1>2, <1>3

-----------------------------------------------------------------------------
(* The step from a table to the table a system call returns with: slots in  *)
(* N were free and are now children of the caller, the caller's zombies may *)
(* have been freed, and every other slot is as it was.                      *)
LEMMA ReturnStep ==
  ASSUME Inv, TypeOK', machine = "up", curr_task # scheduler_task,
         curr_task' = curr_task, machine' = machine,
         NEW N \in SUBSET Tasks,
         \A t \in N : state[t] = "UNUSED" /\ state'[t] = "RUNNABLE" /\ parent'[t] = curr_task,
         \A t \in Tasks \ N :
           \/ state'[t] = state[t] /\ parent'[t] = parent[t]
           \/ /\ state[t] = "ZOMBIE" /\ parent[t] = curr_task
              /\ state'[t] = "UNUSED" /\ parent'[t] = NULL,
         \A t \in Tasks : wpid'[t] = IF t = curr_task THEN NULL ELSE wpid[t]
  PROVE  Inv'
<1> USE DEF Inv, TypeOK
<1>1. OneRunning'
  <2> SUFFICES ASSUME NEW t \in Tasks PROVE state'[t] = "RUNNING" <=> t = curr_task
    BY DEF OneRunning
  <2>1. state[t] = "RUNNING" <=> t = curr_task
    BY DEF OneRunning
  <2>2. CASE t \in N
    BY <2>1, <2>2
  <2>3. CASE t \notin N
    BY <2>1, <2>3
  <2> QED
    BY <2>2, <2>3
<1>2. FixedSlots'
  BY SMTT(30) DEF FixedSlots, Live
<1>3. ParentPointers'
  <2> SUFFICES ASSUME NEW t \in Tasks
               PROVE  parent'[t] # FILE /\ (state'[t] = "UNUSED" => parent'[t] = NULL)
    BY DEF ParentPointers
  <2>1. CASE t \in N
    BY <2>1, SMTT(30)
  <2>2. CASE t \notin N
    BY <2>2 DEF ParentPointers
  <2> QED
    BY <2>1, <2>2
<1>4. WaitersLive'
  BY DEF WaitersLive, Live
<1>5. SleeperAwaitsLiveChild'
  <2> SUFFICES ASSUME NEW t \in Tasks, state'[t] = "SLEEPING"
               PROVE  /\ wpid'[t] \in Tasks /\ parent'[wpid'[t]] = t
                      /\ state'[wpid'[t]] \in {"SLEEPING", "RUNNABLE", "RUNNING"}
    BY DEF SleeperAwaitsLiveChild, Live
  <2>1. state[t] = "SLEEPING" /\ t # curr_task
    BY DEF OneRunning
  <2>2. wpid[t] \in Tasks /\ parent[wpid[t]] = t /\ Live(wpid[t])
    BY <2>1 DEF SleeperAwaitsLiveChild
  <2> QED
    BY <2>1, <2>2, SMTT(30) DEF Live
<1>6. WokenByExit'
  <2> SUFFICES ASSUME NEW t \in Tasks, wpid'[t] # NULL, state'[t] \in {"RUNNABLE", "RUNNING"}
               PROVE  \E z \in Tasks : parent'[z] = t /\ state'[z] = "ZOMBIE"
    BY DEF WokenByExit, Children
  <2>1. t # curr_task /\ wpid[t] # NULL /\ state[t] \in {"RUNNABLE", "RUNNING"}
    BY DEF WaitersLive, Live
  <2>2. PICK z \in Tasks : parent[z] = t /\ state[z] = "ZOMBIE"
    BY <2>1 DEF WokenByExit, Children
  <2> QED
    BY <2>1, <2>2
<1>7. WaitPidNotStale'
  <2> SUFFICES ASSUME NEW t \in Tasks, wpid'[t] # NULL
               PROVE  parent'[wpid'[t]] = t /\ state'[wpid'[t]] # "UNUSED"
    BY DEF WaitPidNotStale
  <2>1. t # curr_task /\ wpid'[t] = wpid[t] /\ wpid[t] \in Tasks
    OBVIOUS
  <2>2. parent[wpid[t]] = t /\ state[wpid[t]] # "UNUSED"
    BY <2>1 DEF WaitPidNotStale
  <2> QED
    BY <2>1, <2>2, SMTT(30)
<1> QED
  BY <1>1, <1>2, <1>3, <1>4, <1>5, <1>6, <1>7

(* A system call that forks nothing, opens nothing beyond the table and     *)
(* ends in kill_off_zombies.                                                *)
LEMMA PlainReturn ==
  ASSUME Inv, TypeOK', machine = "up", curr_task # scheduler_task,
         curr_task' = curr_task, machine' = machine,
         NEW nf, kill_off_zombies(state, parent, nf),
         wpid' = [wpid EXCEPT ![curr_task] = NULL]
  PROVE  Inv'
<1>1. \A t \in Tasks :
        \/ state'[t] = state[t] /\ parent'[t] = parent[t]
        \/ /\ state[t] = "ZOMBIE" /\ parent[t] = curr_task
           /\ state'[t] = "UNUSED" /\ parent'[t] = NULL
  BY DEF kill_off_zombies, destroy_task, Reaped
<1>2. \A t \in Tasks : wpid'[t] = IF t = curr_task THEN NULL ELSE wpid[t]
  BY DEF Inv, TypeOK
<1>3. \A t \in {} : state[t] = "UNUSED" /\ state'[t] = "RUNNABLE" /\ parent'[t] = curr_task
  OBVIOUS
<1>4. {} \in SUBSET Tasks /\ Tasks \ {} = Tasks
  OBVIOUS
<1> QED
  BY <1>1, <1>2, <1>3, <1>4, ReturnStep

-----------------------------------------------------------------------------
(* The table that init_tasks and create_init_task leave satisfies Inv. *)
LEMMA InitInv == init_tasks => Inv
<1> SUFFICES ASSUME init_tasks PROVE Inv
  OBVIOUS
<1>1. TypeOK
  BY DEF init_tasks, TypeOK
<1> QED
  BY <1>1 DEF init_tasks, Inv, OneRunning, FixedSlots, ParentPointers, WaitersLive,
     SleeperAwaitsLiveChild, WokenByExit, WaitPidNotStale, Live, Children

(* The scheduler hands the CPU to a RUNNABLE task. *)
LEMMA ScheduleStep == ASSUME Inv, TypeOK', schedule PROVE Inv'
<1> USE DEF Inv, TypeOK
<1>1. /\ UNCHANGED <<parent, wpid, machine>>
      /\ machine = "up" /\ curr_task = scheduler_task
  BY DEF schedule
<1>2. PICK j \in Tasks :
        /\ state[j] = "RUNNABLE" /\ curr_task' = j /\ j # scheduler_task
        /\ state' = [t \in Tasks |-> IF t = j THEN "RUNNING"
                                     ELSE IF t = scheduler_task THEN "RUNNABLE" ELSE state[t]]
  <2>1. PICK j \in Tasks : /\ state[j] = "RUNNABLE" /\ curr_task' = j
                           /\ state' = switch_to(state, j)
    BY DEF schedule
  <2>2. state[scheduler_task] = "RUNNING"
    BY <1>1 DEF OneRunning
  <2>3. j # scheduler_task
    BY <2>1, <2>2
  <2>4. state' = [t \in Tasks |-> IF t = j THEN "RUNNING"
                                  ELSE IF t = scheduler_task THEN "RUNNABLE" ELSE state[t]]
    BY <1>1, <2>1, <2>2, <2>3 DEF switch_to
  <2> QED
    BY <2>1, <2>3, <2>4
<1>3. \A t \in Tasks : Live(t) <=> Live(t)'
  BY <1>2, <1>1 DEF Live, OneRunning
<1>4. OneRunning' /\ FixedSlots' /\ ParentPointers'
  BY <1>2, <1>1, SMTT(30) DEF OneRunning, FixedSlots, ParentPointers, Live
<1>5. WaitersLive' /\ WaitPidNotStale'
  BY <1>2, <1>1, <1>3, SMTT(30) DEF WaitersLive, WaitPidNotStale, Live
<1>6. SleeperAwaitsLiveChild'
  BY <1>2, <1>1, <1>3 DEF SleeperAwaitsLiveChild, Live
<1>7. WokenByExit'
  <2> SUFFICES ASSUME NEW t \in Tasks, wpid'[t] # NULL, state'[t] \in {"RUNNABLE", "RUNNING"}
               PROVE  \E z \in Tasks : parent'[z] = t /\ state'[z] = "ZOMBIE"
    BY SMTT(30) DEF WokenByExit, Children
  <2>1. wpid[t] # NULL /\ state[t] \in {"RUNNABLE", "RUNNING"}
    BY <1>2, <1>1 DEF FixedSlots
  <2>2. PICK z \in Tasks : parent[z] = t /\ state[z] = "ZOMBIE"
    BY <2>1 DEF WokenByExit, Children
  <2> QED
    BY <1>2, <1>1, <2>2 DEF FixedSlots
<1> QED
  BY <1>4, <1>5, <1>6, <1>7

(* The timer takes the CPU away from a program. *)
LEMMA TimerStep == ASSUME Inv, TypeOK', timer_irq PROVE Inv'
<1> USE DEF Inv, TypeOK
<1>1. /\ UNCHANGED <<parent, wpid, machine>>
      /\ machine = "up" /\ curr_task # scheduler_task /\ wpid[curr_task] = NULL
      /\ curr_task' = scheduler_task
  BY DEF timer_irq, InUser
<1>2. state' = [t \in Tasks |-> IF t = scheduler_task THEN "RUNNING"
                                ELSE IF t = curr_task THEN "RUNNABLE" ELSE state[t]]
  BY <1>1 DEF timer_irq, switch_to, OneRunning
<1>3. \A t \in Tasks : Live(t) <=> Live(t)'
  BY <1>1, <1>2 DEF Live, OneRunning, FixedSlots
<1>4. OneRunning' /\ FixedSlots' /\ ParentPointers'
  BY <1>1, <1>2, SMTT(30) DEF OneRunning, FixedSlots, ParentPointers, Live
<1>5. WaitersLive'
  BY <1>1, <1>3 DEF WaitersLive
<1>8. WaitPidNotStale'
  <2> SUFFICES ASSUME NEW t \in Tasks, wpid'[t] # NULL
               PROVE  parent'[wpid'[t]] = t /\ state'[wpid'[t]] # "UNUSED"
    BY DEF WaitPidNotStale
  <2>1. wpid[t] \in Tasks /\ parent[wpid[t]] = t /\ state[wpid[t]] # "UNUSED"
    BY <1>1 DEF WaitPidNotStale
  <2> QED
    BY <1>1, <1>2, <2>1 DEF FixedSlots
<1>6. SleeperAwaitsLiveChild'
  BY <1>1, <1>2, <1>3 DEF SleeperAwaitsLiveChild, Live
<1>7. WokenByExit'
  <2> SUFFICES ASSUME NEW t \in Tasks, wpid'[t] # NULL, state'[t] \in {"RUNNABLE", "RUNNING"}
               PROVE  \E z \in Tasks : parent'[z] = t /\ state'[z] = "ZOMBIE"
    BY SMTT(30) DEF WokenByExit, Children
  <2>1. wpid[t] # NULL /\ state[t] \in {"RUNNABLE", "RUNNING"}
    BY <1>1, <1>2 DEF FixedSlots, OneRunning
  <2>2. PICK z \in Tasks : parent[z] = t /\ state[z] = "ZOMBIE"
    BY <2>1 DEF WokenByExit, Children
  <2> QED
    BY <1>1, <1>2, <2>2 DEF FixedSlots, OneRunning
<1> QED
  BY <1>4, <1>5, <1>6, <1>7, <1>8

(* sys_wait goes to sleep for a child that has not exited. *)
LEMMA SleepStep == ASSUME Inv, TypeOK', sleep PROVE Inv'
<1> USE DEF Inv, TypeOK
<1>1. /\ UNCHANGED <<parent, machine>>
      /\ machine = "up" /\ curr_task # scheduler_task /\ wpid[curr_task] = NULL
      /\ curr_task' = scheduler_task
  BY DEF sleep, InUser
<1>2. PICK c \in Tasks : /\ parent[c] = curr_task /\ state[c] # "ZOMBIE"
                         /\ wpid' = [wpid EXCEPT ![curr_task] = c]
  BY DEF sleep, FirstChild
<1>3. state' = [t \in Tasks |-> IF t = scheduler_task THEN "RUNNING"
                                ELSE IF t = curr_task THEN "SLEEPING" ELSE state[t]]
  BY <1>1 DEF sleep, switch_to, OneRunning
<1>4. \A t \in Tasks : Live(t) <=> Live(t)'
  BY <1>1, <1>3 DEF Live, OneRunning, FixedSlots
<1>5. Live(c)
  BY <1>1, <1>2 DEF Live, ParentPointers
<1>6. OneRunning' /\ FixedSlots' /\ ParentPointers'
  <2>1. OneRunning'
    BY <1>1, <1>3 DEF OneRunning
  <2>2. FixedSlots'
    <3>1. state'[scheduler_task] = "RUNNING"
      BY <1>1, <1>3
    <3>2. wpid'[scheduler_task] = NULL
      BY <1>1, <1>2 DEF FixedSlots
    <3>3. machine' = "up" => Live(init_task)'
      BY <1>1, <1>4 DEF FixedSlots
    <3> QED
      BY <1>1, <3>1, <3>2, <3>3 DEF FixedSlots
  <2>3. ParentPointers'
    BY <1>1, <1>3 DEF ParentPointers
  <2> QED
    BY <2>1, <2>2, <2>3
<1>7. WaitersLive'
  BY <1>1, <1>2, <1>3, <1>4 DEF WaitersLive, Live
<1>8. WaitPidNotStale'
  <2> SUFFICES ASSUME NEW t \in Tasks, wpid'[t] # NULL
               PROVE  parent'[wpid'[t]] = t /\ state'[wpid'[t]] # "UNUSED"
    BY DEF WaitPidNotStale
  <2>1. wpid'[t] \in Tasks /\ parent[wpid'[t]] = t /\ state[wpid'[t]] # "UNUSED"
    BY <1>1, <1>2, <1>5 DEF WaitPidNotStale, Live
  <2> QED
    BY <1>1, <1>3, <2>1 DEF FixedSlots
<1>9. SleeperAwaitsLiveChild'
  <2> SUFFICES ASSUME NEW t \in Tasks, state'[t] = "SLEEPING"
               PROVE  /\ wpid'[t] \in Tasks /\ parent'[wpid'[t]] = t
                      /\ state'[wpid'[t]] \in {"SLEEPING", "RUNNABLE", "RUNNING"}
    BY DEF SleeperAwaitsLiveChild, Live
  <2>1. CASE t = curr_task
    BY <1>1, <1>2, <1>4, <1>5, <2>1 DEF Live
  <2>2. CASE t # curr_task
    BY <1>1, <1>2, <1>3, <1>4, <2>2 DEF SleeperAwaitsLiveChild, Live
  <2> QED
    BY <2>1, <2>2
<1>10. WokenByExit'
  <2> SUFFICES ASSUME NEW t \in Tasks, wpid'[t] # NULL, state'[t] \in {"RUNNABLE", "RUNNING"}
               PROVE  \E z \in Tasks : parent'[z] = t /\ state'[z] = "ZOMBIE"
    BY SMTT(30) DEF WokenByExit, Children
  <2>1. wpid[t] # NULL /\ state[t] \in {"RUNNABLE", "RUNNING"}
    BY <1>1, <1>2, <1>3 DEF FixedSlots, OneRunning
  <2>2. PICK z \in Tasks : parent[z] = t /\ state[z] = "ZOMBIE"
    BY <2>1 DEF WokenByExit, Children
  <2> QED
    BY <1>1, <1>2, <1>3, <2>2 DEF FixedSlots, OneRunning
<1> QED
  BY <1>6, <1>7, <1>8, <1>9, <1>10

(* exit turns the caller into a zombie and wakes the parent that sleeps. *)
LEMMA ExitStep == ASSUME Inv, TypeOK', sys_exit PROVE Inv'
<1> USE DEF Inv, TypeOK
<1>1. /\ UNCHANGED <<parent, wpid>>
      /\ machine = "up" /\ curr_task # scheduler_task /\ wpid[curr_task] = NULL
      /\ state[curr_task] = "RUNNING"
  BY DEF sys_exit, InUser, OneRunning
<1>2. \/ /\ parent[curr_task] = NULL /\ machine' = "panicked"
         /\ state' = [t \in Tasks |-> IF t = curr_task THEN "ZOMBIE" ELSE state[t]]
      \/ /\ parent[curr_task] # NULL /\ machine' = "up" /\ curr_task' = scheduler_task
         /\ state' = [t \in Tasks |->
                        IF t = scheduler_task THEN "RUNNING"
                        ELSE IF t = curr_task THEN "ZOMBIE"
                        ELSE IF t = parent[curr_task] /\ state[t] = "SLEEPING"
                        THEN "RUNNABLE" ELSE state[t]]
  BY <1>1 DEF sys_exit, switch_to, wakeup_parent, OneRunning, FixedSlots
<1>2a. \A t \in Tasks : \/ t = scheduler_task /\ state'[t] \in {state[t], "RUNNING"}
                        \/ t = curr_task /\ state'[t] = "ZOMBIE"
                        \/ state[t] = "SLEEPING" /\ state'[t] = "RUNNABLE" /\ t = parent[curr_task]
                        \/ t # curr_task /\ state'[t] = state[t]
  BY <1>1, <1>2
<1>3. FixedSlots'
  <2>1. state'[scheduler_task] \in {"RUNNING", "RUNNABLE"}
    BY <1>1, <1>2a, SMTT(30) DEF FixedSlots
  <2>2. machine' = "up" => state'[init_task] \in {"SLEEPING", "RUNNABLE", "RUNNING"}
    <3> SUFFICES ASSUME machine' = "up"
                 PROVE  state'[init_task] \in {"SLEEPING", "RUNNABLE", "RUNNING"}
      OBVIOUS
    <3>1. init_task # curr_task
      BY <1>1, <1>2 DEF FixedSlots
    <3>2. init_task \in Tasks /\ init_task # scheduler_task /\ Live(init_task)
      BY <1>1 DEF FixedSlots
    <3> QED
      BY <1>2a, <3>1, <3>2 DEF Live
  <2> QED
    BY <1>1, <2>1, <2>2 DEF FixedSlots, Live
<1>4. OneRunning' /\ ParentPointers' /\ WaitersLive'
  <2>1. OneRunning'
    BY <1>1, <1>2, SMTT(30) DEF OneRunning
  <2>2. \A t \in Tasks : /\ state'[t] = "UNUSED" => state[t] = "UNUSED"
                         /\ Live(t) /\ t # curr_task =>
                              state'[t] \in {"SLEEPING", "RUNNABLE", "RUNNING"}
    BY <1>1, <1>2 DEF Live
  <2>3. ParentPointers' /\ WaitersLive'
    BY <1>1, <2>2 DEF ParentPointers, WaitersLive, Live
  <2> QED
    BY <2>1, <2>3
<1>5. SleeperAwaitsLiveChild'
  <2> SUFFICES ASSUME NEW t \in Tasks, state'[t] = "SLEEPING"
               PROVE  /\ wpid'[t] \in Tasks /\ parent'[wpid'[t]] = t
                      /\ state'[wpid'[t]] \in {"SLEEPING", "RUNNABLE", "RUNNING"}
    BY DEF SleeperAwaitsLiveChild, Live
  <2>1. state[t] = "SLEEPING"
    BY <1>1, <1>2a
  <2>1a. t # parent[curr_task]
    BY <1>1, <1>2, <2>1, SMTT(30)
  <2>2. wpid[t] \in Tasks /\ parent[wpid[t]] = t /\ Live(wpid[t])
    BY <2>1 DEF SleeperAwaitsLiveChild
  <2>3. wpid[t] # curr_task
    BY <2>1a, <2>2
  <2> QED
    BY <1>1, <1>2a, <2>2, <2>3 DEF Live
<1>6. WokenByExit'
  <2> SUFFICES ASSUME NEW t \in Tasks, wpid'[t] # NULL, state'[t] \in {"RUNNABLE", "RUNNING"}
               PROVE  \E z \in Tasks : parent'[z] = t /\ state'[z] = "ZOMBIE"
    BY SMTT(30) DEF WokenByExit, Children
  <2>1. CASE state[t] = "SLEEPING"
    <3>1. t = parent[curr_task] /\ state'[curr_task] = "ZOMBIE"
      BY <1>1, <1>2, <2>1 DEF FixedSlots
    <3> QED
      BY <1>1, <3>1
  <2>2. CASE state[t] # "SLEEPING"
    <3>1. wpid[t] # NULL /\ state[t] \in {"RUNNABLE", "RUNNING"}
      BY <1>1, <1>2, <2>2 DEF FixedSlots
    <3>2. PICK z \in Tasks : parent[z] = t /\ state[z] = "ZOMBIE"
      BY <3>1 DEF WokenByExit, Children
    <3> QED
      BY <1>1, <1>2, <3>2 DEF FixedSlots
  <2> QED
    BY <2>1, <2>2
<1>7. WaitPidNotStale'
  <2> SUFFICES ASSUME NEW t \in Tasks, wpid'[t] # NULL
               PROVE  parent'[wpid'[t]] = t /\ state'[wpid'[t]] # "UNUSED"
    BY DEF WaitPidNotStale
  <2>1. wpid[t] \in Tasks /\ parent[wpid[t]] = t /\ state[wpid[t]] # "UNUSED"
    BY <1>1 DEF WaitPidNotStale
  <2> QED
    BY <1>1, <1>2, <2>1 DEF FixedSlots
<1> QED
  BY <1>3, <1>4, <1>5, <1>6, <1>7

(* fork gives the lowest free slot to a child of the caller. *)
LEMMA ForkStep == ASSUME Inv, TypeOK', sys_fork PROVE Inv'
<1> USE DEF Inv, TypeOK
<1>1. /\ machine = "up" /\ curr_task # scheduler_task /\ wpid[curr_task] = NULL
      /\ UNCHANGED <<wpid, curr_task, machine>>
  BY DEF sys_fork, InUser
<1>2. PICK tp \in Tasks :
        /\ state[tp] = "UNUSED"
        /\ kill_off_zombies([state EXCEPT ![tp] = "RUNNABLE"],
                            [parent EXCEPT ![tp] = curr_task],
                            [nopen EXCEPT ![tp] = nopen[curr_task]])
  BY DEF sys_fork, alloc_task
<1>3. \A t \in {tp} : state[t] = "UNUSED" /\ state'[t] = "RUNNABLE" /\ parent'[t] = curr_task
  BY <1>2 DEF kill_off_zombies, destroy_task, Reaped
<1>4. \A t \in Tasks \ {tp} :
        \/ state'[t] = state[t] /\ parent'[t] = parent[t]
        \/ /\ state[t] = "ZOMBIE" /\ parent[t] = curr_task
           /\ state'[t] = "UNUSED" /\ parent'[t] = NULL
  BY <1>2 DEF kill_off_zombies, destroy_task, Reaped
<1>5. \A t \in Tasks : wpid'[t] = IF t = curr_task THEN NULL ELSE wpid[t]
  BY <1>1
<1>6. {tp} \in SUBSET Tasks
  OBVIOUS
<1> QED
  BY <1>1, <1>3, <1>4, <1>5, <1>6, ReturnStep

-----------------------------------------------------------------------------
(* An open within open_files. *)
FittingOpen == sys_open /\ nopen[curr_task] < MAX_OPEN_FILES

(* The exit of a program that has outlived its children. *)
OrderlyExit == sys_exit /\ \A c \in Children(curr_task) : ~Live(c)

OtherSteps ==
  \/ schedule \/ timer_irq \/ panic \/ sys_fork \/ sys_fork_full
  \/ sys_wait \/ sleep \/ sys_wait_return \/ sys_close \/ sys_execv \/ sys_other

(* The steps of programs that open no file too many, and of those that      *)
(* outlive their children as well.                                          *)
FittingNext == OtherSteps \/ FittingOpen \/ sys_exit

OrderlyNext == OtherSteps \/ FittingOpen \/ OrderlyExit

(* Every step of programs that open no file too many keeps Inv. *)
LEMMA InvStep == Inv /\ TypeOK' /\ [FittingNext]_vars => Inv'
<1> SUFFICES ASSUME Inv, TypeOK', [FittingNext]_vars PROVE Inv'
  OBVIOUS
<1>0. ASSUME InUser, UNCHANGED wpid
      PROVE  /\ machine = "up" /\ curr_task # scheduler_task
             /\ wpid' = [wpid EXCEPT ![curr_task] = NULL]
  BY <1>0 DEF InUser, Inv, TypeOK
<1>1. CASE schedule
  BY <1>1, ScheduleStep
<1>2. CASE timer_irq
  BY <1>2, TimerStep
<1>3. CASE panic \/ sys_fork_full
  BY <1>3 DEF panic, sys_fork_full, InUser, Inv, OneRunning, FixedSlots, ParentPointers,
     WaitersLive, SleeperAwaitsLiveChild, WokenByExit, WaitPidNotStale, Live, Children
<1>4. CASE sys_fork
  BY <1>4, ForkStep
<1>5. CASE sys_exit
  BY <1>5, ExitStep
<1>6. CASE sys_wait
  BY <1>0, <1>6, PlainReturn DEF sys_wait
<1>7. CASE sleep
  BY <1>7, SleepStep
<1>8. CASE sys_wait_return
  BY <1>8, PlainReturn DEF sys_wait_return
<1>9. CASE FittingOpen
  <2>1. sys_open /\ nopen[curr_task] < MAX_OPEN_FILES
    BY <1>9 DEF FittingOpen
  <2>2. kill_off_zombies(state, parent, [nopen EXCEPT ![curr_task] = @ + 1])
    BY <2>1 DEF sys_open, Inv, TypeOK
  <2> QED
    BY <1>0, <2>1, <2>2, PlainReturn DEF sys_open
<1>10. CASE sys_close
  <2>1. kill_off_zombies(state, parent, [nopen EXCEPT ![curr_task] = @ - 1])
    BY <1>10 DEF sys_close, Inv, TypeOK, ParentPointers
  <2> QED
    BY <1>0, <1>10, <2>1, PlainReturn DEF sys_close
<1>11. CASE sys_execv
  BY <1>0, <1>11, PlainReturn DEF sys_execv
<1>12. CASE sys_other
  BY <1>0, <1>12, PlainReturn DEF sys_other
<1>13. CASE UNCHANGED vars
  BY <1>13 DEF vars, Inv, OneRunning, FixedSlots, ParentPointers, WaitersLive,
     SleeperAwaitsLiveChild, WokenByExit, WaitPidNotStale, Live, Children
<1> QED
  BY <1>1, <1>2, <1>3, <1>4, <1>5, <1>6, <1>7, <1>8, <1>9, <1>10,
     <1>11, <1>12, <1>13 DEF FittingNext, OtherSteps

(* The bound on descriptors keeps every open within open_files. *)
LEMMA FittingSteps ==
  ASSUME OPEN_LIMIT <= MAX_OPEN_FILES, Inv, [Next]_vars
  PROVE  [FittingNext]_vars /\ (ORPHANS = FALSE => [OrderlyNext]_vars)
<1>1. sys_open => FittingOpen
  BY DEF FittingOpen, sys_open, Inv, TypeOK
<1>2. ORPHANS = FALSE /\ sys_exit => OrderlyExit
  BY DEF sys_exit, OrderlyExit
<1>3. stopped => UNCHANGED vars
  BY DEF stopped
<1> QED
  BY <1>1, <1>2, <1>3 DEF Next, FittingNext, OrderlyNext, OtherSteps

(* Programs that never hold more descriptors than open_files has slots      *)
(* keep the task table in Inv, however they are interleaved.                *)
THEOREM Safety ==
  ASSUME OPEN_LIMIT <= MAX_OPEN_FILES
  PROVE  Spec => []Inv
<1>1. Inv /\ [Next]_vars => [FittingNext]_vars
  BY FittingSteps
<1> QED
  BY <1>1, InitInv, InvStep, TypeCorrect, PTL DEF Spec

(* A sleeper's child is still to exit, and will wake it. *)
COROLLARY NoLostWakeup ==
  ASSUME OPEN_LIMIT <= MAX_OPEN_FILES
  PROVE  Spec => []SleeperAwaitsLiveChild
<1>1. Inv => SleeperAwaitsLiveChild
  BY DEF Inv
<1> QED
  BY <1>1, Safety, PTL

(* Whoever was woken in wait has a dead child of its own. *)
COROLLARY NoSpuriousWakeup ==
  ASSUME OPEN_LIMIT <= MAX_OPEN_FILES
  PROVE  Spec => []WokenByExit
<1>1. Inv => WokenByExit
  BY DEF Inv
<1> QED
  BY <1>1, Safety, PTL

(* The pid that wait read before it slept still names that child. *)
COROLLARY PidSurvivesSleep ==
  ASSUME OPEN_LIMIT <= MAX_OPEN_FILES
  PROVE  Spec => []WaitPidNotStale
<1>1. Inv => WaitPidNotStale
  BY DEF Inv
<1> QED
  BY <1>1, Safety, PTL

(* If nobody is RUNNABLE while the scheduler runs then init sleeps, and     *)
(* every sleeper awaits another sleeper that is not init.  Two sleepers     *)
(* would then await the same child, which has only one parent.              *)
LEMMA InvNoHang == Inv => NoHang
<1> SUFFICES ASSUME Inv, machine = "up", curr_task = scheduler_task,
                    \A t \in Tasks : state[t] # "RUNNABLE"
             PROVE  FALSE
  BY DEF NoHang
<1> DEFINE S == {t \in Tasks : state[t] = "SLEEPING"}
           f == [t \in S |-> wpid[t]]
<1>1. init_task \in S
  BY DEF Inv, TypeOK, OneRunning, FixedSlots, Live
<1>2. \A t \in S : wpid[t] \in S \ {init_task} /\ parent[wpid[t]] = t
  BY DEF Inv, TypeOK, OneRunning, FixedSlots, SleeperAwaitsLiveChild, Live
<1>3. IsFiniteSet(Tasks)
  BY FS_Interval
<1>4. IsFiniteSet(S) /\ Cardinality(S) \in Nat
  <2>1. S \in SUBSET Tasks
    OBVIOUS
  <2>2. IsFiniteSet(S)
    BY <1>3, <2>1, FS_Subset, Zenon
  <2> QED
    BY <2>2, FS_CardinalityType
<1>5. IsFiniteSet(S \ {init_task}) /\ Cardinality(S \ {init_task}) < Cardinality(S)
  <2> HIDE DEF S
  <2> QED
    BY <1>1, <1>4, FS_RemoveElement
<1>6. f \in [S -> S \ {init_task}]
  BY <1>2
<1>7. \A x, y \in S : f[x] = f[y] => x = y
  BY <1>2
<1> HIDE DEF S, f
<1> QED
  BY <1>4, <1>5, <1>6, <1>7, FS_PigeonHole

(* The scheduler always has a task to switch to. *)
THEOREM SchedulerNeverHangs ==
  ASSUME OPEN_LIMIT <= MAX_OPEN_FILES
  PROVE  Spec => []NoHang
BY Safety, InvNoHang, PTL

-----------------------------------------------------------------------------
(* What ORPHANS = FALSE adds: the parent of a live task is a live task, and *)
(* following parent pointers from live task to live task comes to an end.   *)
LiveParents == \A t \in Tasks : Live(t) /\ parent[t] \in Tasks => Live(parent[t])

Ancestry ==
  \A S \in SUBSET Tasks :
    S # {} /\ (\A t \in S : Live(t)) => \E t \in S : parent[t] \notin S

(* A set of sleepers that only await each other would be closed under the   *)
(* parent pointer too, since wpid is injective.                             *)
LEMMA AncestryNoCycle == Inv /\ Ancestry => NoWaitCycle
<1> SUFFICES ASSUME Inv, Ancestry,
                    NEW S \in SUBSET {t \in Tasks : state[t] = "SLEEPING"},
                    S # {}, \A t \in S : wpid[t] \in S
             PROVE  FALSE
  BY DEF NoWaitCycle
<1> DEFINE f == [t \in S |-> wpid[t]]
<1>1. \A t \in S : parent[wpid[t]] = t /\ Live(t)
  BY DEF Inv, SleeperAwaitsLiveChild, Live
<1>2. f \in Injection(S, S)
  BY <1>1 DEF Injection, IsInjective
<1>3. IsFiniteSet(S)
  <2>1. IsFiniteSet(Tasks) /\ S \in SUBSET Tasks
    BY FS_Interval
  <2> QED
    BY <2>1, FS_Subset, Zenon
<1>4. f \in Surjection(S, S)
  <2> HIDE DEF f
  <2> QED
    BY <1>2, <1>3, FS_Injection
<1>5. \A s \in S : parent[s] \in S
  <2>1. \A s \in S : \E t \in S : f[t] = s
    BY <1>4 DEF Surjection
  <2> QED
    BY <1>1, <2>1
<1> QED
  BY <1>1, <1>5 DEF Ancestry

(* A step that only adds live tasks as children of the live caller, and     *)
(* only ends tasks without live children, keeps the ancestry.               *)
LEMMA AncestryStep ==
  ASSUME Inv, LiveParents, Ancestry,
         \A t \in Tasks : Live(t)' =>
           \/ Live(t) /\ parent'[t] = parent[t]
           \/ ~Live(t) /\ parent'[t] = curr_task /\ Live(curr_task)
              /\ state'[curr_task] \in {"SLEEPING", "RUNNABLE", "RUNNING"},
         \A t \in Tasks : Live(t) /\ ~Live(t)' =>
           \A c \in Tasks : Live(c) => parent[c] # t
  PROVE  LiveParents' /\ Ancestry'
<1>1. LiveParents'
  <2> SUFFICES ASSUME NEW t \in Tasks, Live(t)', parent'[t] \in Tasks
               PROVE  state'[parent'[t]] \in {"SLEEPING", "RUNNABLE", "RUNNING"}
    BY DEF LiveParents, Live
  <2>1. CASE Live(t) /\ parent'[t] = parent[t]
    BY <2>1 DEF LiveParents, Live
  <2>2. CASE ~(Live(t) /\ parent'[t] = parent[t])
    BY <2>2
  <2> QED
    BY <2>1, <2>2
<1>2. Ancestry'
  <2> SUFFICES ASSUME NEW S \in SUBSET Tasks, S # {}, \A t \in S : Live(t)'
               PROVE  \E t \in S : parent'[t] \notin S
    BY DEF Ancestry
  <2> DEFINE O == {t \in S : Live(t)}
  <2>1. CASE O = {}
    <3>1. \A t \in S : parent'[t] = curr_task /\ curr_task \notin S
      BY <2>1
    <3>2. PICK t \in S : TRUE
      OBVIOUS
    <3> QED
      BY <3>1, <3>2
  <2>2. CASE O # {}
    <3>0. O \in SUBSET Tasks /\ \A t \in O : Live(t)
      BY DEF Live
    <3>1. PICK t \in O : parent[t] \notin O
      <4> HIDE DEF O
      <4> QED
        BY <2>2, <3>0 DEF Ancestry
    <3>2. parent'[t] = parent[t] /\ parent[t] \notin S
      BY <3>1 DEF LiveParents
    <3> QED
      BY <3>2
  <2> QED
    BY <2>1, <2>2
<1> QED
  BY <1>1, <1>2

(* Programs that outlive their children keep the ancestry.                  *)
LEMMA LineageStep ==
  Inv /\ Inv' /\ LiveParents /\ Ancestry /\ [OrderlyNext]_vars => LiveParents' /\ Ancestry'
<1> SUFFICES ASSUME Inv, Inv', LiveParents, Ancestry, [OrderlyNext]_vars
             PROVE  LiveParents' /\ Ancestry'
  OBVIOUS
<1>0. Inv /\ TypeOK /\ TypeOK' /\ OneRunning
  BY DEF Inv
<1>1. ASSUME \A t \in Tasks : Live(t)' <=> Live(t), \A t \in Tasks : Live(t) => parent'[t] = parent[t]
      PROVE  LiveParents' /\ Ancestry'
  BY <1>1, AncestryStep
<1>2. ASSUME NEW nf, kill_off_zombies(state, parent, nf)
      PROVE  LiveParents' /\ Ancestry'
  <2>1. \A t \in Tasks :
          \/ state'[t] = state[t] /\ parent'[t] = parent[t]
          \/ state[t] = "ZOMBIE" /\ state'[t] = "UNUSED"
    BY <1>2 DEF kill_off_zombies, destroy_task, Reaped
  <2> QED
    BY <1>1, <2>1 DEF Live
<1>3. CASE schedule
  BY <1>0, <1>1, <1>3 DEF schedule, switch_to, Live, TypeOK, OneRunning
<1>4. CASE timer_irq
  <2>1. curr_task # scheduler_task /\ state[scheduler_task] \in {"RUNNING", "RUNNABLE"}
    BY <1>4 DEF timer_irq, InUser, Inv, FixedSlots
  <2> QED
    BY <1>0, <1>1, <1>4, <2>1 DEF timer_irq, switch_to, Live, TypeOK, OneRunning, InUser
<1>5. CASE sleep
  <2>1. curr_task # scheduler_task /\ state[scheduler_task] \in {"RUNNING", "RUNNABLE"}
    BY <1>5 DEF sleep, InUser, Inv, FixedSlots
  <2> QED
    BY <1>0, <1>1, <1>5, <2>1 DEF sleep, switch_to, Live, TypeOK, OneRunning, InUser
<1>6. CASE OrderlyExit
  <2>0. sys_exit
    BY <1>6 DEF OrderlyExit
  <2>1. /\ curr_task # scheduler_task /\ parent' = parent /\ Live(curr_task)
        /\ state[scheduler_task] \in {"RUNNING", "RUNNABLE"}
    BY <2>0 DEF sys_exit, InUser, Inv, FixedSlots, OneRunning, Live, TypeOK
  <2>2. \A t \in Tasks \ {curr_task} : Live(t)' <=> Live(t)
    BY <1>0, <2>0, <2>1 DEF sys_exit, switch_to, wakeup_parent, Live, TypeOK
  <2>3. \A c \in Tasks : Live(c) => parent[c] # curr_task
    BY <1>6 DEF OrderlyExit, Children
  <2>4. \A t \in Tasks : t = curr_task => ~Live(t)'
    BY <1>0, <2>0, <2>1 DEF sys_exit, switch_to, wakeup_parent, TypeOK, Live
  <2> QED
    BY <2>1, <2>2, <2>3, <2>4, AncestryStep
<1>7. CASE sys_fork
  <2>1. PICK tp \in Tasks :
          /\ state[tp] = "UNUSED"
          /\ kill_off_zombies([state EXCEPT ![tp] = "RUNNABLE"],
                              [parent EXCEPT ![tp] = curr_task],
                              [nopen EXCEPT ![tp] = nopen[curr_task]])
    BY <1>7 DEF sys_fork, alloc_task
  <2>2. state[curr_task] = "RUNNING" /\ curr_task # tp
    BY <1>0, <1>7, <2>1 DEF sys_fork, InUser, OneRunning, TypeOK
  <2>3. /\ state'[tp] = "RUNNABLE" /\ parent'[tp] = curr_task
        /\ state'[curr_task] = "RUNNING"
    BY <1>0, <2>1, <2>2 DEF kill_off_zombies, destroy_task, Reaped, TypeOK
  <2>4. \A t \in Tasks \ {tp} :
          \/ state'[t] = state[t] /\ parent'[t] = parent[t]
          \/ state[t] = "ZOMBIE" /\ state'[t] = "UNUSED"
    BY <1>0, <2>1 DEF kill_off_zombies, destroy_task, Reaped, TypeOK
  <2> QED
    BY <2>1, <2>2, <2>3, <2>4, AncestryStep DEF Live
<1>8. CASE panic \/ sys_fork_full \/ UNCHANGED vars
  BY <1>1, <1>8 DEF panic, sys_fork_full, vars, Live
<1>9. CASE sys_wait \/ sys_wait_return \/ sys_execv \/ sys_other
  BY <1>2, <1>9 DEF sys_wait, sys_wait_return, sys_execv, sys_other
<1>10. CASE FittingOpen
  <2>1. sys_open /\ nopen[curr_task] < MAX_OPEN_FILES
    BY <1>10 DEF FittingOpen
  <2>2. kill_off_zombies(state, parent, [nopen EXCEPT ![curr_task] = @ + 1])
    BY <1>0, <2>1 DEF sys_open, TypeOK
  <2> QED
    BY <1>2, <2>2
<1>11. CASE sys_close
  <2>1. kill_off_zombies(state, parent, [nopen EXCEPT ![curr_task] = @ - 1])
    BY <1>0, <1>11 DEF sys_close, TypeOK, Inv, ParentPointers
  <2> QED
    BY <1>2, <2>1
<1> QED
  BY <1>3, <1>4, <1>5, <1>6, <1>7, <1>8, <1>9, <1>10, <1>11 DEF OrderlyNext, OtherSteps

(* The table starts without children. *)
LEMMA LineageInit == init_tasks => LiveParents /\ Ancestry
<1>1. init_tasks => \A t \in Tasks : parent[t] \notin Tasks
  BY DEF init_tasks
<1> QED
  BY <1>1 DEF LiveParents, Ancestry

(* Programs that outlive their children never wait for each other in a ring. *)
THEOREM NoRingOfWaiters ==
  ASSUME OPEN_LIMIT <= MAX_OPEN_FILES, ORPHANS = FALSE
  PROVE  Spec => []NoWaitCycle
<1>1. Inv /\ [Next]_vars => [OrderlyNext]_vars
  BY FittingSteps
<1> QED
  BY <1>1, LineageInit, LineageStep, Safety, AncestryNoCycle, PTL DEF Spec

-----------------------------------------------------------------------------
(* fork sets the parent of a task, and only reaping clears it. *)
LEMMA ParentStep == Inv /\ ParentIsTask /\ [FittingNext]_vars => ParentIsTask'
<1> SUFFICES ASSUME Inv, ParentIsTask, [FittingNext]_vars PROVE ParentIsTask'
  OBVIOUS
<1>0. TypeOK /\ ParentPointers
  BY DEF Inv
<1>1. ASSUME NEW nf, kill_off_zombies(state, parent, nf) PROVE ParentIsTask'
  BY <1>0, <1>1 DEF kill_off_zombies, destroy_task, ParentIsTask
<1>2. ASSUME parent' = parent, \A t \in Tasks : state[t] = "UNUSED" => state'[t] = "UNUSED"
      PROVE  ParentIsTask'
  BY <1>2 DEF ParentIsTask
<1>3. CASE schedule \/ timer_irq \/ sleep \/ sys_exit
  <2>1. \A t \in Tasks : state'[t] = "UNUSED" <=> state[t] = "UNUSED"
    BY <1>3, SwitchStates DEF Inv, Core, FixedSlots
  <2>2. parent' = parent
    BY <1>3 DEF schedule, timer_irq, sleep, sys_exit
  <2> QED
    BY <1>2, <2>1, <2>2
<1>4. CASE sys_fork
  <2>1. PICK tp \in Tasks : kill_off_zombies([state EXCEPT ![tp] = "RUNNABLE"],
                                            [parent EXCEPT ![tp] = curr_task],
                                            [nopen EXCEPT ![tp] = nopen[curr_task]])
    BY <1>4 DEF sys_fork
  <2> QED
    BY <1>0, <2>1 DEF kill_off_zombies, destroy_task, ParentIsTask, TypeOK
<1>5. CASE panic \/ sys_fork_full \/ UNCHANGED vars
  BY <1>2, <1>5 DEF panic, sys_fork_full, vars
<1>6. CASE sys_wait \/ sys_wait_return \/ sys_execv \/ sys_other
  BY <1>1, <1>6 DEF sys_wait, sys_wait_return, sys_execv, sys_other
<1>7. CASE FittingOpen
  <2>1. sys_open /\ nopen[curr_task] < MAX_OPEN_FILES
    BY <1>7 DEF FittingOpen
  <2>2. kill_off_zombies(state, parent, [nopen EXCEPT ![curr_task] = @ + 1])
    BY <1>0, <2>1 DEF sys_open, TypeOK
  <2> QED
    BY <1>1, <2>2
<1>8. CASE sys_close
  <2>1. kill_off_zombies(state, parent, [nopen EXCEPT ![curr_task] = @ - 1])
    BY <1>0, <1>8 DEF sys_close, TypeOK, ParentPointers
  <2> QED
    BY <1>1, <2>1
<1> QED
  BY <1>3, <1>4, <1>5, <1>6, <1>7, <1>8 DEF FittingNext, OtherSteps

(* Programs within open_files always have a parent to wake up: the check in *)
(* wakeup_parent fails for init only.                                       *)
THEOREM EveryoneHasParent ==
  ASSUME OPEN_LIMIT <= MAX_OPEN_FILES
  PROVE  Spec => []ParentIsTask
<1>1. init_tasks => ParentIsTask
  BY DEF init_tasks, ParentIsTask
<1>2. Inv /\ [Next]_vars => [FittingNext]_vars
  BY FittingSteps
<1> QED
  BY <1>1, <1>2, ParentStep, Safety, PTL DEF Spec
=============================================================================
